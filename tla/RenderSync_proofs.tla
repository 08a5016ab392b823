------------------------- MODULE RenderSync_proofs -------------------------
(***************************************************************************)
(* Proofs about RenderSync.  The types hold always.  As long as no mode is *)
(* set that needs another policy, all messages that go to all ranks are    *)
(* part of one log, the order in which rank 0 broadcasts them, and every   *)
(* rank takes them in this order.  The invariant says how far each rank    *)
(* has come in the log: in the phase in which messages are taken, nobody   *)
(* is ahead by a message that all have to handle together; in the phase in *)
(* which they are handled, this also holds, or all meet at one message.    *)
(* When the policy is to keep objects local, all this is not needed.       *)
(***************************************************************************)
EXTENDS RenderSync, SequenceTheorems, TLAPS

Typed ==
  /\ TypeOK
  /\ queue \in [Ranks -> Seq(Messages)] /\ toRank0 \in [Ranks -> Seq(Messages)]
  /\ cast \in [Ranks -> Seq(Messages)] /\ policies \in [Ranks -> Seq(Policies)]
  /\ synced \in [Ranks -> Seq(Messages)]
  /\ \A r \in Ranks : pc[r] = "object" => msg[r].type = "AddObject"

(* Without policy changes, all that is set and sent is for one policy, a,  *)
(* and one of the modes G that it is for.                                  *)
Sent == Messages \ {None}
Adds == {Add(x) : x \in Objects}
Fitting(G) == {m \in Messages : m.type = "SetMode" => m.mode \in G}

OnePolicy(a, G) ==
  /\ \A m \in Modes : m \in G <=> PolicyOf(m) = a
  /\ G \subseteq Modes /\ asked \in G /\ mode \in [Ranks -> G]
  /\ policy = [r \in Ranks |-> a] /\ mgrPolicy = [r \in Ranks |-> a]
  /\ policies \in [Ranks -> Seq({a})] /\ toRank0 \in [Ranks -> Seq(Adds)]
  /\ queue \in [Ranks -> Seq(Fitting(G))] /\ cast \in [Ranks -> Seq(Fitting(G))]
  /\ msg \in [Ranks -> Fitting(G)]

(* The ranks of a renderer are in the same phase of dispatch.              *)
Taking   == \A r \in Ranks : pc[r] \in {"next", "any", "frame"}
Handling == \A r \in Ranks : pc[r] \in {"handle", "catch up", "object", "end"}
Phased   == Taking \/ Handling \/ AllAt("done")

FramesTogether ==
  Benchmark => /\ AllAt("frame") \/ \A r \in Ranks : pc[r] # "frame"
               /\ \A r, q \in Ranks : batches[r] = batches[q]

(* log is all that has been broadcast, of which rank r has taken c[r]      *)
(* messages and handled p[r]; modes[i] is the render mode after i of them, *)
(* and at[k] the place in log of the kth message to be handled by all.     *)
Syncs(m) == m.type \in {"AddObject", "Quit"}
Busy(r)  == pc[r] \in {"any", "handle", "object"} /\ msg[r] # None

LogTyped(log, c, p, modes) ==
  /\ log \in Seq(Sent) /\ c \in [Ranks -> 0..Len(log)] /\ p \in [Ranks -> 0..Len(log)]
  /\ modes \in [0..Len(log) -> Modes]
  /\ \A i \in 1..Len(log) : modes[i] = IF log[i].type = "SetMode" THEN log[i].mode ELSE modes[i - 1]

(* What a rank has not taken yet is in its queue q or on the way d.        *)
QueueRight(log, n, q, d) ==
  /\ n + Len(q) + Len(d) = Len(log)
  /\ \A i \in 1..Len(q) : q[i] = log[n + i]
  /\ \A i \in 1..Len(d) : d[i] = log[n + Len(q) + i]
Queues(log, c) ==
  cast[0] = <<>> /\ \A r \in Ranks : QueueRight(log, c[r], queue[r], cast[r])

Positions(log, c, p, modes) ==
  \A r \in Ranks : /\ IF Busy(r) THEN c[r] = p[r] + 1 /\ msg[r] = log[c[r]] ELSE c[r] = p[r]
                   /\ mode[r] = modes[p[r]]

Numbered(log, at) ==
  /\ at \in Seq(1..Len(log))
  /\ \A j, k \in 1..Len(at) : j < k => at[j] < at[k]
  /\ \A i \in 1..Len(log) : Syncs(log[i]) <=> \E k \in 1..Len(at) : at[k] = i

(* s are those of the first n messages that are handled by all.            *)
RecordRight(log, at, n, s) ==
  /\ \A k \in 1..Len(s) : k \in 1..Len(at) /\ at[k] <= n /\ s[k] = log[at[k]]
  /\ \A k \in 1..Len(at) : at[k] <= n => k <= Len(s)
Recorded(log, c, at) == \A r \in Ranks : RecordRight(log, at, c[r], synced[r])

Endings == {"Kill", "Quit"}
NoneBetween(log, i, j) == \A k \in 1..Len(log) : i < k /\ k <= j => ~Syncs(log[k])
NoEnd(log, i) == \A k \in 1..Len(log) : k <= i => log[k].type \notin Endings

(* No rank is ahead by a message to be handled by all.                     *)
Level(log, p) ==
  /\ \A r, q \in Ranks : NoneBetween(log, p[r], p[q])
  /\ \A r \in Ranks : (pc[r] = "end" /\ Quits(r)) \/ NoEnd(log, p[r])

(* Nobody has such a message, or all handle the one at s.                  *)
Quiet == \A r \in Ranks : /\ pc[r] \in {"handle", "end"} /\ allsync[r] = "None"
                          /\ pc[r] = "handle" => ~Syncs(msg[r])

Meeting(log, p, s) ==
  /\ s \in 1..Len(log) /\ Syncs(log[s]) /\ NoEnd(log, s - 1)
  /\ \A r \in Ranks :
       /\ allsync[r] # "None"
       /\ pc[r] # "end" => p[r] < s /\ NoneBetween(log, p[r], s - 1)
       /\ pc[r] = "end" =>
            /\ p[r] = s /\ (log[s].type = "Quit" => Quits(r))
            /\ log[s].type = "AddObject" => \A q \in Together(r, log[s].object) : pc[q] = "end"

Placed(log, p) ==
  \/ Taking /\ Level(log, p)
  \/ Quiet /\ Level(log, p)
  \/ Handling /\ \E s \in Nat : Meeting(log, p, s)

Logged(log, c, p, modes, at) ==
  /\ LogTyped(log, c, p, modes) /\ Queues(log, c) /\ Positions(log, c, p, modes)
  /\ Numbered(log, at) /\ Recorded(log, c, at) /\ Placed(log, p)

OnlyQuits == \A r \in Ranks : \A i \in 1..Len(synced[r]) : synced[r][i] = End("Quit")

InStep(a) ==
  \/ a = "Local" /\ OnlyQuits
  \/ AllAt("done")
  \/ a # "Local" /\ \E log, c, p, modes, at : Logged(log, c, p, modes, at)

IInv == Typed /\ Phased /\ SameOrder /\ \E a, G : OnePolicy(a, G) /\ InStep(a)
-----------------------------------------------------------------------------
(* Types *)

LEMMA RanksTyped ==
  /\ NumRanks \in Nat /\ NumRanks > 0 /\ 0 \in Ranks /\ Ranks \subseteq Nat
  /\ \A r \in Ranks : r >= 0 /\ r < NumRanks
BY RenderSyncAssumption DEF Ranks

LEMMA MessageMade ==
  /\ None \in Messages
  /\ \A x \in Objects : Add(x) \in Messages
  /\ \A m \in Modes, d \in BOOLEAN : SetMode(m, d) \in Messages
  /\ \A n \in Limits : SetLimit(n) \in Messages
  /\ \A type \in Ends : End(type) \in Messages
BY DEF Messages

LEMMA MessageTyped ==
  ASSUME NEW m \in Messages
  PROVE  /\ m.type = "AddObject" => m.object \in Objects
         /\ m.type = "SetMode" => m.mode \in Modes /\ m.delayed \in BOOLEAN
         /\ m.type = "SetLimit" => m.limit \in Limits
         /\ m.type \in Endings => m = End(m.type) /\ m.type \in Ends
         /\ m.type = "None" => m = None
         /\ m = None => m.type = "None"
<1>1. CASE m = None
  BY <1>1 DEF None, Endings
<1>2. CASE \E x \in Objects : m = Add(x)
  BY <1>2 DEF None, Add, Endings
<1>3. CASE \E n \in Modes, d \in BOOLEAN : m = SetMode(n, d)
  BY <1>3 DEF None, SetMode, Endings
<1>4. CASE \E n \in Limits : m = SetLimit(n)
  BY <1>4 DEF None, SetLimit, Endings
<1>5. CASE \E type \in Ends : m = End(type)
  <2>1. Ends \subseteq {"Kill", "Quit"}
    BY RenderSyncAssumption
  <2> QED BY <1>5, <2>1 DEF None, End, Endings
<1> QED BY <1>1, <1>2, <1>3, <1>4, <1>5 DEF Messages

LEMMA PolicyTyped ==
  ASSUME fastest \in Fastest, NEW m
  PROVE  PolicyOf(m) \in Policies
BY RenderSyncAssumption DEF PolicyOf, Policies

LEMMA ToProcessTyped ==
  ASSUME NEW X, queue \in [Ranks -> Seq(X)], NEW ranks, NEW m \in X, ToProcess(ranks, m)
  PROVE  queue' \in [Ranks -> Seq(X)]
<1>1. \A r \in Ranks : Append(queue[r], m) \in Seq(X)
  BY AppendProperties
<1> QED BY <1>1 DEF ToProcess

LEMMA BroadcastTyped ==
  ASSUME NEW X, queue \in [Ranks -> Seq(X)], cast \in [Ranks -> Seq(X)],
         NEW m \in X, Broadcast(m)
  PROVE  queue' \in [Ranks -> Seq(X)] /\ cast' \in [Ranks -> Seq(X)]
<1>1. queue' \in [Ranks -> Seq(X)]
  BY ToProcessTyped DEF Broadcast
<1>2. \A r \in Ranks : Append(cast[r], m) \in Seq(X)
  BY AppendProperties
<1> QED BY <1>1, <1>2 DEF Broadcast

LEMMA BroadcastAndHandleTyped ==
  ASSUME NEW X, queue \in [Ranks -> Seq(X)], cast \in [Ranks -> Seq(X)],
         NEW Y, toRank0 \in [Ranks -> Seq(Y)], NEW r \in Ranks, NEW m \in X, m \in Y,
         BroadcastAndHandle(r, m)
  PROVE  /\ queue' \in [Ranks -> Seq(X)] /\ cast' \in [Ranks -> Seq(X)]
         /\ toRank0' \in [Ranks -> Seq(Y)]
<1>1. CASE r = 0
  BY <1>1, BroadcastTyped DEF BroadcastAndHandle
<1>2. CASE r # 0
  <2>1. toRank0' = [toRank0 EXCEPT ![r] = Append(toRank0[r], m)] /\ UNCHANGED <<cast, queue>>
    BY <1>2 DEF BroadcastAndHandle
  <2>2. Append(toRank0[r], m) \in Seq(Y)
    BY AppendProperties
  <2> QED BY <2>1, <2>2
<1> QED BY <1>1, <1>2

LEMMA TailTyped ==
  ASSUME NEW X, NEW f \in [Ranks -> Seq(X)], NEW r \in Ranks, f[r] # <<>>
  PROVE  Head(f[r]) \in X /\ [f EXCEPT ![r] = Tail(@)] \in [Ranks -> Seq(X)]
<1>1. Head(f[r]) \in X /\ Tail(f[r]) \in Seq(X)
  BY HeadTailProperties
<1> QED BY <1>1

(* Steps of the managers and of the hub keep the types.                    *)
LEMMA ManagerTyped ==
  ASSUME Typed,
         \/ \E x \in Objects : AddObject(x)
         \/ SetParameter \/ \E type \in Ends : SendEnd(type)
         \/ \E r \in Ranks : Manager(r)
  PROVE  Typed'
<1>1. /\ queue \in [Ranks -> Seq(Messages)] /\ cast \in [Ranks -> Seq(Messages)]
      /\ toRank0 \in [Ranks -> Seq(Messages)] /\ policies \in [Ranks -> Seq(Policies)]
      /\ mgrPolicy \in [Ranks -> Policies] /\ sets \in 0..MaxSets /\ output \subseteq Objects
  BY DEF Typed, TypeOK
<1>2. ASSUME /\ UNCHANGED <<renderer, process, history>>
             /\ queue' \in [Ranks -> Seq(Messages)] /\ cast' \in [Ranks -> Seq(Messages)]
             /\ toRank0' \in [Ranks -> Seq(Messages)] /\ policies' \in [Ranks -> Seq(Policies)]
             /\ mgrPolicy' \in [Ranks -> Policies] /\ sets' \in 0..MaxSets /\ ended' \in BOOLEAN
             /\ output' \subseteq Objects
      PROVE  Typed'
  BY <1>2 DEF Typed, TypeOK, renderer, process, history
<1>3. ASSUME NEW x \in Objects, AddObject(x)
      PROVE  Typed'
  <2>1. SourceOf[x] \in Ranks /\ Add(x) \in Messages
    BY RenderSyncAssumption, MessageMade
  <2>2. /\ queue' \in [Ranks -> Seq(Messages)] /\ cast' \in [Ranks -> Seq(Messages)]
        /\ toRank0' \in [Ranks -> Seq(Messages)]
    <3>1. CASE ToProcess({SourceOf[x]}, Add(x)) /\ UNCHANGED <<toRank0, cast>>
      BY <1>1, <2>1, <3>1, ToProcessTyped
    <3>2. CASE BroadcastAndHandle(SourceOf[x], Add(x))
      BY <1>1, <2>1, <3>2, BroadcastAndHandleTyped
    <3> QED BY <1>3, <3>1, <3>2 DEF AddObject
  <2>3. /\ UNCHANGED <<renderer, process, policies, mgrPolicy, sets, ended, history>>
        /\ output' = output \cup {x}
    BY <1>3 DEF AddObject
  <2>4. ended' \in BOOLEAN /\ output' \subseteq Objects
    BY <1>1, <2>3 DEF Typed, TypeOK
  <2> QED BY <1>1, <1>2, <2>2, <2>3, <2>4
<1>4. CASE SetParameter
  <2>1. PICK m \in Messages : Broadcast(m)
    BY <1>4, MessageMade DEF SetParameter
  <2>2. queue' \in [Ranks -> Seq(Messages)] /\ cast' \in [Ranks -> Seq(Messages)]
    BY <1>1, <2>1, BroadcastTyped
  <2>3. /\ UNCHANGED <<renderer, process, policies, mgrPolicy, toRank0, output, ended, history>>
        /\ sets' = sets + 1 /\ sets < MaxSets
    BY <1>4 DEF SetParameter
  <2>4. sets' \in 0..MaxSets
    BY <1>1, <2>3, RenderSyncAssumption
  <2>5. ended' \in BOOLEAN
    BY <2>3 DEF Typed, TypeOK
  <2> QED BY <1>1, <1>2, <2>2, <2>3, <2>4, <2>5
<1>5. ASSUME NEW type \in Ends, SendEnd(type)
      PROVE  Typed'
  <2>1. queue' \in [Ranks -> Seq(Messages)] /\ cast' \in [Ranks -> Seq(Messages)]
    BY <1>1, <1>5, MessageMade, BroadcastTyped DEF SendEnd
  <2>2. /\ UNCHANGED <<renderer, process, policies, mgrPolicy, toRank0, output, sets, history>>
        /\ ended' = TRUE
    BY <1>5 DEF SendEnd
  <2> QED BY <1>1, <1>2, <2>1, <2>2
<1>6. ASSUME NEW r \in Ranks, Manager(r)
      PROVE  Typed'
  <2>1. CASE Forwarded(r)
    <3>1. /\ UNCHANGED <<renderer, process, policies, mgrPolicy, output, sets, ended, history>>
          /\ toRank0[r] # <<>> /\ toRank0' = [toRank0 EXCEPT ![r] = Tail(@)]
          /\ Broadcast(Head(toRank0[r]))
      BY <2>1 DEF Forwarded, inputs
    <3>2. Head(toRank0[r]) \in Messages /\ toRank0' \in [Ranks -> Seq(Messages)]
      BY <1>1, <3>1, TailTyped
    <3>3. queue' \in [Ranks -> Seq(Messages)] /\ cast' \in [Ranks -> Seq(Messages)]
      BY <1>1, <3>1, <3>2, BroadcastTyped
    <3>4. ended' \in BOOLEAN
      BY <3>1 DEF Typed, TypeOK
    <3> QED BY <1>1, <1>2, <3>1, <3>2, <3>3, <3>4
  <2>2. CASE ReceiveBroadcast(r)
    <3>1. /\ UNCHANGED <<renderer, process, policies, mgrPolicy, toRank0, output, sets, ended, history>>
          /\ cast[r] # <<>> /\ cast' = [cast EXCEPT ![r] = Tail(@)]
          /\ ToProcess({r}, Head(cast[r]))
      BY <2>2 DEF ReceiveBroadcast, inputs
    <3>2. Head(cast[r]) \in Messages /\ cast' \in [Ranks -> Seq(Messages)]
      BY <1>1, <3>1, TailTyped
    <3>3. queue' \in [Ranks -> Seq(Messages)]
      BY <1>1, <3>1, <3>2, ToProcessTyped
    <3>4. ended' \in BOOLEAN
      BY <3>1 DEF Typed, TypeOK
    <3> QED BY <1>1, <1>2, <3>1, <3>2, <3>3, <3>4
  <2>3. CASE ReceivePolicy(r)
    <3>1. /\ UNCHANGED <<renderer, process, queue, toRank0, cast, output, sets, ended, history>>
          /\ policies[r] # <<>> /\ policies' = [policies EXCEPT ![r] = Tail(@)]
          /\ mgrPolicy' = [mgrPolicy EXCEPT ![r] = Head(policies[r])]
      BY <2>3 DEF ReceivePolicy, inputs
    <3>2. Head(policies[r]) \in Policies /\ policies' \in [Ranks -> Seq(Policies)]
      BY <1>1, <3>1, TailTyped
    <3>3. mgrPolicy' \in [Ranks -> Policies]
      BY <1>1, <3>1, <3>2
    <3>4. ended' \in BOOLEAN
      BY <3>1 DEF Typed, TypeOK
    <3> QED BY <1>1, <1>2, <3>1, <3>2, <3>3, <3>4
  <2> QED BY <1>6, <2>1, <2>2, <2>3 DEF Manager
<1> QED BY <1>3, <1>4, <1>5, <1>6

Phases == {"next", "any", "handle", "catch up", "object", "end", "frame", "done"}
BatchesRight == batches \in [Ranks -> Nat] /\ \A r \in Ranks : \E n \in Limits : batches[r] < n

LEMMA TypesOfProcess ==
  ASSUME Typed
  PROVE  /\ fastest \in Fastest /\ mode \in [Ranks -> Modes] /\ policy \in [Ranks -> Policies]
         /\ limit \in [Ranks -> Limits] /\ delayed \in [Ranks -> BOOLEAN]
         /\ msg \in [Ranks -> Messages] /\ pc \in [Ranks -> Phases]
         /\ allsync \in [Ranks -> {"None", "AddObject", "Quit"}] /\ BatchesRight
         /\ queue \in [Ranks -> Seq(Messages)] /\ policies \in [Ranks -> Seq(Policies)]
         /\ synced \in [Ranks -> Seq(Messages)] /\ added \in [Ranks -> SUBSET Objects]
         /\ \A r \in Ranks : pc[r] = "object" => msg[r].type = "AddObject"
BY DEF Typed, TypeOK, Phases, BatchesRight

LEMMA ProcessKeepsTypes ==
  ASSUME Typed, UNCHANGED <<manager, inputs>>,
         /\ fastest' \in Fastest /\ mode' \in [Ranks -> Modes] /\ policy' \in [Ranks -> Policies]
         /\ limit' \in [Ranks -> Limits] /\ delayed' \in [Ranks -> BOOLEAN]
         /\ msg' \in [Ranks -> Messages] /\ pc' \in [Ranks -> Phases]
         /\ allsync' \in [Ranks -> {"None", "AddObject", "Quit"}] /\ BatchesRight'
         /\ queue' \in [Ranks -> Seq(Messages)] /\ policies' \in [Ranks -> Seq(Policies)]
         /\ synced' \in [Ranks -> Seq(Messages)] /\ added' \in [Ranks -> SUBSET Objects]
         /\ \A r \in Ranks : pc'[r] = "object" => msg'[r].type = "AddObject"
  PROVE  Typed'
BY DEF Typed, TypeOK, Phases, BatchesRight, manager, inputs

LEMMA ContinueTyped ==
  ASSUME NEW all, NEW sync
  PROVE  Continue(all, sync) \in Phases /\ Continue(all, sync) \notin {"object", "next", "frame", "done", "any", "handle"}
BY DEF Continue, Phases

LEMMA TakesTyped ==
  ASSUME Typed, NEW r \in Ranks, NEW m \in Messages, Takes(r, m)
  PROVE  /\ msg' \in [Ranks -> Messages] /\ msg' = [msg EXCEPT ![r] = m]
         /\ queue' \in [Ranks -> Seq(Messages)] /\ synced' \in [Ranks -> Seq(Messages)]
<1>1. /\ queue \in [Ranks -> Seq(Messages)] /\ synced \in [Ranks -> Seq(Messages)]
      /\ msg \in [Ranks -> Messages]
  BY TypesOfProcess
<1>2. /\ msg' = [msg EXCEPT ![r] = m]
      /\ queue' = [queue EXCEPT ![r] = IF queue[r] = <<>> THEN queue[r] ELSE Tail(queue[r])]
      /\ synced' = synced \/ synced' = [synced EXCEPT ![r] = Append(synced[r], m)]
  BY DEF Takes
<1>3. (IF queue[r] = <<>> THEN queue[r] ELSE Tail(queue[r])) \in Seq(Messages)
  BY <1>1, HeadTailProperties
<1>4. Append(synced[r], m) \in Seq(Messages)
  BY <1>1, AppendProperties
<1>5. queue' \in [Ranks -> Seq(Messages)]
  BY <1>1, <1>2, <1>3
<1>6. synced' \in [Ranks -> Seq(Messages)]
  BY <1>1, <1>2, <1>4
<1> QED BY <1>1, <1>2, <1>5, <1>6

(* The policies stay policies.                                             *)
LEMMA ChangeModesTyped ==
  ASSUME Typed, fastest' = fastest, NEW rs, NEW modes, ChangeModes(rs, modes)
  PROVE  policy' \in [Ranks -> Policies] /\ policies' \in [Ranks -> Seq(Policies)]
<1>1. /\ policy \in [Ranks -> Policies] /\ policies \in [Ranks -> Seq(Policies)]
      /\ fastest \in Fastest
  BY TypesOfProcess
<1>2. \A r \in Ranks : PolicyOf(modes[r]) \in Policies
  BY <1>1, PolicyTyped
<1>3. \A r \in Ranks : Append(policies[r], PolicyOf(modes[r])) \in Seq(Policies)
  BY <1>1, <1>2, AppendProperties
<1>4. policy' = [r \in Ranks |-> IF r \in rs THEN PolicyOf(modes[r]) ELSE policy[r]]
  BY DEF ChangeModes
<1>5. policies' = [r \in Ranks |-> IF r \in rs THEN Append(policies[r], PolicyOf(modes[r])) ELSE policies[r]]
  BY DEF ChangeModes
<1>6. policy' \in [Ranks -> Policies]
  BY <1>1, <1>2, <1>4
<1> QED BY <1>1, <1>3, <1>5, <1>6

(* Steps of a renderer's process keep the types.                           *)
LEMMA ProcessTyped ==
  ASSUME Typed, NEW r \in Ranks, Process(r)
  PROVE  Typed'
<1>0. /\ fastest \in Fastest /\ mode \in [Ranks -> Modes] /\ policy \in [Ranks -> Policies]
      /\ limit \in [Ranks -> Limits] /\ delayed \in [Ranks -> BOOLEAN]
      /\ msg \in [Ranks -> Messages] /\ pc \in [Ranks -> Phases]
      /\ allsync \in [Ranks -> {"None", "AddObject", "Quit"}] /\ BatchesRight
      /\ queue \in [Ranks -> Seq(Messages)] /\ policies \in [Ranks -> Seq(Policies)]
      /\ synced \in [Ranks -> Seq(Messages)] /\ added \in [Ranks -> SUBSET Objects]
      /\ \A q \in Ranks : pc[q] = "object" => msg[q].type = "AddObject"
  BY TypesOfProcess
<1>1. ASSUME batches' = batches
      PROVE  BatchesRight'
  BY <1>0, <1>1 DEF BatchesRight
<1>2. CASE Next1(r)
  <2>1. PICK m \in Messages : Takes(r, m)
    <3>1. queue[r] # <<>> => Head(queue[r]) \in Messages
      BY <1>0, HeadTailProperties
    <3> QED BY <1>2, <3>1, MessageMade DEF Next1
  <2>2. /\ pc' = [pc EXCEPT ![r] = "any"]
        /\ UNCHANGED <<renderer, allsync, batches, policies, manager, inputs, added>>
    BY <1>2 DEF Next1
  <2>3. pc' \in [Ranks -> Phases]
    BY <1>0, <2>2 DEF Phases
  <2>4. \A q \in Ranks : pc'[q] = "object" => msg'[q].type = "AddObject"
    BY <1>0, <2>1, <2>2, TakesTyped
  <2> QED BY <1>0, <1>1, <2>1, <2>2, <2>3, <2>4, TakesTyped, ProcessKeepsTypes DEF renderer
<1>3. CASE CatchUp(r)
  <2>1. PICK m \in Messages : Takes(r, m)
    <3>1. queue[r] # <<>> => Head(queue[r]) \in Messages
      BY <1>0, HeadTailProperties
    <3> QED BY <1>3, <3>1, MessageMade DEF CatchUp
  <2>2. /\ pc' = [pc EXCEPT ![r] = "handle"]
        /\ UNCHANGED <<renderer, allsync, batches, policies, manager, inputs, added>>
    BY <1>3 DEF CatchUp
  <2>3. pc' \in [Ranks -> Phases]
    BY <1>0, <2>2 DEF Phases
  <2>4. \A q \in Ranks : pc'[q] = "object" => msg'[q].type = "AddObject"
    BY <1>0, <2>1, <2>2, TakesTyped
  <2> QED BY <1>0, <1>1, <2>1, <2>2, <2>3, <2>4, TakesTyped, ProcessKeepsTypes DEF renderer
<1>4. CASE HandleSetMode(r)
  <2>1. /\ Handles(r, "SetMode") /\ mode' = [mode EXCEPT ![r] = msg[r].mode] /\ Handled(r)
        /\ \/ delayed' = [delayed EXCEPT ![r] = TRUE] /\ UNCHANGED <<policy, policies>>
           \/ ChangeModes({r}, mode') /\ UNCHANGED delayed
        /\ UNCHANGED <<fastest, limit, msg, allsync, batches, queue, manager, inputs, history>>
    BY <1>4 DEF HandleSetMode
  <2>2. mode' \in [Ranks -> Modes]
    BY <1>0, <2>1, MessageTyped DEF Handles
  <2>3. /\ pc' \in [Ranks -> Phases]
        /\ \A q \in Ranks : pc'[q] = "object" => pc[q] = "object"
    BY <1>0, <2>1, ContinueTyped DEF Handled
  <2>4. delayed' \in [Ranks -> BOOLEAN]
    BY <1>0, <2>1
  <2>5. policy' \in [Ranks -> Policies] /\ policies' \in [Ranks -> Seq(Policies)]
    BY <1>0, <2>1, ChangeModesTyped
  <2> QED BY <1>0, <1>1, <2>1, <2>2, <2>3, <2>4, <2>5, ProcessKeepsTypes DEF history
<1>5. CASE HandleSetLimit(r)
  <2>1. /\ Handles(r, "SetLimit") /\ limit' = [limit EXCEPT ![r] = msg[r].limit] /\ Handled(r)
        /\ UNCHANGED <<fastest, mode, policy, delayed, msg, allsync, batches, queue, policies,
                       manager, inputs, history>>
    BY <1>5 DEF HandleSetLimit
  <2>2. limit' \in [Ranks -> Limits]
    BY <1>0, <2>1, MessageTyped DEF Handles
  <2>3. /\ pc' \in [Ranks -> Phases]
        /\ \A q \in Ranks : pc'[q] = "object" => pc[q] = "object"
    BY <1>0, <2>1, ContinueTyped DEF Handled
  <2> QED BY <1>0, <1>1, <2>1, <2>2, <2>3, ProcessKeepsTypes DEF history
<1>6. CASE HandleAddObject(r)
  <2>1. /\ Handles(r, "AddObject") /\ pc' = [pc EXCEPT ![r] = "object"]
        /\ UNCHANGED <<renderer, msg, allsync, batches, queue, policies, manager, inputs, history>>
    BY <1>6 DEF HandleAddObject
  <2>2. pc' \in [Ranks -> Phases]
    BY <1>0, <2>1 DEF Phases
  <2>3. \A q \in Ranks : pc'[q] = "object" => msg'[q].type = "AddObject"
    BY <1>0, <2>1 DEF Handles
  <2> QED BY <1>0, <1>1, <2>1, <2>2, <2>3, ProcessKeepsTypes DEF history, renderer
<1>7. CASE AddInputObject(r)
  <2>1. PICK ranks :
          /\ added' = [q \in Ranks |-> IF q \in ranks /\ AddsAt(q, msg[r].object)
                                       THEN added[q] \cup {msg[r].object} ELSE added[q]]
          /\ pc' = [q \in Ranks |-> IF q \in ranks THEN Continue(allsync[q], NeedsSync(q, msg[q])) ELSE pc[q]]
    BY <1>7 DEF AddInputObject
  <2>2. /\ UNCHANGED <<renderer, msg, allsync, batches, queue, policies, manager, inputs, synced>>
        /\ pc[r] = "object"
    BY <1>7 DEF AddInputObject
  <2>3. msg[r].object \in Objects
    BY <1>0, <2>2, MessageTyped
  <2>4. added' \in [Ranks -> SUBSET Objects]
    BY <1>0, <2>1, <2>3
  <2>5. /\ pc' \in [Ranks -> Phases]
        /\ \A q \in Ranks : pc'[q] = "object" => pc[q] = "object"
    BY <1>0, <2>1, ContinueTyped
  <2> QED BY <1>0, <1>1, <2>2, <2>4, <2>5, ProcessKeepsTypes DEF renderer
<1>8. CASE HandleEnd(r)
  <2>1. /\ pc' = [pc EXCEPT ![r] = "end"]
        /\ UNCHANGED <<renderer, msg, allsync, batches, queue, policies, manager, inputs, history>>
    BY <1>8 DEF HandleEnd
  <2>2. /\ pc' \in [Ranks -> Phases]
        /\ \A q \in Ranks : pc'[q] = "object" => pc[q] = "object"
    BY <1>0, <2>1 DEF Phases
  <2> QED BY <1>0, <1>1, <2>1, <2>2, ProcessKeepsTypes DEF history, renderer
<1>9. CASE Render(r)
  <2>1. /\ pc' = [q \in Ranks |-> IF q = r \/ Benchmark THEN "next" ELSE pc[q]]
        /\ UNCHANGED <<renderer, msg, allsync, batches, queue, policies, manager, inputs, history>>
    BY <1>9 DEF Render
  <2>2. /\ pc' \in [Ranks -> Phases]
        /\ \A q \in Ranks : pc'[q] = "object" => pc[q] = "object"
    BY <1>0, <2>1 DEF Phases
  <2> QED BY <1>0, <1>1, <2>1, <2>2, ProcessKeepsTypes DEF history, renderer
<1> QED BY <1>2, <1>3, <1>4, <1>5, <1>6, <1>7, <1>8, <1>9 DEF Process

(* Steps of all processes together keep the types.                         *)
LEMMA CollectiveTyped ==
  ASSUME Typed, Collective
  PROVE  Typed'
<1>0. /\ fastest \in Fastest /\ mode \in [Ranks -> Modes] /\ policy \in [Ranks -> Policies]
      /\ limit \in [Ranks -> Limits] /\ delayed \in [Ranks -> BOOLEAN]
      /\ msg \in [Ranks -> Messages] /\ pc \in [Ranks -> Phases]
      /\ allsync \in [Ranks -> {"None", "AddObject", "Quit"}] /\ BatchesRight
      /\ queue \in [Ranks -> Seq(Messages)] /\ policies \in [Ranks -> Seq(Policies)]
      /\ synced \in [Ranks -> Seq(Messages)] /\ added \in [Ranks -> SUBSET Objects]
      /\ \A q \in Ranks : pc[q] = "object" => msg[q].type = "AddObject"
  BY TypesOfProcess
<1>1. CASE AnyMessage
  <2>1. /\ allsync' = [r \in Ranks |-> AllSync]
        /\ pc' = [r \in Ranks |-> IF \A q \in Ranks : msg[q] = None THEN "end"
                                  ELSE IF msg[r] = None THEN Continue(AllSync, FALSE) ELSE "handle"]
        /\ UNCHANGED <<renderer, msg, batches, queue, policies, manager, inputs, history>>
    BY <1>1 DEF AnyMessage
  <2>2. AllSync \in {"None", "AddObject", "Quit"}
    BY DEF AllSync
  <2>3. \A r \in Ranks : pc'[r] = "end" \/ pc'[r] = Continue(AllSync, FALSE) \/ pc'[r] = "handle"
    BY <2>1
  <2>4. /\ pc' \in [Ranks -> Phases]
        /\ \A q \in Ranks : pc'[q] # "object"
    BY <2>1, <2>3, ContinueTyped DEF Phases
  <2>5. allsync' \in [Ranks -> {"None", "AddObject", "Quit"}]
    BY <2>1, <2>2
  <2>6. BatchesRight'
    BY <1>0, <2>1 DEF BatchesRight
  <2> QED BY <1>0, <2>1, <2>4, <2>5, <2>6, ProcessKeepsTypes DEF renderer, history
<1>2. CASE EndBatch
  <2>1. /\ msg' = [r \in Ranks |-> None]
        /\ UNCHANGED <<fastest, mode, limit, allsync, manager, inputs, history>>
    BY <1>2 DEF EndBatch
  <2>2. msg' \in [Ranks -> Messages]
    BY <2>1, MessageMade
  <2>3. CASE /\ pc' = [r \in Ranks |-> "done"]
             /\ queue' = [r \in Ranks |-> <<>>]
             /\ UNCHANGED <<delayed, policy, policies, batches>>
    <3>1. pc' \in [Ranks -> Phases] /\ \A q \in Ranks : pc'[q] # "object"
      BY <2>3 DEF Phases
    <3>2. queue' \in [Ranks -> Seq(Messages)]
      <4>1. <<>> \in Seq(Messages)
        BY EmptySeq
      <4> QED BY <2>3, <4>1
    <3>3. BatchesRight'
      BY <1>0, <2>3 DEF BatchesRight
    <3> QED BY <1>0, <2>1, <2>2, <2>3, <3>1, <3>2, <3>3, ProcessKeepsTypes DEF history
  <2>4. ASSUME NEW rs, rs = {r \in Ranks : ~Another(r)},
               /\ pc' = [r \in Ranks |-> IF r \in rs THEN "frame" ELSE "next"]
               /\ batches' = [r \in Ranks |-> IF r \in rs THEN 0 ELSE batches[r] + 1]
               /\ ChangeModes({r \in rs : delayed[r]}, mode)
               /\ delayed' = [r \in Ranks |-> delayed[r] /\ r \notin rs]
               /\ UNCHANGED queue
        PROVE  Typed'
    <3>1. pc' \in [Ranks -> Phases] /\ \A q \in Ranks : pc'[q] # "object"
      BY <2>4 DEF Phases
    <3>2. BatchesRight'
      <4>1. Limits \subseteq Nat \ {0}
        BY RenderSyncAssumption
      <4>2. ASSUME NEW r \in Ranks
            PROVE  batches'[r] \in Nat /\ \E n \in Limits : batches'[r] < n
        <5>1. batches[r] \in Nat /\ limit[r] \in Limits
          BY <1>0 DEF BatchesRight
        <5>2. limit[r] \in Nat /\ limit[r] # 0
          BY <4>1, <5>1
        <5>3. CASE r \in rs
          <6>1. batches'[r] = 0
            BY <2>4, <5>3
          <6> QED BY <5>1, <5>2, <6>1
        <5>4. CASE r \notin rs
          <6>1. batches'[r] = batches[r] + 1
            BY <2>4, <5>4
          <6>2. batches[r] + 1 < limit[r]
            BY <2>4, <5>4 DEF Another
          <6> QED BY <5>1, <6>1, <6>2
        <5> QED BY <5>3, <5>4
      <4>3. batches' = [r \in Ranks |-> batches'[r]]
        BY <2>4
      <4> QED BY <4>2, <4>3 DEF BatchesRight
    <3>3. policy' \in [Ranks -> Policies] /\ policies' \in [Ranks -> Seq(Policies)]
      BY <2>1, <2>4, ChangeModesTyped
    <3>4. delayed' \in [Ranks -> BOOLEAN]
      BY <2>4
    <3> QED BY <1>0, <2>1, <2>2, <2>4, <3>1, <3>2, <3>3, <3>4, ProcessKeepsTypes DEF history
  <2> QED BY <1>2, <2>3, <2>4 DEF EndBatch
<1> QED BY <1>1, <1>2 DEF Collective

LEMMA InitTyped == Init => Typed
<1> SUFFICES ASSUME Init PROVE Typed
  OBVIOUS
<1>1. /\ fastest \in Fastest /\ output = {} /\ sets = 0 /\ ended = FALSE
      /\ delayed = [r \in Ranks |-> FALSE] /\ pc = [r \in Ranks |-> "next"]
      /\ msg = [r \in Ranks |-> None] /\ allsync = [r \in Ranks |-> "None"]
      /\ batches = [r \in Ranks |-> 0]
      /\ queue = [r \in Ranks |-> <<>>] /\ policies = [r \in Ranks |-> <<>>]
      /\ toRank0 = [r \in Ranks |-> <<>>] /\ cast = [r \in Ranks |-> <<>>]
      /\ added = [r \in Ranks |-> {}] /\ synced = [r \in Ranks |-> <<>>]
  BY DEF Init
<1>2. /\ mode \in [Ranks -> Modes] /\ policy \in [Ranks -> Policies] /\ mgrPolicy = policy
      /\ limit \in [Ranks -> Limits]
  BY <1>1, PolicyTyped DEF Init
<1>3. <<>> \in Seq(Messages) /\ <<>> \in Seq(Policies)
  BY EmptySeq
<1>4. /\ queue \in [Ranks -> Seq(Messages)] /\ toRank0 \in [Ranks -> Seq(Messages)]
      /\ cast \in [Ranks -> Seq(Messages)] /\ policies \in [Ranks -> Seq(Policies)]
      /\ synced \in [Ranks -> Seq(Messages)]
  BY <1>1, <1>3
<1>5. msg \in [Ranks -> Messages] /\ added \in [Ranks -> SUBSET Objects]
  BY <1>1, MessageMade
<1>6. batches \in [Ranks -> Nat] /\ \A r \in Ranks : \E n \in Limits : batches[r] < n
  <2>1. Limits \subseteq Nat \ {0}
    BY RenderSyncAssumption
  <2>2. \A r \in Ranks : batches[r] = 0 /\ limit[r] \in Limits
    BY <1>1, <1>2
  <2>3. \A n \in Limits : 0 < n
    BY <2>1
  <2>4. \A r \in Ranks : \E n \in Limits : batches[r] < n
    BY <2>2, <2>3
  <2>5. batches \in [Ranks -> Nat]
    BY <1>1
  <2> QED BY <2>4, <2>5
<1>7. sets \in 0..MaxSets
  BY <1>1, RenderSyncAssumption
<1>8. pc \in [Ranks -> Phases] /\ allsync \in [Ranks -> {"None", "AddObject", "Quit"}]
      /\ delayed \in [Ranks -> BOOLEAN] /\ \A r \in Ranks : pc[r] = "object" => msg[r].type = "AddObject"
  BY <1>1 DEF Phases
<1> QED BY <1>1, <1>2, <1>4, <1>5, <1>6, <1>7, <1>8 DEF Typed, TypeOK, Phases

LEMMA NextTyped == Typed /\ [Next]_vars => Typed'
<1> SUFFICES ASSUME Typed, [Next]_vars PROVE Typed'
  OBVIOUS
<1>1. CASE UNCHANGED vars
  BY <1>1 DEF vars, Typed, TypeOK, renderer, process, manager, inputs, history
<1>2. CASE Next
  BY <1>2, ManagerTyped, ProcessTyped, CollectiveTyped DEF Next
<1> QED BY <1>1, <1>2

LEMMA AlwaysTyped == Spec => []Typed
BY InitTyped, NextTyped, PTL DEF Spec

(* All variables have their types, whatever is set and sent.               *)
THEOREM TypeCorrect == Spec => []TypeOK
<1>1. Typed => TypeOK
  BY DEF Typed
<1> QED BY <1>1, AlwaysTyped, PTL

-----------------------------------------------------------------------------
(* Policies *)

LEMMA FastestKept == Next => fastest' = fastest
<1> SUFFICES ASSUME Next PROVE fastest' = fastest
  OBVIOUS
<1>1. (\E x \in Objects : AddObject(x)) => fastest' = fastest
  BY DEF AddObject, renderer
<1>2. SetParameter => fastest' = fastest
  BY DEF SetParameter, renderer
<1>3. (\E type \in Ends : SendEnd(type)) => fastest' = fastest
  BY DEF SendEnd, renderer
<1>4. ASSUME NEW r \in Ranks, Manager(r)
      PROVE  fastest' = fastest
  BY <1>4 DEF Manager, Forwarded, ReceiveBroadcast, ReceivePolicy, renderer
<1>5. ASSUME NEW r \in Ranks, Process(r)
      PROVE  fastest' = fastest
  BY <1>5 DEF Process, Next1, CatchUp, HandleSetMode, HandleSetLimit, HandleAddObject,
              AddInputObject, HandleEnd, Render, renderer
<1>6. Collective => fastest' = fastest
  BY DEF Collective, AnyMessage, EndBatch, renderer
<1> QED BY <1>1, <1>2, <1>3, <1>4, <1>5, <1>6 DEF Next

LEMMA PoliciesKept ==
  ASSUME NEW a, NEW G, OnePolicy(a, G), fastest' = fastest,
         /\ asked' \in G /\ mode' \in [Ranks -> G]
         /\ policy' = [r \in Ranks |-> a] /\ mgrPolicy' = [r \in Ranks |-> a]
         /\ policies' \in [Ranks -> Seq({a})] /\ toRank0' \in [Ranks -> Seq(Adds)]
         /\ queue' \in [Ranks -> Seq(Fitting(G))] /\ cast' \in [Ranks -> Seq(Fitting(G))]
         /\ msg' \in [Ranks -> Fitting(G)]
  PROVE  OnePolicy(a, G)'
<1>1. \A m : PolicyOf(m)' = PolicyOf(m)
  BY DEF PolicyOf
<1> QED BY <1>1 DEF OnePolicy

LEMMA FittingMade ==
  ASSUME NEW G, G \subseteq Modes
  PROVE  /\ None \in Fitting(G)
         /\ \A x \in Objects : Add(x) \in Fitting(G) /\ Add(x) \in Adds
         /\ \A m \in G, d \in BOOLEAN : SetMode(m, d) \in Fitting(G)
         /\ \A n \in Limits : SetLimit(n) \in Fitting(G)
         /\ \A type \in Ends : End(type) \in Fitting(G)
         /\ \A m \in Adds : m \in Fitting(G)
<1>1. Ends \subseteq {"Kill", "Quit"}
  BY RenderSyncAssumption
<1>2. /\ None.type # "SetMode"
      /\ \A x \in Objects : Add(x).type # "SetMode"
      /\ \A m \in G, d \in BOOLEAN : SetMode(m, d).mode = m
      /\ \A n \in Limits : SetLimit(n).type # "SetMode"
      /\ \A type \in Ends : End(type).type # "SetMode"
  BY <1>1 DEF None, Add, SetMode, SetLimit, End
<1> QED BY <1>2, MessageMade DEF Fitting, Adds

LEMMA ManagerPolicy ==
  ASSUME Typed, ~PolicyChanges, NEW a, NEW G, OnePolicy(a, G),
         \/ \E x \in Objects : AddObject(x)
         \/ SetParameter \/ \E type \in Ends : SendEnd(type)
         \/ \E r \in Ranks : Manager(r)
  PROVE  OnePolicy(a, G)'
<1>1. /\ G \subseteq Modes /\ asked \in G /\ mgrPolicy = [r \in Ranks |-> a]
      /\ policies \in [Ranks -> Seq({a})] /\ toRank0 \in [Ranks -> Seq(Adds)]
      /\ queue \in [Ranks -> Seq(Fitting(G))] /\ cast \in [Ranks -> Seq(Fitting(G))]
  BY DEF OnePolicy
<1>2. ASSUME /\ UNCHANGED <<renderer, process>> /\ asked' \in G
             /\ mgrPolicy' = [r \in Ranks |-> a] /\ policies' \in [Ranks -> Seq({a})]
             /\ toRank0' \in [Ranks -> Seq(Adds)]
             /\ queue' \in [Ranks -> Seq(Fitting(G))] /\ cast' \in [Ranks -> Seq(Fitting(G))]
      PROVE  OnePolicy(a, G)'
  <2>1. UNCHANGED <<fastest, mode, policy, msg>>
    BY <1>2 DEF renderer, process
  <2>2. mode \in [Ranks -> G] /\ policy = [r \in Ranks |-> a] /\ msg \in [Ranks -> Fitting(G)]
    BY DEF OnePolicy
  <2> QED BY <1>2, <2>1, <2>2, PoliciesKept
<1>3. ASSUME NEW x \in Objects, AddObject(x)
      PROVE  OnePolicy(a, G)'
  <2>1. SourceOf[x] \in Ranks /\ Add(x) \in Fitting(G) /\ Add(x) \in Adds
    BY <1>1, RenderSyncAssumption, FittingMade
  <2>2. /\ queue' \in [Ranks -> Seq(Fitting(G))] /\ cast' \in [Ranks -> Seq(Fitting(G))]
        /\ toRank0' \in [Ranks -> Seq(Adds)]
    <3>1. CASE ToProcess({SourceOf[x]}, Add(x)) /\ UNCHANGED <<toRank0, cast>>
      BY <1>1, <2>1, <3>1, ToProcessTyped
    <3>2. CASE BroadcastAndHandle(SourceOf[x], Add(x))
      BY <1>1, <2>1, <3>2, BroadcastAndHandleTyped
    <3> QED BY <1>3, <3>1, <3>2 DEF AddObject
  <2>3. UNCHANGED <<renderer, process, policies, mgrPolicy, asked>>
    BY <1>3 DEF AddObject
  <2> QED BY <1>1, <1>2, <2>2, <2>3
<1>4. CASE SetParameter
  <2>1. PICK m \in Fitting(G) : Broadcast(m) /\ asked' \in G
    <3>1. ASSUME NEW m \in Modes, NEW d \in BOOLEAN, PolicyOf(m) = PolicyOf(asked),
                 Broadcast(SetMode(m, d)), asked' = m
          PROVE  \E n \in Fitting(G) : Broadcast(n) /\ asked' \in G
      <4>1. m \in G
        BY <1>1, <3>1 DEF OnePolicy
      <4> QED BY <1>1, <3>1, <4>1, FittingMade
    <3>2. ASSUME NEW n \in Limits, Broadcast(SetLimit(n)), UNCHANGED asked
          PROVE  \E m \in Fitting(G) : Broadcast(m) /\ asked' \in G
      BY <1>1, <3>2, FittingMade
    <3> QED BY <1>4, <3>1, <3>2 DEF SetParameter
  <2>2. UNCHANGED <<renderer, process, policies, mgrPolicy, toRank0>>
    BY <1>4 DEF SetParameter
  <2> QED BY <1>1, <1>2, <2>1, <2>2, BroadcastTyped
<1>5. ASSUME NEW type \in Ends, SendEnd(type)
      PROVE  OnePolicy(a, G)'
  <2>1. End(type) \in Fitting(G) /\ Broadcast(End(type))
    BY <1>1, <1>5, FittingMade DEF SendEnd
  <2>2. UNCHANGED <<renderer, process, policies, mgrPolicy, toRank0, asked>>
    BY <1>5 DEF SendEnd
  <2> QED BY <1>1, <1>2, <2>1, <2>2, BroadcastTyped
<1>6. ASSUME NEW r \in Ranks, Manager(r)
      PROVE  OnePolicy(a, G)'
  <2>1. CASE Forwarded(r)
    <3>1. /\ UNCHANGED <<renderer, process, policies, mgrPolicy, asked>>
          /\ toRank0[r] # <<>> /\ toRank0' = [toRank0 EXCEPT ![r] = Tail(@)]
          /\ Broadcast(Head(toRank0[r]))
      BY <2>1 DEF Forwarded, inputs
    <3>2. Head(toRank0[r]) \in Adds /\ toRank0' \in [Ranks -> Seq(Adds)]
      BY <1>1, <3>1, TailTyped
    <3>3. Head(toRank0[r]) \in Fitting(G)
      BY <1>1, <3>2, FittingMade
    <3> QED BY <1>1, <1>2, <3>1, <3>2, <3>3, BroadcastTyped
  <2>2. CASE ReceiveBroadcast(r)
    <3>1. /\ UNCHANGED <<renderer, process, policies, mgrPolicy, toRank0, asked>>
          /\ cast[r] # <<>> /\ cast' = [cast EXCEPT ![r] = Tail(@)]
          /\ ToProcess({r}, Head(cast[r]))
      BY <2>2 DEF ReceiveBroadcast, inputs
    <3>2. Head(cast[r]) \in Fitting(G) /\ cast' \in [Ranks -> Seq(Fitting(G))]
      BY <1>1, <3>1, TailTyped
    <3>3. queue' \in [Ranks -> Seq(Fitting(G))]
      BY <1>1, <3>1, <3>2, ToProcessTyped
    <3> QED BY <1>1, <1>2, <3>1, <3>2, <3>3
  <2>3. CASE ReceivePolicy(r)
    <3>1. /\ UNCHANGED <<renderer, process, queue, toRank0, cast, asked>>
          /\ policies[r] # <<>> /\ policies' = [policies EXCEPT ![r] = Tail(@)]
          /\ mgrPolicy' = [mgrPolicy EXCEPT ![r] = Head(policies[r])]
      BY <2>3 DEF ReceivePolicy, inputs
    <3>2. Head(policies[r]) = a /\ policies' \in [Ranks -> Seq({a})]
      BY <1>1, <3>1, TailTyped
    <3>3. mgrPolicy' = [q \in Ranks |-> a]
      BY <1>1, <3>1, <3>2
    <3> QED BY <1>1, <1>2, <3>1, <3>2, <3>3
  <2> QED BY <1>6, <2>1, <2>2, <2>3 DEF Manager
<1> QED BY <1>3, <1>4, <1>5, <1>6

LEMMA TakesFitting ==
  ASSUME NEW X, queue \in [Ranks -> Seq(X)], msg \in [Ranks -> X], NEW r \in Ranks,
         NEW m \in X, Takes(r, m)
  PROVE  queue' \in [Ranks -> Seq(X)] /\ msg' \in [Ranks -> X]
<1>1. /\ msg' = [msg EXCEPT ![r] = m]
      /\ queue' = [queue EXCEPT ![r] = IF queue[r] = <<>> THEN queue[r] ELSE Tail(queue[r])]
  BY DEF Takes
<1>2. (IF queue[r] = <<>> THEN queue[r] ELSE Tail(queue[r])) \in Seq(X)
  BY HeadTailProperties
<1> QED BY <1>1, <1>2

LEMMA ChangesNoPolicy ==
  ASSUME NEW a, NEW G, OnePolicy(a, G), fastest' = fastest, NEW rs, NEW modes \in [Ranks -> G],
         ChangeModes(rs, modes)
  PROVE  policy' = [r \in Ranks |-> a] /\ policies' \in [Ranks -> Seq({a})]
<1>1. /\ \A m \in Modes : m \in G <=> PolicyOf(m) = a
      /\ G \subseteq Modes /\ policy = [r \in Ranks |-> a] /\ policies \in [Ranks -> Seq({a})]
  BY DEF OnePolicy
<1>2. \A r \in Ranks : PolicyOf(modes[r]) = a
  BY <1>1
<1>3. \A r \in Ranks : Append(policies[r], a) \in Seq({a})
  BY <1>1, AppendProperties
<1>4. policy' = [r \in Ranks |-> IF r \in rs THEN PolicyOf(modes[r]) ELSE policy[r]]
  BY DEF ChangeModes
<1>5. policies' = [r \in Ranks |-> IF r \in rs THEN Append(policies[r], PolicyOf(modes[r])) ELSE policies[r]]
  BY DEF ChangeModes
<1>6. policy' = [r \in Ranks |-> a]
  BY <1>1, <1>2, <1>4
<1> QED BY <1>1, <1>2, <1>3, <1>5, <1>6

LEMMA ProcessPolicy ==
  ASSUME NEW a, NEW G, OnePolicy(a, G), fastest' = fastest,
         Collective \/ \E r \in Ranks : Process(r)
  PROVE  OnePolicy(a, G)'
<1>1. /\ G \subseteq Modes /\ asked \in G /\ mode \in [Ranks -> G]
      /\ policy = [r \in Ranks |-> a] /\ mgrPolicy = [r \in Ranks |-> a]
      /\ policies \in [Ranks -> Seq({a})] /\ toRank0 \in [Ranks -> Seq(Adds)]
      /\ queue \in [Ranks -> Seq(Fitting(G))] /\ cast \in [Ranks -> Seq(Fitting(G))]
      /\ msg \in [Ranks -> Fitting(G)] /\ None \in Fitting(G)
  BY FittingMade DEF OnePolicy
<1>2. ASSUME UNCHANGED <<mode, policy, policies, manager, inputs>>,
             queue' \in [Ranks -> Seq(Fitting(G))], msg' \in [Ranks -> Fitting(G)]
      PROVE  OnePolicy(a, G)'
  BY <1>1, <1>2, PoliciesKept DEF manager, inputs
<1>3. ASSUME NEW r \in Ranks, Next1(r) \/ CatchUp(r)
      PROVE  OnePolicy(a, G)'
  <2>1. queue[r] # <<>> => Head(queue[r]) \in Fitting(G)
    BY <1>1, HeadTailProperties
  <2>2. PICK m \in Fitting(G) : Takes(r, m)
    BY <1>1, <1>3, <2>1 DEF Next1, CatchUp
  <2>3. UNCHANGED <<mode, policy, policies, manager, inputs>>
    BY <1>3 DEF Next1, CatchUp, renderer
  <2> QED BY <1>1, <1>2, <2>2, <2>3, TakesFitting
<1>4. ASSUME NEW r \in Ranks, HandleSetMode(r)
      PROVE  OnePolicy(a, G)'
  <2>1. /\ msg[r].type = "SetMode" /\ mode' = [mode EXCEPT ![r] = msg[r].mode]
        /\ UNCHANGED <<policy, policies>> \/ ChangeModes({r}, mode')
        /\ UNCHANGED <<msg, queue, manager, inputs>>
    BY <1>4 DEF HandleSetMode, Handles
  <2>2. msg[r].mode \in G
    BY <1>1, <2>1 DEF Fitting
  <2>3. mode' \in [Ranks -> G]
    BY <1>1, <2>1, <2>2
  <2>4. policy' = [q \in Ranks |-> a] /\ policies' \in [Ranks -> Seq({a})]
    BY <1>1, <2>1, <2>3, ChangesNoPolicy
  <2> QED BY <1>1, <2>1, <2>3, <2>4, PoliciesKept DEF manager, inputs
<1>5. ASSUME NEW r \in Ranks,
             HandleSetLimit(r) \/ HandleAddObject(r) \/ AddInputObject(r) \/ HandleEnd(r) \/ Render(r)
      PROVE  OnePolicy(a, G)'
  <2>1. UNCHANGED <<mode, policy, policies, manager, inputs, queue, msg>>
    BY <1>5 DEF HandleSetLimit, HandleAddObject, AddInputObject, HandleEnd, Render, renderer
  <2> QED BY <1>1, <1>2, <2>1
<1>6. CASE AnyMessage
  <2>1. UNCHANGED <<mode, policy, policies, manager, inputs, queue, msg>>
    BY <1>6 DEF AnyMessage, renderer
  <2> QED BY <1>1, <1>2, <2>1
<1>7. CASE EndBatch
  <2>1. /\ queue' = [r \in Ranks |-> <<>>] \/ queue' = queue
        /\ UNCHANGED <<policy, policies>> \/ \E rs : ChangeModes(rs, mode)
        /\ msg' = [r \in Ranks |-> None]
        /\ UNCHANGED <<mode, manager, inputs>>
    BY <1>7 DEF EndBatch
  <2>2. <<>> \in Seq(Fitting(G))
    BY EmptySeq
  <2>3. queue' \in [Ranks -> Seq(Fitting(G))] /\ msg' \in [Ranks -> Fitting(G)]
    BY <1>1, <2>1, <2>2
  <2>4. policy' = [q \in Ranks |-> a] /\ policies' \in [Ranks -> Seq({a})]
    BY <1>1, <2>1, ChangesNoPolicy
  <2> QED BY <1>1, <2>1, <2>3, <2>4, PoliciesKept DEF manager, inputs
<1> QED BY <1>3, <1>4, <1>5, <1>6, <1>7 DEF Process, Collective

LEMMA NextPolicy ==
  ASSUME Typed, ~PolicyChanges, NEW a, NEW G, OnePolicy(a, G), Next
  PROVE  OnePolicy(a, G)'
BY FastestKept, ManagerPolicy, ProcessPolicy DEF Next

LEMMA InitPolicy == Init => \E a, G : OnePolicy(a, G)
<1> SUFFICES ASSUME Init PROVE \E a, G : OnePolicy(a, G)
  OBVIOUS
<1>1. PICK m \in Modes :
        /\ mode = [r \in Ranks |-> m] /\ policy = [r \in Ranks |-> PolicyOf(m)]
        /\ mgrPolicy = policy /\ asked = m
  BY DEF Init
<1>2. /\ msg = [r \in Ranks |-> None]
      /\ queue = [r \in Ranks |-> <<>>] /\ policies = [r \in Ranks |-> <<>>]
      /\ toRank0 = [r \in Ranks |-> <<>>] /\ cast = [r \in Ranks |-> <<>>]
  BY DEF Init
<1>3. PICK a, G : a = PolicyOf(m) /\ G = {n \in Modes : PolicyOf(n) = a}
  OBVIOUS
<1>4. /\ G \subseteq Modes /\ asked \in G /\ mode \in [Ranks -> G]
      /\ policy = [r \in Ranks |-> a] /\ mgrPolicy = [r \in Ranks |-> a]
      /\ \A n \in Modes : n \in G <=> PolicyOf(n) = a
  BY <1>1, <1>3
<1>5. <<>> \in Seq({a}) /\ <<>> \in Seq(Adds) /\ <<>> \in Seq(Fitting(G))
  BY EmptySeq
<1>6. None \in Fitting(G)
  BY <1>4, FittingMade
<1>7. /\ policies \in [Ranks -> Seq({a})] /\ toRank0 \in [Ranks -> Seq(Adds)]
      /\ queue \in [Ranks -> Seq(Fitting(G))] /\ cast \in [Ranks -> Seq(Fitting(G))]
      /\ msg \in [Ranks -> Fitting(G)]
  BY <1>2, <1>5, <1>6
<1> QED BY <1>4, <1>7 DEF OnePolicy

-----------------------------------------------------------------------------
(* Phases *)

LEMMA ContinueEnds ==
  ASSUME NEW all, NEW sync
  PROVE  Continue(all, sync) = IF all = "None" \/ sync THEN "end" ELSE "catch up"
BY DEF Continue

LEMMA PcTyped ==
  ASSUME Typed
  PROVE  pc = [r \in Ranks |-> pc[r]]
BY TypesOfProcess

(* What a process of rank r can only do while messages are taken, and what *)
(* it can only do while they are handled.                                  *)
LEMMA PhaseOf ==
  ASSUME Phased, NEW r \in Ranks
  PROVE  /\ pc[r] \in {"next", "any", "frame"} => Taking
         /\ pc[r] \in {"handle", "catch up", "object", "end"} => Handling
BY DEF Phased, Taking, Handling, AllAt

LEMMA ManagerKeepsPlaces ==
  ASSUME \/ \E x \in Objects : AddObject(x)
         \/ SetParameter \/ \E type \in Ends : SendEnd(type)
         \/ \E r \in Ranks : Manager(r)
  PROVE  UNCHANGED <<renderer, process, history>>
<1>1. (\E x \in Objects : AddObject(x)) => UNCHANGED <<renderer, process, history>>
  BY DEF AddObject
<1>2. SetParameter => UNCHANGED <<renderer, process, history>>
  BY DEF SetParameter
<1>3. (\E type \in Ends : SendEnd(type)) => UNCHANGED <<renderer, process, history>>
  BY DEF SendEnd
<1>4. ASSUME NEW r \in Ranks, Manager(r)
      PROVE  UNCHANGED <<renderer, process, history>>
  BY <1>4 DEF Manager, Forwarded, ReceiveBroadcast, ReceivePolicy
<1> QED BY <1>1, <1>2, <1>3, <1>4

LEMMA Leaves ==
  ASSUME Typed, NEW r \in Ranks, HandleSetMode(r) \/ HandleSetLimit(r) \/ AddInputObject(r)
  PROVE  \A q \in Ranks : pc'[q] = pc[q] \/ pc'[q] \in {"end", "catch up"}
<1>1. pc = [q \in Ranks |-> pc[q]]
  BY PcTyped
<1>2. Continue(allsync[r], FALSE) \in {"end", "catch up"}
  BY DEF Continue
<1>3. \A q \in Ranks : Continue(allsync[q], NeedsSync(q, msg[q])) \in {"end", "catch up"}
  BY DEF Continue
<1>4. CASE HandleSetMode(r) \/ HandleSetLimit(r)
  <2>1. pc' = [pc EXCEPT ![r] = Continue(allsync[r], FALSE)]
    BY <1>4 DEF HandleSetMode, HandleSetLimit, Handled
  <2> QED BY <1>1, <1>2, <2>1
<1>5. CASE AddInputObject(r)
  <2>1. PICK ranks : pc' = [q \in Ranks |-> IF q \in ranks THEN Continue(allsync[q], NeedsSync(q, msg[q]))
                                                          ELSE pc[q]]
    BY <1>5 DEF AddInputObject
  <2> QED BY <1>3, <2>1
<1> QED BY <1>4, <1>5

LEMMA ProcessPhased ==
  ASSUME Typed, Phased, NEW r \in Ranks, Process(r)
  PROVE  Phased'
<1>1. pc = [q \in Ranks |-> pc[q]]
  BY PcTyped
<1>2. ASSUME Next1(r) \/ Render(r)
      PROVE  Taking'
  <2>1. pc[r] \in {"next", "frame"}
    BY <1>2 DEF Next1, Render
  <2>2. Taking
    BY <2>1, PhaseOf
  <2>3. \A q \in Ranks : pc'[q] = pc[q] \/ pc'[q] \in {"any", "next"}
    BY <1>1, <1>2 DEF Next1, Render
  <2> QED BY <2>2, <2>3 DEF Taking
<1>3. ASSUME CatchUp(r) \/ HandleAddObject(r) \/ HandleEnd(r)
      PROVE  Handling'
  <2>1. pc[r] \in {"handle", "catch up"}
    BY <1>3 DEF CatchUp, HandleAddObject, HandleEnd, Handles
  <2>2. Handling
    BY <2>1, PhaseOf
  <2>3. \A q \in Ranks : pc'[q] = pc[q] \/ pc'[q] \in {"handle", "object", "end"}
    BY <1>1, <1>3 DEF CatchUp, HandleAddObject, HandleEnd
  <2> QED BY <2>2, <2>3 DEF Handling
<1>4. ASSUME HandleSetMode(r) \/ HandleSetLimit(r) \/ AddInputObject(r)
      PROVE  Handling'
  <2>1. pc[r] \in {"handle", "object"}
    BY <1>4 DEF HandleSetMode, HandleSetLimit, AddInputObject, Handles
  <2>2. Handling
    BY <2>1, PhaseOf
  <2>3. \A q \in Ranks : pc'[q] = pc[q] \/ pc'[q] \in {"end", "catch up"}
    BY <1>4, Leaves
  <2> QED BY <2>2, <2>3 DEF Handling
<1> QED BY <1>2, <1>3, <1>4 DEF Process, Phased

LEMMA AfterAny ==
  ASSUME AnyMessage
  PROVE  \A r \in Ranks : pc'[r] \in {"handle", "catch up", "end"}
<1>1. \A r \in Ranks : pc'[r] \in {"end", "handle"} \/ pc'[r] = Continue(AllSync, FALSE)
  BY DEF AnyMessage
<1> QED BY <1>1, ContinueEnds

LEMMA AfterEnd ==
  ASSUME EndBatch
  PROVE  AllAt("done")' \/ \A r \in Ranks : pc'[r] \in {"frame", "next"}
BY DEF EndBatch, AllAt

LEMMA NextPhased ==
  ASSUME Typed, Phased, Next
  PROVE  Phased'
<1>1. ASSUME UNCHANGED <<renderer, process, history>>
      PROVE  Phased'
  BY <1>1 DEF process, Phased, Taking, Handling, AllAt
<1>2. AnyMessage => Phased'
  BY AfterAny DEF Phased, Handling
<1>3. EndBatch => Phased'
  BY AfterEnd DEF Phased, Taking
<1> QED BY <1>1, <1>2, <1>3, ManagerKeepsPlaces, ProcessPhased DEF Next, Collective

LEMMA InitPhased == Init => Phased
BY DEF Init, Phased, Taking

(* Ranks that render together are never in different batches.              *)
LEMMA NextFrames ==
  ASSUME Typed, Phased, FramesTogether, Next, Benchmark => \A m, n \in Limits : m = n
  PROVE  FramesTogether'
<1> SUFFICES ASSUME Benchmark
             PROVE  /\ AllAt("frame")' \/ \A r \in Ranks : pc'[r] # "frame"
                    /\ \A r, q \in Ranks : batches'[r] = batches'[q]
  BY DEF FramesTogether
<1>1. /\ AllAt("frame") \/ \A r \in Ranks : pc[r] # "frame"
      /\ \A r, q \in Ranks : batches[r] = batches[q]
  BY DEF FramesTogether
<1>2. pc = [q \in Ranks |-> pc[q]]
  BY PcTyped
<1>3. ASSUME batches' = batches, \A q \in Ranks : pc'[q] = pc[q] \/ pc'[q] # "frame",
             pc' = pc \/ \E r \in Ranks : pc[r] # "frame" \/ \A q \in Ranks : pc'[q] # "frame"
      PROVE  /\ AllAt("frame")' \/ \A r \in Ranks : pc'[r] # "frame"
             /\ \A r, q \in Ranks : batches'[r] = batches'[q]
  <2>1. \A r, q \in Ranks : batches'[r] = batches'[q]
    BY <1>1, <1>3
  <2>2. AllAt("frame")' \/ \A r \in Ranks : pc'[r] # "frame"
    BY <1>1, <1>3 DEF AllAt
  <2> QED BY <2>1, <2>2
<1>4. ASSUME UNCHANGED <<renderer, process, history>>
      PROVE  batches' = batches /\ pc' = pc
  BY <1>4 DEF process
<1>5. ASSUME NEW r \in Ranks, Process(r)
      PROVE  /\ batches' = batches /\ \A q \in Ranks : pc'[q] = pc[q] \/ pc'[q] # "frame"
             /\ pc[r] # "frame" \/ \A q \in Ranks : pc'[q] # "frame"
  <2>1. batches' = batches
    BY <1>5 DEF Process, Next1, CatchUp, HandleSetMode, HandleSetLimit, HandleAddObject,
                AddInputObject, HandleEnd, Render
  <2>2. ASSUME Next1(r) \/ CatchUp(r) \/ HandleAddObject(r) \/ HandleEnd(r)
        PROVE  /\ \A q \in Ranks : pc'[q] = pc[q] \/ pc'[q] # "frame"
               /\ pc[r] # "frame"
    BY <1>2, <2>2 DEF Next1, CatchUp, HandleAddObject, HandleEnd, Handles
  <2>3. ASSUME HandleSetMode(r) \/ HandleSetLimit(r) \/ AddInputObject(r)
        PROVE  /\ \A q \in Ranks : pc'[q] = pc[q] \/ pc'[q] # "frame"
               /\ pc[r] # "frame"
    <3>1. \A q \in Ranks : pc'[q] = pc[q] \/ pc'[q] \in {"end", "catch up"}
      BY <2>3, Leaves
    <3>2. pc[r] # "frame"
      BY <2>3 DEF HandleSetMode, HandleSetLimit, AddInputObject, Handles
    <3> QED BY <3>1, <3>2
  <2>4. ASSUME Render(r)
        PROVE  /\ \A q \in Ranks : pc'[q] = pc[q] \/ pc'[q] # "frame"
               /\ \A q \in Ranks : pc'[q] # "frame"
    BY <2>4 DEF Render
  <2> QED BY <1>5, <2>1, <2>2, <2>3, <2>4 DEF Process
<1>6. ASSUME AnyMessage
      PROVE  batches' = batches /\ \A q \in Ranks : pc'[q] # "frame"
  BY <1>6, AfterAny DEF AnyMessage
<1>7. ASSUME EndBatch
      PROVE  /\ AllAt("frame")' \/ \A r \in Ranks : pc'[r] # "frame"
             /\ \A r, q \in Ranks : batches'[r] = batches'[q]
  <2>1. CASE pc' = [r \in Ranks |-> "done"] /\ UNCHANGED batches
    BY <1>1, <2>1
  <2>2. ASSUME NEW rs, rs = {r \in Ranks : ~Another(r)},
               /\ pc' = [r \in Ranks |-> IF r \in rs THEN "frame" ELSE "next"]
               /\ batches' = [r \in Ranks |-> IF r \in rs THEN 0 ELSE batches[r] + 1]
        PROVE  /\ AllAt("frame")' \/ \A r \in Ranks : pc'[r] # "frame"
               /\ \A r, q \in Ranks : batches'[r] = batches'[q]
    <3>1. \A r, q \in Ranks : limit[r] = limit[q]
      BY TypesOfProcess
    <3>2. \A r, q \in Ranks : Another(r) <=> Another(q)
      BY <1>1, <3>1 DEF Another
    <3>3. \A r, q \in Ranks : r \in rs <=> q \in rs
      BY <2>2, <3>2
    <3>4. AllAt("frame")' \/ \A r \in Ranks : pc'[r] # "frame"
      BY <2>2, <3>3 DEF AllAt
    <3>5. \A r, q \in Ranks : batches'[r] = batches'[q]
      BY <1>1, <2>2, <3>3
    <3> QED BY <3>4, <3>5
  <2> QED BY <1>7, <2>1, <2>2 DEF EndBatch
<1>8. CASE \E r \in Ranks : Process(r)
  BY <1>3, <1>5, <1>8
<1>9. CASE AnyMessage
  BY <1>3, <1>6, <1>9, RanksTyped
<1>10. CASE UNCHANGED <<renderer, process, history>>
  BY <1>3, <1>4, <1>10
<1> QED BY <1>7, <1>8, <1>9, <1>10, ManagerKeepsPlaces DEF Next, Collective

LEMMA InitFrames == Init => FramesTogether
BY DEF Init, FramesTogether

-----------------------------------------------------------------------------
(* The log, and what a rank has yet to take from it *)

LEMMA LogGrows ==
  ASSUME NEW X, NEW log \in Seq(X), NEW m \in X
  PROVE  /\ Append(log, m) \in Seq(X) /\ Len(Append(log, m)) = Len(log) + 1
         /\ Len(log) \in Nat /\ 1..Len(log) \subseteq Nat
         /\ \A i \in 1..Len(log) : Append(log, m)[i] = log[i]
         /\ Append(log, m)[Len(log) + 1] = m
BY AppendProperties, LenProperties

LEMMA OneMore ==
  ASSUME NEW n \in Nat, NEW i \in Nat, NEW j \in Nat, n + i = j, NEW x, NEW y, x = i + 1, y = j + 1
  PROVE  n + x = y
OBVIOUS

LEMMA QueueGrows ==
  ASSUME NEW X, NEW log \in Seq(X), NEW m \in X, NEW n \in Nat, NEW Y, NEW q \in Seq(Y), m \in Y,
         QueueRight(log, n, q, <<>>)
  PROVE  QueueRight(Append(log, m), n, Append(q, m), <<>>)
<1>1. /\ Len(q) \in Nat /\ Len(log) \in Nat /\ n + Len(q) = Len(log)
      /\ \A i \in 1..Len(q) : q[i] = log[n + i]
  BY EmptySeq, LenProperties DEF QueueRight
<1>2. /\ Len(Append(log, m)) = Len(log) + 1
      /\ \A i \in 1..Len(log) : Append(log, m)[i] = log[i]
      /\ Append(log, m)[Len(log) + 1] = m
  BY LogGrows
<1>3. /\ Len(Append(q, m)) = Len(q) + 1
      /\ \A i \in 1..Len(q) : Append(q, m)[i] = q[i]
      /\ Append(q, m)[Len(q) + 1] = m
  BY LogGrows
<1>4. ASSUME NEW i \in 1..(Len(q) + 1)
      PROVE  Append(q, m)[i] = Append(log, m)[n + i]
  <2>1. CASE i = Len(q) + 1
    <3>1. n + i = Len(log) + 1
      BY <1>1, <2>1
    <3> QED BY <1>2, <1>3, <2>1, <3>1
  <2>2. CASE i # Len(q) + 1
    <3>1. i \in 1..Len(q) /\ n + i \in 1..Len(log)
      BY <1>1, <2>2
    <3> QED BY <1>1, <1>2, <1>3, <3>1
  <2> QED BY <2>1, <2>2
<1>5. Len(Append(q, m)) = Len(q) + 1 /\ Len(Append(log, m)) = Len(log) + 1
  BY <1>2, <1>3
<1>6. Len(<<>>) = 0
  BY EmptySeq
<1>7. \A i \in 1..Len(Append(q, m)) : Append(q, m)[i] = Append(log, m)[n + i]
  BY <1>3, <1>4
<1>8. n + Len(Append(q, m)) + Len(<<>>) = Len(Append(log, m))
  <2>1. /\ Len(q) \in Nat /\ Len(log) \in Nat /\ n + Len(q) = Len(log)
    BY <1>1
  <2>2. n + Len(Append(q, m)) = Len(Append(log, m))
    BY ONLY <2>1, <1>5, OneMore
  <2>3. n + Len(Append(q, m)) \in Nat
    BY <1>5, <2>1, <2>2
  <2> QED BY <1>6, <2>2, <2>3
<1>9. \A i \in 1..Len(<<>>) : FALSE
  BY <1>6
<1> QED BY <1>7, <1>8, <1>9 DEF QueueRight

LEMMA WayGrows ==
  ASSUME NEW X, NEW log \in Seq(X), NEW m \in X, NEW n \in Nat, NEW Y, NEW q \in Seq(Y),
         NEW d \in Seq(Y), m \in Y, QueueRight(log, n, q, d)
  PROVE  QueueRight(Append(log, m), n, q, Append(d, m))
<1>1. /\ Len(q) \in Nat /\ Len(d) \in Nat /\ Len(log) \in Nat /\ n + Len(q) + Len(d) = Len(log)
      /\ \A i \in 1..Len(q) : q[i] = log[n + i]
      /\ \A i \in 1..Len(d) : d[i] = log[n + Len(q) + i]
  BY LenProperties DEF QueueRight
<1>2. /\ Len(Append(log, m)) = Len(log) + 1
      /\ \A i \in 1..Len(log) : Append(log, m)[i] = log[i]
      /\ Append(log, m)[Len(log) + 1] = m
  BY LogGrows
<1>3. /\ Len(Append(d, m)) = Len(d) + 1
      /\ \A i \in 1..Len(d) : Append(d, m)[i] = d[i]
      /\ Append(d, m)[Len(d) + 1] = m
  BY LogGrows
<1>4. ASSUME NEW i \in 1..(Len(d) + 1)
      PROVE  Append(d, m)[i] = Append(log, m)[n + Len(q) + i]
  <2>1. CASE i = Len(d) + 1
    <3>1. n + Len(q) + i = Len(log) + 1
      BY <1>1, <2>1
    <3> QED BY <1>2, <1>3, <2>1, <3>1
  <2>2. CASE i # Len(d) + 1
    <3>1. i \in 1..Len(d) /\ n + Len(q) + i \in 1..Len(log)
      BY <1>1, <2>2
    <3> QED BY <1>1, <1>2, <1>3, <3>1
  <2> QED BY <2>1, <2>2
<1>5. \A i \in 1..Len(Append(d, m)) : Append(d, m)[i] = Append(log, m)[n + Len(q) + i]
  BY <1>3, <1>4
<1>6. n + Len(q) + Len(Append(d, m)) = Len(Append(log, m))
  <2>1. n + Len(q) \in Nat /\ Len(d) \in Nat /\ Len(log) \in Nat /\ n + Len(q) + Len(d) = Len(log)
    BY <1>1
  <2>2. Len(Append(d, m)) = Len(d) + 1 /\ Len(Append(log, m)) = Len(log) + 1
    BY <1>2, <1>3
  <2> QED BY ONLY <2>1, <2>2, OneMore
<1>7. ASSUME NEW i \in 1..Len(q)
      PROVE  q[i] = Append(log, m)[n + i]
  <2>1. n + i \in 1..Len(log)
    BY <1>1
  <2> QED BY <1>1, <1>2, <2>1
<1> QED BY <1>5, <1>6, <1>7 DEF QueueRight

LEMMA Arrives ==
  ASSUME NEW log, NEW n \in Nat, NEW Y, NEW q \in Seq(Y), NEW d \in Seq(Y), d # <<>>,
         QueueRight(log, n, q, d)
  PROVE  QueueRight(log, n, Append(q, Head(d)), Tail(d))
<1>1. /\ Len(q) \in Nat /\ Len(d) \in Nat /\ n + Len(q) + Len(d) = Len(log)
      /\ \A i \in 1..Len(q) : q[i] = log[n + i]
      /\ \A i \in 1..Len(d) : d[i] = log[n + Len(q) + i]
  BY LenProperties DEF QueueRight
<1>2. /\ Head(d) \in Y /\ Tail(d) \in Seq(Y) /\ Head(d) = d[1] /\ Len(d) # 0
      /\ Len(Tail(d)) = Len(d) - 1 /\ \A i \in 1..Len(Tail(d)) : Tail(d)[i] = d[i + 1]
  BY HeadTailProperties, EmptySeq
<1>3. /\ Len(Append(q, Head(d))) = Len(q) + 1
      /\ \A i \in 1..Len(q) : Append(q, Head(d))[i] = q[i]
      /\ Append(q, Head(d))[Len(q) + 1] = Head(d)
  BY <1>2, LogGrows
<1>4. Head(d) = log[n + Len(q) + 1]
  BY <1>1, <1>2
<1>5. ASSUME NEW i \in 1..(Len(q) + 1)
      PROVE  Append(q, Head(d))[i] = log[n + i]
  <2>1. CASE i = Len(q) + 1
    <3>1. n + i = n + Len(q) + 1
      BY <1>1, <2>1
    <3> QED BY <1>3, <1>4, <2>1, <3>1
  <2>2. CASE i # Len(q) + 1
    <3>1. i \in 1..Len(q)
      BY <1>1, <2>2
    <3> QED BY <1>1, <1>3, <3>1
  <2> QED BY <2>1, <2>2
<1>6. ASSUME NEW i \in 1..Len(Tail(d))
      PROVE  Tail(d)[i] = log[n + (Len(q) + 1) + i]
  <2>1. i + 1 \in 1..Len(d) /\ n + Len(q) + (i + 1) = n + (Len(q) + 1) + i
    BY <1>1, <1>2
  <2> QED BY <1>1, <1>2, <2>1
<1>7. n + (Len(q) + 1) + Len(Tail(d)) = Len(log)
  BY <1>1, <1>2
<1> QED BY <1>3, <1>5, <1>6, <1>7 DEF QueueRight

LEMMA IsTaken ==
  ASSUME NEW log, NEW n \in Nat, NEW Y, NEW q \in Seq(Y), NEW d \in Seq(Y), q # <<>>,
         QueueRight(log, n, q, d)
  PROVE  /\ n + 1 \in 1..Len(log) /\ Head(q) = log[n + 1]
         /\ QueueRight(log, n + 1, Tail(q), d)
<1>1. /\ Len(q) \in Nat /\ Len(d) \in Nat /\ n + Len(q) + Len(d) = Len(log)
      /\ \A i \in 1..Len(q) : q[i] = log[n + i]
      /\ \A i \in 1..Len(d) : d[i] = log[n + Len(q) + i]
  BY LenProperties DEF QueueRight
<1>2. /\ Head(q) = q[1] /\ Len(q) # 0
      /\ Len(Tail(q)) = Len(q) - 1 /\ \A i \in 1..Len(Tail(q)) : Tail(q)[i] = q[i + 1]
  BY HeadTailProperties, EmptySeq
<1>3. n + 1 \in 1..Len(log) /\ Head(q) = log[n + 1]
  BY <1>1, <1>2
<1>4. ASSUME NEW i \in 1..Len(Tail(q))
      PROVE  Tail(q)[i] = log[(n + 1) + i]
  <2>1. i + 1 \in 1..Len(q) /\ n + (i + 1) = (n + 1) + i
    BY <1>1, <1>2
  <2> QED BY <1>1, <1>2, <2>1
<1>5. ASSUME NEW i \in 1..Len(d)
      PROVE  d[i] = log[(n + 1) + Len(Tail(q)) + i]
  <2>1. n + Len(q) + i = (n + 1) + Len(Tail(q)) + i
    BY <1>1, <1>2
  <2> QED BY <1>1, <2>1
<1>6. (n + 1) + Len(Tail(q)) + Len(d) = Len(log)
  BY <1>1, <1>2
<1> QED BY <1>3, <1>4, <1>5, <1>6 DEF QueueRight

(* What has been recorded of the messages that all handle stays right.     *)
LEMMA RecordOfLonger ==
  ASSUME NEW log \in Seq(Sent), NEW m \in Sent, NEW at \in Seq(1..Len(log)), NEW n, NEW s,
         RecordRight(log, at, n, s)
  PROVE  RecordRight(Append(log, m), at, n, s)
<1>1. \A i \in 1..Len(log) : Append(log, m)[i] = log[i]
  BY LogGrows
<1>2. \A k \in 1..Len(at) : at[k] \in 1..Len(log)
  BY ElementOfSeq
<1> QED BY <1>1, <1>2 DEF RecordRight

LEMMA RecordOfMore ==
  ASSUME NEW log, NEW X, NEW at \in Seq(X), NEW x \in X, NEW n \in Nat, x \in Nat, n < x, NEW s,
         RecordRight(log, at, n, s)
  PROVE  RecordRight(log, Append(at, x), n, s)
<1>1. /\ Len(Append(at, x)) = Len(at) + 1 /\ Len(at) \in Nat
      /\ \A i \in 1..Len(at) : Append(at, x)[i] = at[i]
      /\ Append(at, x)[Len(at) + 1] = x
  BY LogGrows
<1>2. ASSUME NEW k \in 1..Len(s)
      PROVE  k \in 1..Len(Append(at, x)) /\ Append(at, x)[k] <= n /\ s[k] = log[Append(at, x)[k]]
  <2>1. k \in 1..Len(at) /\ at[k] <= n /\ s[k] = log[at[k]]
    BY <1>2 DEF RecordRight
  <2> QED BY <1>1, <2>1
<1>3. ASSUME NEW k \in 1..Len(Append(at, x)), Append(at, x)[k] <= n
      PROVE  k <= Len(s)
  <2>1. CASE k = Len(at) + 1
    BY <1>1, <1>3, <2>1
  <2>2. CASE k # Len(at) + 1
    <3>1. k \in 1..Len(at)
      BY <1>1, <2>2
    <3> QED BY <1>1, <1>3, <3>1 DEF RecordRight
  <2> QED BY <2>1, <2>2
<1> QED BY <1>2, <1>3 DEF RecordRight

LEMMA RecordOfOther ==
  ASSUME NEW log \in Seq(Sent), NEW at, Numbered(log, at), NEW n \in Nat, n + 1 \in 1..Len(log),
         NEW s, RecordRight(log, at, n, s), ~Syncs(log[n + 1])
  PROVE  RecordRight(log, at, n + 1, s)
<1>1. \A k \in 1..Len(at) : at[k] \in 1..Len(log)
  BY ElementOfSeq DEF Numbered
<1>2. \A k \in 1..Len(at) : at[k] # n + 1
  BY <1>1 DEF Numbered
<1>3. Len(log) \in Nat
  BY LenProperties
<1>4. \A k \in 1..Len(at) : at[k] <= n + 1 <=> at[k] <= n
  BY <1>1, <1>2, <1>3
<1> QED BY <1>4 DEF RecordRight

LEMMA RecordOfSync ==
  ASSUME NEW log \in Seq(Sent), NEW at, Numbered(log, at), NEW n \in Nat, n + 1 \in 1..Len(log),
         NEW Y, NEW s \in Seq(Y), log[n + 1] \in Y, RecordRight(log, at, n, s), Syncs(log[n + 1])
  PROVE  RecordRight(log, at, n + 1, Append(s, log[n + 1]))
<1>1. /\ Len(log) \in Nat /\ Len(at) \in Nat /\ Len(s) \in Nat
      /\ \A k \in 1..Len(at) : at[k] \in 1..Len(log)
      /\ \A j, k \in 1..Len(at) : j < k => at[j] < at[k]
  BY ElementOfSeq, LenProperties DEF Numbered
<1>2. /\ \A k \in 1..Len(s) : k \in 1..Len(at) /\ at[k] <= n /\ s[k] = log[at[k]]
      /\ \A k \in 1..Len(at) : at[k] <= n => k <= Len(s)
  BY DEF RecordRight
<1>3. /\ Len(Append(s, log[n + 1])) = Len(s) + 1
      /\ \A i \in 1..Len(s) : Append(s, log[n + 1])[i] = s[i]
      /\ Append(s, log[n + 1])[Len(s) + 1] = log[n + 1]
  BY LogGrows
<1>4. PICK j \in 1..Len(at) : at[j] = n + 1
  BY DEF Numbered
<1>5. j = Len(s) + 1
  <2>1. j \notin 1..Len(s)
    <3>1. ~(n + 1 <= n)
      OBVIOUS
    <3> QED BY <1>2, <1>4, <3>1
  <2>2. j > Len(s)
    BY <1>1, <2>1
  <2>3. CASE Len(s) + 1 < j
    <3>1. Len(s) + 1 \in 1..Len(at)
      BY <1>1, <2>3
    <3>2. at[Len(s) + 1] < n + 1 /\ at[Len(s) + 1] \in 1..Len(log)
      BY <1>1, <1>4, <2>3, <3>1
    <3>3. at[Len(s) + 1] <= n
      BY <1>1, <3>2
    <3>4. Len(s) + 1 <= Len(s)
      BY <1>2, <3>1, <3>3
    <3> QED BY <1>1, <3>4
  <2> QED BY <1>1, <2>2, <2>3
<1>6. ASSUME NEW k \in 1..(Len(s) + 1)
      PROVE  k \in 1..Len(at) /\ at[k] <= n + 1 /\ Append(s, log[n + 1])[k] = log[at[k]]
  <2>1. CASE k = Len(s) + 1
    <3>1. n + 1 <= n + 1
      OBVIOUS
    <3> QED BY <1>3, <1>4, <1>5, <2>1, <3>1
  <2>2. CASE k # Len(s) + 1
    <3>1. k \in 1..Len(s)
      BY <1>1, <2>2
    <3>2. k \in 1..Len(at) /\ at[k] <= n /\ s[k] = log[at[k]]
      BY <1>2, <3>1
    <3>3. at[k] <= n + 1
      BY <1>1, <3>2
    <3> QED BY <1>3, <3>1, <3>2, <3>3
  <2> QED BY <2>1, <2>2
<1>7. ASSUME NEW k \in 1..Len(at), at[k] <= n + 1
      PROVE  k <= Len(s) + 1
  <2>1. CASE j < k
    <3>1. n + 1 < at[k] /\ at[k] \in 1..Len(log)
      BY <1>1, <1>4, <2>1
    <3> QED BY <1>1, <1>7, <3>1
  <2>2. CASE ~(j < k)
    BY <1>1, <1>5, <2>2
  <2> QED BY <2>1, <2>2
<1> QED BY <1>3, <1>6, <1>7 DEF RecordRight

-----------------------------------------------------------------------------
(* A message is broadcast *)

NewModes(log, modes, m) ==
  [i \in 0..(Len(log) + 1) |-> IF i <= Len(log) THEN modes[i]
                               ELSE IF m.type = "SetMode" THEN m.mode ELSE modes[Len(log)]]
NewAt(log, at, m) == IF Syncs(m) THEN Append(at, Len(log) + 1) ELSE at

LEMMA LogTypedGrows ==
  ASSUME NEW log, NEW c, NEW p, NEW modes, LogTyped(log, c, p, modes), NEW m \in Sent
  PROVE  LogTyped(Append(log, m), c, p, NewModes(log, modes, m))
<1>1. /\ log \in Seq(Sent) /\ c \in [Ranks -> 0..Len(log)] /\ p \in [Ranks -> 0..Len(log)]
      /\ modes \in [0..Len(log) -> Modes]
      /\ \A i \in 1..Len(log) : modes[i] = IF log[i].type = "SetMode" THEN log[i].mode ELSE modes[i - 1]
  BY DEF LogTyped
<1>2. /\ Append(log, m) \in Seq(Sent) /\ Len(Append(log, m)) = Len(log) + 1
      /\ \A i \in 1..Len(log) : Append(log, m)[i] = log[i]
      /\ Append(log, m)[Len(log) + 1] = m /\ Len(log) \in Nat
  BY <1>1, LogGrows
<1>3. m.type = "SetMode" => m.mode \in Modes
  BY MessageTyped DEF Sent
<1>4. PICK L \in Nat : L = Len(log)
  BY <1>2
<1>5. PICK new : new = NewModes(log, modes, m)
  OBVIOUS
<1>6. /\ \A i \in 0..L : new[i] = modes[i] /\ modes[i] \in Modes
      /\ new[L + 1] = IF m.type = "SetMode" THEN m.mode ELSE modes[L]
      /\ new = [i \in 0..(L + 1) |-> new[i]]
  BY <1>1, <1>4, <1>5 DEF NewModes
<1>7. new[L + 1] \in Modes
  BY <1>3, <1>6
<1>8. \A i \in 0..(L + 1) : i \in 0..L \/ i = L + 1
  OBVIOUS
<1>9. new \in [0..(L + 1) -> Modes]
  BY <1>6, <1>7, <1>8
<1>10. ASSUME NEW i \in 1..(L + 1)
       PROVE  new[i] = IF Append(log, m)[i].type = "SetMode" THEN Append(log, m)[i].mode ELSE new[i - 1]
  <2>1. CASE i = L + 1
    <3>1. i - 1 = L /\ L \in 0..L
      BY <2>1
    <3> QED BY <1>2, <1>4, <1>6, <2>1, <3>1
  <2>2. CASE i # L + 1
    <3>1. i \in 1..L /\ i \in 0..L /\ i - 1 \in 0..L
      BY <2>2
    <3> QED BY <1>1, <1>2, <1>4, <1>6, <3>1
  <2> QED BY <2>1, <2>2
<1>11. 0..L \subseteq 0..(L + 1)
  OBVIOUS
<1>12. c \in [Ranks -> 0..(L + 1)] /\ p \in [Ranks -> 0..(L + 1)]
  BY <1>1, <1>4, <1>11
<1> QED BY <1>2, <1>4, <1>5, <1>9, <1>10, <1>12 DEF LogTyped

LEMMA NumberedGrows ==
  ASSUME NEW log \in Seq(Sent), NEW m \in Sent, NEW at, Numbered(log, at)
  PROVE  Numbered(Append(log, m), NewAt(log, at, m))
<1>1. /\ at \in Seq(1..Len(log)) /\ Len(at) \in Nat
      /\ \A j, k \in 1..Len(at) : j < k => at[j] < at[k]
      /\ \A i \in 1..Len(log) : Syncs(log[i]) <=> \E k \in 1..Len(at) : at[k] = i
  BY LenProperties DEF Numbered
<1>2. /\ Len(Append(log, m)) = Len(log) + 1
      /\ \A i \in 1..Len(log) : Append(log, m)[i] = log[i]
      /\ Append(log, m)[Len(log) + 1] = m /\ Len(log) \in Nat
  BY LogGrows
<1>3. PICK L \in Nat : L = Len(log)
  BY <1>2
<1>4. \A i \in 1..(L + 1) : i \in 1..L \/ i = L + 1
  OBVIOUS
<1>5. \A k \in 1..Len(at) : at[k] \in 1..L
  BY <1>1, <1>3, ElementOfSeq
<1>6. \A k \in 1..Len(at) : at[k] # L + 1 /\ at[k] < L + 1
  BY <1>5
<1>7. CASE ~Syncs(m)
  <2>1. at \in Seq(1..(L + 1))
    <3>1. 1..L \subseteq 1..(L + 1)
      OBVIOUS
    <3> QED BY <1>1, <1>3, <3>1
  <2>2. ASSUME NEW i \in 1..(L + 1)
        PROVE  Syncs(Append(log, m)[i]) <=> \E k \in 1..Len(at) : at[k] = i
    <3>1. CASE i = L + 1
      BY <1>2, <1>3, <1>6, <1>7, <3>1
    <3>2. CASE i \in 1..L
      BY <1>1, <1>2, <1>3, <3>2
    <3> QED BY <1>4, <3>1, <3>2
  <2>3. NewAt(log, at, m) = at
    BY <1>7 DEF NewAt
  <2> QED BY <1>1, <1>2, <1>3, <2>1, <2>2, <2>3 DEF Numbered
<1>8. CASE Syncs(m)
  <2>1. PICK new : new = Append(at, L + 1)
    OBVIOUS
  <2>2. at \in Seq(1..(L + 1)) /\ L + 1 \in 1..(L + 1)
    <3>1. 1..L \subseteq 1..(L + 1) /\ L + 1 \in 1..(L + 1)
      OBVIOUS
    <3> QED BY <1>1, <1>3, <3>1
  <2>3. /\ new \in Seq(1..(L + 1)) /\ Len(new) = Len(at) + 1
        /\ \A k \in 1..Len(at) : new[k] = at[k]
        /\ new[Len(at) + 1] = L + 1
    BY <2>1, <2>2, LogGrows
  <2>4. PICK n \in Nat : n = Len(at)
    BY <1>1
  <2>5. \A k \in 1..(n + 1) : k \in 1..n \/ k = n + 1
    OBVIOUS
  <2>6. ASSUME NEW j \in 1..(n + 1), NEW k \in 1..(n + 1), j < k
        PROVE  new[j] < new[k]
    <3>1. j \in 1..n
      BY <2>6
    <3>2. CASE k = n + 1
      BY <1>6, <2>3, <2>4, <3>1, <3>2
    <3>3. CASE k \in 1..n
      BY <1>1, <2>3, <2>4, <2>6, <3>1, <3>3
    <3> QED BY <2>5, <3>2, <3>3
  <2>7. ASSUME NEW i \in 1..(L + 1)
        PROVE  Syncs(Append(log, m)[i]) <=> \E k \in 1..(n + 1) : new[k] = i
    <3>1. CASE i = L + 1
      <4>1. n + 1 \in 1..(n + 1) /\ new[n + 1] = i
        BY <2>3, <2>4, <3>1
      <4> QED BY <1>2, <1>3, <1>8, <3>1, <4>1
    <3>2. CASE i \in 1..L
      <4>1. i # L + 1
        BY <3>2
      <4>2. Syncs(Append(log, m)[i]) <=> \E k \in 1..n : at[k] = i
        BY <1>1, <1>2, <1>3, <2>4, <3>2
      <4>3. \A k \in 1..n : k \in 1..(n + 1) /\ new[k] = at[k]
        BY <2>3, <2>4
      <4>4. new[n + 1] # i
        BY <2>3, <2>4, <4>1
      <4>5. (\E k \in 1..(n + 1) : new[k] = i) <=> \E k \in 1..n : at[k] = i
        BY <2>5, <4>3, <4>4
      <4> QED BY <4>2, <4>5
    <3> QED BY <1>4, <3>1, <3>2
  <2>8. NewAt(log, at, m) = new
    BY <1>3, <1>8, <2>1 DEF NewAt
  <2> QED BY <1>2, <1>3, <2>3, <2>4, <2>6, <2>7, <2>8 DEF Numbered
<1> QED BY <1>7, <1>8

LEMMA BetweenGrows ==
  ASSUME NEW log \in Seq(Sent), NEW m \in Sent, NEW i, NEW j \in Int, j <= Len(log)
  PROVE  /\ NoneBetween(log, i, j) => NoneBetween(Append(log, m), i, j)
         /\ NoEnd(log, j) => NoEnd(Append(log, m), j)
<1>1. /\ Len(Append(log, m)) = Len(log) + 1
      /\ \A k \in 1..Len(log) : Append(log, m)[k] = log[k] /\ Len(log) \in Nat
  BY LogGrows
<1>2. \A k \in 1..(Len(log) + 1) : k <= j => k \in 1..Len(log)
  BY LogGrows
<1> QED BY <1>1, <1>2 DEF NoneBetween, NoEnd

LEMMA PlacedGrows ==
  ASSUME NEW log \in Seq(Sent), NEW m \in Sent, NEW p \in [Ranks -> 0..Len(log)], Placed(log, p)
  PROVE  Placed(Append(log, m), p)
<1>1. \A r \in Ranks : p[r] \in Int /\ p[r] <= Len(log)
  BY LogGrows
<1>2. Level(log, p) => Level(Append(log, m), p)
  BY <1>1, BetweenGrows DEF Level
<1>3. ASSUME NEW s \in Nat, Meeting(log, p, s)
      PROVE  Meeting(Append(log, m), p, s)
  <2>1. s \in 1..Len(log) /\ Len(log) \in Nat
    BY <1>3, LogGrows DEF Meeting
  <2>2. s \in 1..(Len(log) + 1) /\ s - 1 \in Int /\ s - 1 <= Len(log)
    BY <2>1
  <2>3. /\ s \in 1..Len(Append(log, m)) /\ Append(log, m)[s] = log[s]
        /\ NoEnd(log, s - 1) => NoEnd(Append(log, m), s - 1)
        /\ \A i : NoneBetween(log, i, s - 1) => NoneBetween(Append(log, m), i, s - 1)
    BY <2>1, <2>2, LogGrows, BetweenGrows
  <2> QED BY <1>3, <2>3 DEF Meeting
<1> QED BY <1>2, <1>3 DEF Placed

LEMMA PlacedKept ==
  ASSUME NEW log, NEW p, Placed(log, p), UNCHANGED <<pc, msg, allsync, mode, policy>>
  PROVE  Placed(log, p)'
<1>1. /\ Taking => Taking'
      /\ Handling => Handling'
      /\ Quiet => Quiet'
  BY DEF Taking, Handling, Quiet
<1>2. Level(log, p) => Level(log, p)'
  BY DEF Level, Quits
<1>3. \A r, x : Together(r, x)' = Together(r, x)
  BY DEF Together
<1>4. ASSUME NEW s \in Nat, Meeting(log, p, s)
      PROVE  Meeting(log, p, s)'
  BY <1>3, <1>4 DEF Meeting, Quits
<1>5. CASE Taking /\ Level(log, p)
  BY <1>1, <1>2, <1>5 DEF Placed
<1>6. CASE Quiet /\ Level(log, p)
  BY <1>1, <1>2, <1>6 DEF Placed
<1>7. CASE Handling /\ \E s \in Nat : Meeting(log, p, s)
  <2>1. PICK s \in Nat : Meeting(log, p, s)
    BY <1>7
  <2>2. Handling' /\ Meeting(log, p, s)'
    BY <1>1, <1>4, <1>7, <2>1
  <2> QED BY <2>2 DEF Placed
<1> QED BY <1>5, <1>6, <1>7 DEF Placed

(* What is on its way is still right when the log gets longer by m.        *)
LEMMA QueuesGrow ==
  ASSUME Typed, NEW log \in Seq(Sent), NEW c \in [Ranks -> 0..Len(log)], Queues(log, c),
         NEW m \in Sent, Broadcast(m), pc[0] # "done"
  PROVE  Queues(Append(log, m), c)'
<1>1. /\ queue \in [Ranks -> Seq(Messages)] /\ cast \in [Ranks -> Seq(Messages)] /\ m \in Messages
  BY DEF Typed, Sent
<1>2. /\ cast' = [r \in Ranks |-> IF r # 0 THEN Append(cast[r], m) ELSE cast[r]]
      /\ queue' = [r \in Ranks |-> IF r \in {0} /\ pc[r] # "done" THEN Append(queue[r], m) ELSE queue[r]]
  BY DEF Broadcast, ToProcess
<1>3. cast'[0] = <<>> /\ cast[0] = <<>>
  BY <1>2, RanksTyped DEF Queues
<1>4. \A r \in Ranks : c[r] \in Nat
  BY LogGrows
<1>5. ASSUME NEW r \in Ranks
      PROVE  QueueRight(Append(log, m), c[r], queue'[r], cast'[r])
  <2>1. QueueRight(log, c[r], queue[r], cast[r])
    BY DEF Queues
  <2>2. CASE r = 0
    <3>1. queue'[r] = Append(queue[r], m) /\ cast'[r] = <<>> /\ cast[r] = <<>>
      BY <1>2, <1>3, <2>2
    <3> QED BY <1>1, <1>4, <2>1, <3>1, QueueGrows
  <2>3. CASE r # 0
    <3>1. queue'[r] = queue[r] /\ cast'[r] = Append(cast[r], m)
      BY <1>2, <2>3
    <3> QED BY <1>1, <1>4, <2>1, <3>1, WayGrows
  <2> QED BY <2>2, <2>3
<1> QED BY <1>3, <1>5 DEF Queues

LEMMA BroadcastLogged ==
  ASSUME Typed, NEW log, NEW c, NEW p, NEW modes, NEW at, Logged(log, c, p, modes, at),
         NEW m \in Sent, Broadcast(m), pc[0] # "done", UNCHANGED <<renderer, process, history>>
  PROVE  Logged(Append(log, m), c, p, NewModes(log, modes, m), NewAt(log, at, m))'
<1>1. /\ LogTyped(log, c, p, modes) /\ log \in Seq(Sent) /\ Len(log) \in Nat
      /\ c \in [Ranks -> 0..Len(log)] /\ p \in [Ranks -> 0..Len(log)]
  BY LogGrows DEF Logged, LogTyped
<1>2. UNCHANGED <<pc, msg, allsync, mode, policy, synced>>
  BY DEF renderer, process, history
<1>3. LogTyped(Append(log, m), c, p, NewModes(log, modes, m))
  BY <1>1, LogTypedGrows
<1>4. Queues(Append(log, m), c)'
  BY <1>1, QueuesGrow DEF Logged
<1>5. Positions(Append(log, m), c, p, NewModes(log, modes, m))'
  <2>1. \A r \in Ranks : p[r] \in 0..(Len(log) + 1) /\ p[r] <= Len(log)
    BY <1>1
  <2>2. \A r \in Ranks : NewModes(log, modes, m)[p[r]] = modes[p[r]]
    BY <2>1 DEF NewModes
  <2>3. \A r \in Ranks : c[r] = p[r] + 1 => c[r] \in 1..Len(log)
    BY <1>1
  <2>4. \A r \in Ranks : c[r] = p[r] + 1 => Append(log, m)[c[r]] = log[c[r]]
    BY <1>1, <2>3, LogGrows
  <2> QED BY <1>2, <2>2, <2>4 DEF Logged, Positions, Busy
<1>6. Numbered(Append(log, m), NewAt(log, at, m))
  BY <1>1, NumberedGrows DEF Logged
<1>7. Recorded(Append(log, m), c, NewAt(log, at, m))'
  <2>1. ASSUME NEW r \in Ranks
        PROVE  RecordRight(Append(log, m), NewAt(log, at, m), c[r], synced[r])
    <3>1. at \in Seq(1..Len(log)) /\ RecordRight(log, at, c[r], synced[r])
      BY DEF Logged, Numbered, Recorded
    <3>2. RecordRight(Append(log, m), at, c[r], synced[r])
      BY <1>1, <3>1, RecordOfLonger
    <3>3. at \in Seq(Nat) /\ Len(log) + 1 \in Nat /\ c[r] \in Nat /\ c[r] < Len(log) + 1
      <4>1. 1..Len(log) \subseteq Nat
        BY <1>1
      <4> QED BY <1>1, <3>1, <4>1
    <3>4. RecordRight(Append(log, m), Append(at, Len(log) + 1), c[r], synced[r])
      BY <3>2, <3>3, RecordOfMore
    <3> QED BY <3>2, <3>4 DEF NewAt
  <2> QED BY <1>2, <2>1 DEF Recorded
<1>8. Placed(Append(log, m), p)'
  BY <1>1, <1>2, PlacedGrows, PlacedKept DEF Logged
<1> QED BY <1>3, <1>4, <1>5, <1>6, <1>7, <1>8 DEF Logged

LEMMA SentMade ==
  /\ \A x \in Objects : Add(x) \in Sent
  /\ \A m \in Adds : m \in Sent
  /\ \A m \in Modes, d \in BOOLEAN : SetMode(m, d) \in Sent
  /\ \A n \in Limits : SetLimit(n) \in Sent
  /\ \A type \in Ends : End(type) \in Sent
<1>1. Ends \subseteq {"Kill", "Quit"}
  BY RenderSyncAssumption
<1>2. /\ \A x \in Objects : Add(x).type # "None"
      /\ \A m \in Modes, d \in BOOLEAN : SetMode(m, d).type # "None"
      /\ \A n \in Limits : SetLimit(n).type # "None"
      /\ \A type \in Ends : End(type).type # "None"
  BY <1>1 DEF Add, SetMode, SetLimit, End
<1>3. None.type = "None"
  BY DEF None
<1> QED BY <1>2, <1>3, MessageMade DEF Sent, Adds

LEMMA LoggedKept ==
  ASSUME NEW log, NEW c, NEW p, NEW modes, NEW at, Logged(log, c, p, modes, at),
         UNCHANGED <<renderer, process, history>>, Queues(log, c)'
  PROVE  Logged(log, c, p, modes, at)'
<1>1. UNCHANGED <<pc, msg, allsync, mode, policy, synced>>
  BY DEF renderer, process, history
<1>2. Positions(log, c, p, modes)' /\ Recorded(log, c, at)'
  BY <1>1 DEF Logged, Positions, Busy, Recorded
<1>3. Placed(log, p)'
  BY <1>1, PlacedKept DEF Logged
<1> QED BY <1>2, <1>3 DEF Logged

LEMMA Received ==
  ASSUME Typed, NEW log \in Seq(Sent), NEW c \in [Ranks -> 0..Len(log)], Queues(log, c),
         NEW r \in Ranks, pc[r] # "done", ReceiveBroadcast(r)
  PROVE  Queues(log, c)'
<1>1. queue \in [Ranks -> Seq(Messages)] /\ cast \in [Ranks -> Seq(Messages)]
  BY DEF Typed
<1>2. /\ cast[r] # <<>> /\ cast' = [cast EXCEPT ![r] = Tail(cast[r])]
      /\ queue' = [q \in Ranks |-> IF q \in {r} /\ pc[q] # "done" THEN Append(queue[q], Head(cast[r])) ELSE queue[q]]
  BY DEF ReceiveBroadcast, ToProcess
<1>3. cast[0] = <<>> /\ r # 0
  BY <1>2 DEF Queues
<1>4. cast'[0] = <<>>
  BY <1>1, <1>2, <1>3, RanksTyped
<1>5. ASSUME NEW q \in Ranks
      PROVE  QueueRight(log, c[q], queue'[q], cast'[q])
  <2>1. QueueRight(log, c[q], queue[q], cast[q]) /\ c[q] \in Nat
    BY LogGrows DEF Queues
  <2>2. CASE q = r
    <3>1. queue'[q] = Append(queue[q], Head(cast[q])) /\ cast'[q] = Tail(cast[q])
      BY <1>1, <1>2, <2>2
    <3> QED BY <1>1, <1>2, <2>1, <2>2, <3>1, Arrives
  <2>3. CASE q # r
    <3>1. queue'[q] = queue[q] /\ cast'[q] = cast[q]
      BY <1>1, <1>2, <2>3
    <3> QED BY <2>1, <3>1
  <2> QED BY <2>2, <2>3
<1> QED BY <1>4, <1>5 DEF Queues

LEMMA ManagerLogged ==
  ASSUME Typed, NEW a, NEW G, OnePolicy(a, G), a # "Local", \A r \in Ranks : pc[r] # "done",
         NEW log, NEW c, NEW p, NEW modes, NEW at, Logged(log, c, p, modes, at),
         \/ \E x \in Objects : AddObject(x)
         \/ SetParameter \/ \E type \in Ends : SendEnd(type)
         \/ \E r \in Ranks : Manager(r)
  PROVE  \E l, d, o, n, t : Logged(l, d, o, n, t)'
<1>1. UNCHANGED <<renderer, process, history>>
  BY ManagerKeepsPlaces
<1>2. ASSUME NEW m \in Sent, Broadcast(m)
      PROVE  \E l, d, o, n, t : Logged(l, d, o, n, t)'
  <2>1. pc[0] # "done"
    BY RanksTyped
  <2> QED BY <1>1, <1>2, <2>1, BroadcastLogged
<1>3. ASSUME Queues(log, c)'
      PROVE  \E l, d, o, n, t : Logged(l, d, o, n, t)'
  BY <1>1, <1>3, LoggedKept
<1>4. ASSUME UNCHANGED <<queue, cast>>
      PROVE  Queues(log, c)'
  BY <1>4 DEF Logged, Queues
<1>5. ASSUME NEW x \in Objects, AddObject(x)
      PROVE  \E l, d, o, n, t : Logged(l, d, o, n, t)'
  <2>1. SourceOf[x] \in Ranks
    BY RenderSyncAssumption
  <2>2. mgrPolicy[SourceOf[x]] # "Local"
    BY <2>1 DEF OnePolicy
  <2>3. BroadcastAndHandle(SourceOf[x], Add(x))
    BY <1>5, <2>2 DEF AddObject
  <2>4. Broadcast(Add(x)) \/ UNCHANGED <<queue, cast>>
    BY <2>3 DEF BroadcastAndHandle
  <2> QED BY <1>2, <1>3, <1>4, <2>4, SentMade
<1>6. CASE SetParameter
  <2>1. \E m \in Sent : Broadcast(m)
    BY <1>6, SentMade DEF SetParameter
  <2> QED BY <1>2, <2>1
<1>7. ASSUME NEW type \in Ends, SendEnd(type)
      PROVE  \E l, d, o, n, t : Logged(l, d, o, n, t)'
  BY <1>2, <1>7, SentMade DEF SendEnd
<1>8. ASSUME NEW r \in Ranks, Manager(r)
      PROVE  \E l, d, o, n, t : Logged(l, d, o, n, t)'
  <2>1. CASE Forwarded(r)
    <3>1. toRank0[r] # <<>> /\ Broadcast(Head(toRank0[r]))
      BY <2>1 DEF Forwarded
    <3>2. toRank0[r] \in Seq(Adds)
      BY DEF OnePolicy
    <3>3. Head(toRank0[r]) \in Adds
      BY <3>1, <3>2, HeadTailProperties
    <3> QED BY <1>2, <3>1, <3>3, SentMade
  <2>2. CASE ReceiveBroadcast(r)
    <3>1. /\ log \in Seq(Sent) /\ c \in [Ranks -> 0..Len(log)] /\ Queues(log, c)
      BY DEF Logged, LogTyped
    <3>2. Queues(log, c)'
      BY <2>2, <3>1, Received
    <3> QED BY <1>3, <3>2
  <2>3. CASE ReceivePolicy(r)
    BY <1>3, <1>4, <2>3 DEF ReceivePolicy, manager
  <2> QED BY <1>8, <2>1, <2>2, <2>3 DEF Manager
<1> QED BY <1>5, <1>6, <1>7, <1>8

-----------------------------------------------------------------------------
(* Ranks take and handle messages *)

(* All but where the ranks are in the log.                                 *)
Books(log, c, p, modes, at) ==
  /\ LogTyped(log, c, p, modes) /\ Queues(log, c) /\ Positions(log, c, p, modes)
  /\ Numbered(log, at) /\ Recorded(log, c, at)

LEMMA BooksAndPlaces ==
  ASSUME NEW log, NEW c, NEW p, NEW modes, NEW at
  PROVE  /\ Logged(log, c, p, modes, at) <=> Books(log, c, p, modes, at) /\ Placed(log, p)
         /\ Logged(log, c, p, modes, at)' <=> Books(log, c, p, modes, at)' /\ Placed(log, p)'
BY DEF Logged, Books

LEMMA BooksTyped ==
  ASSUME NEW log, NEW c, NEW p, NEW modes, NEW at, Books(log, c, p, modes, at)
  PROVE  /\ log \in Seq(Sent) /\ Len(log) \in Nat
         /\ c \in [Ranks -> 0..Len(log)] /\ p \in [Ranks -> 0..Len(log)]
         /\ \A r \in Ranks : c[r] \in Nat /\ p[r] \in Nat
BY LogGrows DEF Books, LogTyped

LEMMA SyncsAre ==
  ASSUME NEW r \in Ranks, policy[r] # "Local", NEW m
  PROVE  NeedsSync(r, m) <=> Syncs(m)
BY DEF NeedsSync, Syncs

LEMMA NoSync == ~Syncs(None) /\ \A type \in {"Kill"} : ~Syncs(End(type))
BY DEF Syncs, None, End

(* Rank r takes the next message.                                          *)
LEMMA TakesNext ==
  ASSUME Typed, NEW log, NEW c, NEW p, NEW modes, NEW at, Books(log, c, p, modes, at),
         NEW r \in Ranks, policy[r] # "Local", ~Busy(r), queue[r] # <<>>,
         Takes(r, Head(queue[r])), NEW where \in {"any", "handle"},
         pc' = [pc EXCEPT ![r] = where], UNCHANGED <<cast, mode>>,
         NEW d, d = [c EXCEPT ![r] = c[r] + 1]
  PROVE  Books(log, d, p, modes, at)'
<1>1. /\ log \in Seq(Sent) /\ Len(log) \in Nat
      /\ c \in [Ranks -> 0..Len(log)] /\ p \in [Ranks -> 0..Len(log)]
      /\ \A q \in Ranks : c[q] \in Nat /\ p[q] \in Nat
  BY BooksTyped
<1>2. /\ queue \in [Ranks -> Seq(Messages)] /\ cast \in [Ranks -> Seq(Messages)]
      /\ synced \in [Ranks -> Seq(Messages)]
      /\ msg \in [Ranks -> Messages] /\ pc \in [Ranks -> Phases]
  BY TypesOfProcess DEF Typed
<1>3. /\ c[r] + 1 \in 1..Len(log) /\ Head(queue[r]) = log[c[r] + 1]
      /\ QueueRight(log, c[r] + 1, Tail(queue[r]), cast[r])
  BY <1>1, <1>2, IsTaken DEF Books, Queues
<1>4. log[c[r] + 1] \in Messages /\ log[c[r] + 1] # None
  BY <1>1, <1>3, ElementOfSeq DEF Sent
<1>5. /\ msg' = [msg EXCEPT ![r] = log[c[r] + 1]]
      /\ queue' = [queue EXCEPT ![r] = Tail(queue[r])]
      /\ synced' = IF Syncs(log[c[r] + 1]) THEN [synced EXCEPT ![r] = Append(synced[r], log[c[r] + 1])]
                   ELSE synced
  BY <1>3, SyncsAre DEF Takes
<1>6. \A q \in Ranks : d[q] = IF q = r THEN c[r] + 1 ELSE c[q]
  BY <1>1
<1>7. d \in [Ranks -> 0..Len(log)]
  <2>1. c[r] + 1 \in 0..Len(log)
    BY <1>1, <1>3
  <2> QED BY <1>1, <2>1
<1>8. LogTyped(log, d, p, modes)
  BY <1>7 DEF Books, LogTyped
<1>9. Queues(log, d)'
  <2>1. \A q \in Ranks : QueueRight(log, d[q], queue'[q], cast[q])
    <3>1. ASSUME NEW q \in Ranks, q # r
          PROVE  QueueRight(log, d[q], queue'[q], cast[q])
      <4>1. d[q] = c[q] /\ queue'[q] = queue[q]
        BY <1>2, <1>5, <1>6, <3>1
      <4> QED BY <4>1 DEF Books, Queues
    <3>2. d[r] = c[r] + 1 /\ queue'[r] = Tail(queue[r])
      BY <1>2, <1>5, <1>6
    <3> QED BY <1>3, <3>1, <3>2
  <2> QED BY <2>1 DEF Books, Queues
<1>10. Positions(log, d, p, modes)'
  <2>1. ASSUME NEW q \in Ranks, q # r
        PROVE  /\ IF Busy(q)' THEN d[q] = p[q] + 1 /\ msg'[q] = log[d[q]] ELSE d[q] = p[q]
               /\ mode'[q] = modes[p[q]]
    <3>1. d[q] = c[q] /\ msg'[q] = msg[q] /\ pc'[q] = pc[q] /\ mode' = mode
      BY <1>2, <1>5, <1>6, <2>1
    <3> QED BY <3>1 DEF Books, Positions, Busy
  <2>2. /\ pc'[r] = where /\ msg'[r] = log[d[r]] /\ msg'[r] # None /\ d[r] = c[r] + 1
    BY <1>2, <1>4, <1>5, <1>6
  <2>3. c[r] = p[r] /\ mode'[r] = modes[p[r]]
    BY DEF Books, Positions
  <2>4. Busy(r)'
    BY <2>2 DEF Busy
  <2> QED BY <2>1, <2>2, <2>3, <2>4 DEF Positions
<1>11. Recorded(log, d, at)'
  <2>1. ASSUME NEW q \in Ranks
        PROVE  RecordRight(log, at, d[q], synced'[q])
    <3>1. RecordRight(log, at, c[q], synced[q]) /\ Numbered(log, at)
      BY DEF Books, Recorded
    <3>2. CASE q # r
      <4>1. d[q] = c[q] /\ synced'[q] = synced[q]
        BY <1>2, <1>5, <1>6, <3>2
      <4> QED BY <3>1, <4>1
    <3>3. CASE q = r /\ Syncs(log[c[r] + 1])
      <4>1. d[q] = c[r] + 1 /\ synced'[q] = Append(synced[r], log[c[r] + 1])
        BY <1>2, <1>5, <1>6, <3>3
      <4> QED BY <1>1, <1>2, <1>3, <1>4, <3>1, <3>3, <4>1, RecordOfSync
    <3>4. CASE q = r /\ ~Syncs(log[c[r] + 1])
      <4>1. d[q] = c[r] + 1 /\ synced'[q] = synced[q]
        BY <1>2, <1>5, <1>6, <3>4
      <4> QED BY <1>1, <1>3, <3>1, <3>4, <4>1, RecordOfOther
    <3> QED BY <3>2, <3>3, <3>4
  <2> QED BY <2>1 DEF Recorded
<1> QED BY <1>8, <1>9, <1>10, <1>11 DEF Books

(* No message is there for rank r.                                         *)
LEMMA TakesNone ==
  ASSUME Typed, NEW log, NEW c, NEW p, NEW modes, NEW at, Books(log, c, p, modes, at),
         NEW r \in Ranks, ~Busy(r), queue[r] = <<>>, Takes(r, None), policy[r] # "Local",
         pc' = [pc EXCEPT ![r] = "any"], UNCHANGED <<cast, mode>>
  PROVE  Books(log, c, p, modes, at)'
<1>1. /\ queue \in [Ranks -> Seq(Messages)] /\ msg \in [Ranks -> Messages] /\ pc \in [Ranks -> Phases]
  BY TypesOfProcess
<1>2. msg' = [msg EXCEPT ![r] = None] /\ queue' = queue /\ synced' = synced
  BY <1>1, SyncsAre, NoSync DEF Takes
<1>3. Queues(log, c)' /\ Recorded(log, c, at)'
  BY <1>2 DEF Books, Queues, Recorded
<1>4. Positions(log, c, p, modes)'
  <2>1. ASSUME NEW q \in Ranks, q # r
        PROVE  /\ IF Busy(q)' THEN c[q] = p[q] + 1 /\ msg'[q] = log[c[q]] ELSE c[q] = p[q]
               /\ mode'[q] = modes[p[q]]
    <3>1. msg'[q] = msg[q] /\ pc'[q] = pc[q] /\ mode' = mode
      BY <1>1, <1>2, <2>1
    <3> QED BY <3>1 DEF Books, Positions, Busy
  <2>2. ~Busy(r)' /\ mode' = mode
    BY <1>1, <1>2 DEF Busy
  <2> QED BY <2>1, <2>2 DEF Books, Positions
<1> QED BY <1>3, <1>4 DEF Books

(* The ranks S are through with their messages.                            *)
LEMMA Advances ==
  ASSUME Typed, NEW log, NEW c, NEW p, NEW modes, NEW at, Books(log, c, p, modes, at),
         NEW S, UNCHANGED <<queue, cast, synced, msg>>,
         \A r \in Ranks :
           IF r \in S
           THEN /\ Busy(r) /\ pc'[r] \notin {"any", "handle", "object"}
                /\ mode'[r] = IF msg[r].type = "SetMode" THEN msg[r].mode ELSE mode[r]
           ELSE Busy(r)' = Busy(r) /\ mode'[r] = mode[r],
         NEW o, o = [r \in Ranks |-> IF r \in S THEN p[r] + 1 ELSE p[r]]
  PROVE  Books(log, c, o, modes, at)'
<1>1. /\ log \in Seq(Sent) /\ Len(log) \in Nat
      /\ c \in [Ranks -> 0..Len(log)] /\ p \in [Ranks -> 0..Len(log)]
      /\ \A q \in Ranks : c[q] \in Nat /\ p[q] \in Nat
  BY BooksTyped
<1>2. \A r \in Ranks : r \in S => c[r] = p[r] + 1 /\ msg[r] = log[c[r]] /\ o[r] = c[r]
  BY DEF Books, Positions
<1>3. \A r \in Ranks : r \notin S => o[r] = p[r]
  OBVIOUS
<1>4. o \in [Ranks -> 0..Len(log)]
  <2>1. \A r \in Ranks : o[r] \in 0..Len(log)
    BY <1>1, <1>2, <1>3
  <2>2. o = [r \in Ranks |-> o[r]]
    OBVIOUS
  <2> QED BY <2>1, <2>2
<1>5. LogTyped(log, c, o, modes)
  BY <1>4 DEF Books, LogTyped
<1>6. Queues(log, c)' /\ Recorded(log, c, at)'
  BY DEF Books, Queues, Recorded
<1>7. Positions(log, c, o, modes)'
  <2>1. ASSUME NEW r \in Ranks, r \in S
        PROVE  ~Busy(r)' /\ c[r] = o[r] /\ mode'[r] = modes[o[r]]
    <3>1. ~Busy(r)'
      BY <2>1 DEF Busy
    <3>2. c[r] \in 1..Len(log) /\ c[r] - 1 = p[r]
      BY <1>1, <1>2, <2>1
    <3>3. modes[c[r]] = IF log[c[r]].type = "SetMode" THEN log[c[r]].mode ELSE modes[c[r] - 1]
      BY <3>2 DEF Books, LogTyped
    <3>4. mode[r] = modes[p[r]]
      BY DEF Books, Positions
    <3> QED BY <1>2, <2>1, <3>1, <3>2, <3>3, <3>4
  <2>2. ASSUME NEW r \in Ranks, r \notin S
        PROVE  /\ IF Busy(r)' THEN c[r] = o[r] + 1 /\ msg'[r] = log[c[r]] ELSE c[r] = o[r]
               /\ mode'[r] = modes[o[r]]
    <3>1. Busy(r)' = Busy(r) /\ mode'[r] = mode[r] /\ msg' = msg
      BY <2>2
    <3> QED BY <1>3, <2>2, <3>1 DEF Books, Positions
  <2> QED BY <2>1, <2>2 DEF Positions
<1> QED BY <1>5, <1>6, <1>7 DEF Books

(* Nobody advances.                                                        *)
LEMMA NoneAdvances ==
  ASSUME NEW log, NEW c, NEW p, NEW modes, NEW at, Books(log, c, p, modes, at),
         UNCHANGED <<queue, cast, synced, mode>>,
         \A r \in Ranks : Busy(r)' = Busy(r) /\ (Busy(r) => msg'[r] = msg[r])
  PROVE  Books(log, c, p, modes, at)'
BY DEF Books, Queues, Recorded, Positions

LEMMA BetweenMoves ==
  ASSUME NEW log, Len(log) \in Nat, NEW i \in Nat, NEW j \in Nat
  PROVE  /\ NoneBetween(log, i, j) => NoneBetween(log, i + 1, j)
         /\ NoneBetween(log, i, j) /\ ~Syncs(log[j + 1]) => NoneBetween(log, i, j + 1)
         /\ NoEnd(log, j) /\ log[j + 1].type \notin Endings => NoEnd(log, j + 1)
<1>1. \A k \in 1..Len(log) : k <= j + 1 => k <= j \/ k = j + 1
  OBVIOUS
<1>2. \A k \in 1..Len(log) : i + 1 < k => i < k
  OBVIOUS
<1> QED BY <1>1, <1>2 DEF NoneBetween, NoEnd

(* The next message of a rank that has not reached the one at s.           *)
LEMMA NextIsBefore ==
  ASSUME NEW log, Len(log) \in Nat, NEW i \in Nat, i + 1 <= Len(log),
         NEW s \in 1..Len(log), i < s, NoneBetween(log, i, s - 1), Syncs(log[s])
  PROVE  /\ Syncs(log[i + 1]) => i + 1 = s
         /\ ~Syncs(log[i + 1]) => i + 1 < s
<1>1. i + 1 \in 1..Len(log) /\ i < i + 1 /\ (i + 1 <= s - 1 \/ i + 1 = s)
  OBVIOUS
<1>2. i + 1 <= s - 1 => i + 1 < s
  OBVIOUS
<1> QED BY <1>1, <1>2 DEF NoneBetween

LEMMA PlacedWhere ==
  ASSUME NEW log, NEW p, Placed(log, p), NEW r \in Ranks
  PROVE  /\ pc[r] \in {"next", "any", "frame"} => Taking /\ Level(log, p)
         /\ pc[r] \in {"catch up", "object"} => Handling /\ \E s \in Nat : Meeting(log, p, s)
         /\ pc[r] \in {"handle", "end"} => \/ Quiet /\ Level(log, p)
                                           \/ Handling /\ \E s \in Nat : Meeting(log, p, s)
BY DEF Placed, Taking, Handling, Quiet

LEMMA StillTaking ==
  ASSUME NEW log, NEW p, Taking, Level(log, p), Taking'
  PROVE  Placed(log, p)'
<1>1. \A r \in Ranks : pc[r] # "end"
  BY DEF Taking
<1>2. Level(log, p)'
  BY <1>1 DEF Level
<1> QED BY <1>2 DEF Placed

LEMMA StillMeeting ==
  ASSUME NEW log \in Seq(Sent), NEW p, NEW s \in Nat, Meeting(log, p, s), NEW o,
         UNCHANGED allsync, Handling',
         \A r \in Ranks : pc[r] = "end" =>
           /\ pc'[r] = "end" /\ msg'[r] = msg[r] /\ o[r] = p[r]
           /\ Together(r, log[s].object)' = Together(r, log[s].object),
         \A r \in Ranks : pc[r] # "end" =>
           \/ pc'[r] # "end" /\ o[r] < s /\ NoneBetween(log, o[r], s - 1)
           \/ /\ pc'[r] = "end" /\ o[r] = s /\ (log[s].type = "Quit" => Quits(r)')
              /\ log[s].type = "AddObject" => \A q \in Together(r, log[s].object)' : pc'[q] = "end"
  PROVE  Placed(log, o)'
<1>1. ASSUME log[s].type = "AddObject", NEW r \in Ranks, NEW q \in Together(r, log[s].object)
      PROVE  q \in Ranks
  <2>1. log[s] \in Messages
    BY ElementOfSeq DEF Meeting, Sent
  <2>2. SourceOf[log[s].object] \in Ranks
    BY <1>1, <2>1, MessageTyped, RenderSyncAssumption
  <2> QED BY <1>1, <2>2, RanksTyped DEF Together
<1>2. /\ s \in 1..Len(log) /\ Syncs(log[s]) /\ NoEnd(log, s - 1)
      /\ \A r \in Ranks : allsync'[r] # "None"
  BY DEF Meeting
<1>3. ASSUME NEW r \in Ranks, pc'[r] # "end"
      PROVE  o[r] < s /\ NoneBetween(log, o[r], s - 1)
  BY <1>3
<1>4. ASSUME NEW r \in Ranks, pc'[r] = "end", pc[r] = "end"
      PROVE  /\ o[r] = s /\ (log[s].type = "Quit" => Quits(r)')
             /\ log[s].type = "AddObject" => \A q \in Together(r, log[s].object)' : pc'[q] = "end"
  <2>1. /\ o[r] = p[r] /\ msg'[r] = msg[r]
        /\ Together(r, log[s].object)' = Together(r, log[s].object)
    BY <1>4
  <2>2. /\ p[r] = s /\ (log[s].type = "Quit" => Quits(r))
        /\ log[s].type = "AddObject" => \A q \in Together(r, log[s].object) : pc[q] = "end"
    BY <1>4 DEF Meeting
  <2>3. Quits(r) => Quits(r)'
    BY <2>1 DEF Quits
  <2>4. ASSUME log[s].type = "AddObject", NEW q \in Together(r, log[s].object)'
        PROVE  pc'[q] = "end"
    <3>1. q \in Together(r, log[s].object)
      BY <2>1, <2>4
    <3>2. q \in Ranks
      BY <1>1, <2>4, <3>1
    <3>3. pc[q] = "end"
      BY <2>2, <2>4, <3>1
    <3> QED BY <3>2, <3>3
  <2> QED BY <2>1, <2>2, <2>3, <2>4
<1>5. ASSUME NEW r \in Ranks, pc'[r] = "end", pc[r] # "end"
      PROVE  /\ o[r] = s /\ (log[s].type = "Quit" => Quits(r)')
             /\ log[s].type = "AddObject" => \A q \in Together(r, log[s].object)' : pc'[q] = "end"
  BY <1>5
<1>6. Meeting(log, o, s)'
  BY <1>2, <1>3, <1>4, <1>5 DEF Meeting
<1> QED BY <1>6 DEF Placed

LEMMA TogetherKept ==
  ASSUME NEW r \in Ranks, mode'[r] = mode[r], policy'[r] = policy[r], NEW x
  PROVE  Together(r, x)' = Together(r, x)
BY DEF Together

(* Rank r has handled a message that is not to be handled by all.          *)
LEMMA HandledOther ==
  ASSUME Typed, NEW log, NEW c, NEW p, NEW modes, NEW at, Books(log, c, p, modes, at), Placed(log, p),
         NEW r \in Ranks, pc[r] = "handle", msg[r] # None, ~Syncs(msg[r]),
         NEW where, pc' = [pc EXCEPT ![r] = where],
         where = IF msg[r].type \in Endings THEN "end" ELSE Continue(allsync[r], FALSE),
         UNCHANGED <<msg, allsync>>,
         \A q \in Ranks \ {r} : mode'[q] = mode[q] /\ policy'[q] = policy[q],
         NEW o, o = [q \in Ranks |-> IF q \in {r} THEN p[q] + 1 ELSE p[q]]
  PROVE  Placed(log, o)'
<1>1. /\ log \in Seq(Sent) /\ Len(log) \in Nat
      /\ \A q \in Ranks : c[q] \in Nat /\ p[q] \in Nat /\ c[q] <= Len(log)
  <2>1. /\ log \in Seq(Sent) /\ Len(log) \in Nat /\ c \in [Ranks -> 0..Len(log)]
        /\ \A q \in Ranks : c[q] \in Nat /\ p[q] \in Nat
    BY BooksTyped
  <2>2. \A q \in Ranks : c[q] <= Len(log)
    BY <2>1
  <2> QED BY <2>1, <2>2
<1>2. Busy(r)
  BY DEF Busy
<1>3. c[r] = p[r] + 1 /\ msg[r] = log[p[r] + 1] /\ o[r] = p[r] + 1 /\ p[r] + 1 <= Len(log)
  BY <1>1, <1>2 DEF Books, Positions
<1>4. /\ pc'[r] = where /\ \A q \in Ranks \ {r} : pc'[q] = pc[q] /\ o[q] = p[q]
      /\ \A q \in Ranks : msg'[q] = msg[q] /\ allsync'[q] = allsync[q]
  BY TypesOfProcess
<1>5. CASE Quiet /\ Level(log, p)
  <2>1. where = "end"
    BY <1>5 DEF Quiet, Continue
  <2>2. Quiet'
    BY <1>4, <1>5, <2>1 DEF Quiet
  <2>3. ASSUME NEW i \in Ranks, NEW j \in Ranks
        PROVE  NoneBetween(log, o[i], o[j])
    <3>1. NoneBetween(log, p[i], p[j]) /\ NoneBetween(log, p[i], p[r])
      BY <1>5 DEF Level
    <3>2. NoneBetween(log, p[i], p[r] + 1)
      BY <1>1, <1>3, <3>1, BetweenMoves
    <3>3. NoneBetween(log, p[i], o[j])
      BY <1>3, <1>4, <3>1, <3>2
    <3>4. o[j] \in Nat
      BY <1>1, <1>3, <1>4
    <3>5. NoneBetween(log, p[i] + 1, o[j])
      BY <1>1, <3>3, <3>4, BetweenMoves
    <3> QED BY <1>3, <1>4, <3>3, <3>5
  <2>4. ASSUME NEW q \in Ranks
        PROVE  (pc'[q] = "end" /\ Quits(q)') \/ NoEnd(log, o[q])
    <3>1. CASE q # r
      BY <1>4, <1>5, <3>1 DEF Level, Quits
    <3>2. CASE q = r /\ msg[r].type \in Endings
      BY <1>4, <2>1, <3>2 DEF Quits, Endings
    <3>3. CASE q = r /\ msg[r].type \notin Endings
      <4>1. NoEnd(log, p[r])
        BY <1>5 DEF Level
      <4>2. NoEnd(log, p[r] + 1)
        BY <1>1, <1>3, <3>3, <4>1, BetweenMoves
      <4> QED BY <1>3, <3>3, <4>2
    <3> QED BY <3>1, <3>2, <3>3
  <2>5. Level(log, o)'
    BY <2>3, <2>4 DEF Level
  <2> QED BY <2>2, <2>5 DEF Placed
<1>6. CASE Handling /\ \E s \in Nat : Meeting(log, p, s)
  <2>1. PICK s \in Nat : Meeting(log, p, s)
    BY <1>6
  <2>2. /\ s \in 1..Len(log) /\ Syncs(log[s]) /\ NoEnd(log, s - 1)
        /\ p[r] < s /\ NoneBetween(log, p[r], s - 1) /\ allsync[r] # "None"
    BY <2>1 DEF Meeting
  <2>6. s - 1 \in Nat /\ s <= Len(log)
    BY <1>1, <2>2
  <2>3. p[r] + 1 < s
    BY <1>1, <1>3, <2>2, NextIsBefore
  <2>4. msg[r].type \notin Endings
    <3>1. p[r] + 1 \in 1..Len(log) /\ p[r] + 1 <= s - 1
      <4>1. p[r] \in Nat /\ Len(log) \in Nat
        BY <1>1
      <4> QED BY <4>1, <2>3, <2>6
    <3> QED BY <1>3, <2>2, <3>1 DEF NoEnd
  <2>5. where # "end" /\ where \in {"end", "catch up"}
    BY <2>2, <2>4 DEF Continue
  <2>7. NoneBetween(log, o[r], s - 1)
    BY <1>1, <1>3, <2>2, <2>6, BetweenMoves
  <2>8. Handling'
    BY <1>4, <1>6, <2>5 DEF Handling
  <2>9. \A q \in Ranks : pc[q] = "end" =>
           /\ pc'[q] = "end" /\ msg'[q] = msg[q] /\ o[q] = p[q]
           /\ Together(q, log[s].object)' = Together(q, log[s].object)
    <3>1. \A q \in Ranks : pc[q] = "end" => q \in Ranks \ {r}
      OBVIOUS
    <3> QED BY <1>4, <3>1, TogetherKept
  <2>10. \A q \in Ranks : pc[q] # "end" => pc'[q] # "end" /\ o[q] < s /\ NoneBetween(log, o[q], s - 1)
    <3>1. pc'[r] # "end" /\ o[r] < s
      BY <1>3, <1>4, <2>3, <2>5
    <3>2. \A q \in Ranks \ {r} : pc[q] # "end" => p[q] < s /\ NoneBetween(log, p[q], s - 1)
      BY <2>1 DEF Meeting
    <3> QED BY <1>4, <2>7, <3>1, <3>2
  <2>11. allsync' = allsync /\ log \in Seq(Sent)
    BY <1>1
  <2>12. \A q \in Ranks : pc[q] # "end" =>
           \/ pc'[q] # "end" /\ o[q] < s /\ NoneBetween(log, o[q], s - 1)
           \/ /\ pc'[q] = "end" /\ o[q] = s /\ (log[s].type = "Quit" => Quits(q)')
              /\ log[s].type = "AddObject" => \A i \in Together(q, log[s].object)' : pc'[i] = "end"
    BY <2>10
  <2> QED BY ONLY <2>1, <2>8, <2>9, <2>11, <2>12, StillMeeting
<1> QED BY <1>5, <1>6, PlacedWhere

(* What happens to a message that all handle: they meet at it.             *)
LEMMA MeetsAt ==
  ASSUME Typed, NEW log, NEW c, NEW p, NEW modes, NEW at, Books(log, c, p, modes, at), Placed(log, p),
         NEW r \in Ranks, pc[r] \in {"handle", "object"}, Syncs(msg[r])
  PROVE  /\ Handling /\ \E s \in Nat : Meeting(log, p, s)
         /\ \A s \in Nat : Meeting(log, p, s) => p[r] + 1 = s /\ msg[r] = log[s]
<1>1. /\ log \in Seq(Sent) /\ Len(log) \in Nat
      /\ \A q \in Ranks : c[q] \in Nat /\ p[q] \in Nat /\ c[q] <= Len(log)
  <2>1. /\ log \in Seq(Sent) /\ Len(log) \in Nat /\ c \in [Ranks -> 0..Len(log)]
        /\ \A q \in Ranks : c[q] \in Nat /\ p[q] \in Nat
    BY BooksTyped
  <2>2. \A q \in Ranks : c[q] <= Len(log)
    BY <2>1
  <2> QED BY <2>1, <2>2
<1>2. Busy(r)
  BY NoSync DEF Busy
<1>3. c[r] = p[r] + 1 /\ msg[r] = log[p[r] + 1] /\ p[r] + 1 <= Len(log)
  BY <1>1, <1>2 DEF Books, Positions
<1>4. ~Quiet
  BY DEF Quiet
<1>5. ASSUME NEW s \in Nat, Meeting(log, p, s)
      PROVE  p[r] + 1 = s /\ msg[r] = log[s]
  <2>1. s \in 1..Len(log) /\ Syncs(log[s]) /\ p[r] < s /\ NoneBetween(log, p[r], s - 1)
    BY <1>5 DEF Meeting
  <2>2. p[r] + 1 = s
    BY <1>1, <1>3, <2>1, NextIsBefore
  <2> QED BY <1>3, <2>2
<1> QED BY <1>4, <1>5, PlacedWhere

LEMMA Next1Logged ==
  ASSUME Typed, NEW log, NEW c, NEW p, NEW modes, NEW at, Books(log, c, p, modes, at), Placed(log, p),
         NEW r \in Ranks, policy[r] # "Local", Next1(r)
  PROVE  \E d : Logged(log, d, p, modes, at)'
<1>1. /\ pc[r] = "next" /\ pc' = [pc EXCEPT ![r] = "any"]
      /\ Takes(r, IF queue[r] = <<>> THEN None ELSE Head(queue[r]))
      /\ UNCHANGED <<cast, mode>>
  BY DEF Next1, manager, renderer
<1>2. ~Busy(r)
  BY <1>1 DEF Busy
<1>3. Taking /\ Level(log, p)
  BY <1>1, PlacedWhere
<1>4. Taking'
  BY <1>1, <1>3, TypesOfProcess DEF Taking
<1>5. Placed(log, p)'
  BY <1>3, <1>4, StillTaking
<1>6. CASE queue[r] = <<>>
  <2>1. Takes(r, None)
    BY <1>1, <1>6
  <2>2. Books(log, c, p, modes, at)'
    BY <1>1, <1>2, <1>6, <2>1, TakesNone
  <2> QED BY <1>5, <2>2, BooksAndPlaces
<1>7. CASE queue[r] # <<>>
  <2>1. Takes(r, Head(queue[r]))
    BY <1>1, <1>7
  <2>2. PICK d : d = [c EXCEPT ![r] = c[r] + 1]
    OBVIOUS
  <2>3. Books(log, d, p, modes, at)'
    BY <1>1, <1>2, <1>7, <2>1, <2>2, TakesNext
  <2> QED BY <1>5, <2>3, BooksAndPlaces
<1> QED BY <1>6, <1>7

LEMMA CatchUpLogged ==
  ASSUME Typed, NEW log, NEW c, NEW p, NEW modes, NEW at, Books(log, c, p, modes, at), Placed(log, p),
         NEW r \in Ranks, policy[r] # "Local", CatchUp(r)
  PROVE  \E d : Logged(log, d, p, modes, at)'
<1>1. /\ pc[r] \in {"catch up", "object"} /\ pc[r] # "object" /\ pc[r] # "end" /\ ~Busy(r)
      /\ pc' = [pc EXCEPT ![r] = "handle"]
      /\ queue[r] # <<>> /\ Takes(r, Head(queue[r])) /\ UNCHANGED <<cast, mode, policy, allsync>>
  BY DEF CatchUp, manager, renderer, Busy
<1>2. PICK s \in Nat : Handling /\ Meeting(log, p, s)
  BY <1>1, PlacedWhere
<1>3. Handling'
  BY <1>1, <1>2, TypesOfProcess DEF Handling
<1>4. PICK d : d = [c EXCEPT ![r] = c[r] + 1]
  OBVIOUS
<1>5. Books(log, d, p, modes, at)'
  BY <1>1, <1>4, TakesNext
<1>6. \A q \in Ranks : pc[q] = "end" =>
         /\ pc'[q] = "end" /\ msg'[q] = msg[q] /\ p[q] = p[q]
         /\ Together(q, log[s].object)' = Together(q, log[s].object)
  <2>1. msg' = [msg EXCEPT ![r] = Head(queue[r])]
    BY <1>1 DEF Takes
  <2>2. \A q \in Ranks : pc[q] = "end" => pc'[q] = "end" /\ msg'[q] = msg[q]
    BY <1>1, <2>1, TypesOfProcess
  <2> QED BY <1>1, <2>2, TogetherKept
<1>7. \A q \in Ranks : pc[q] # "end" =>
         \/ pc'[q] # "end" /\ p[q] < s /\ NoneBetween(log, p[q], s - 1)
         \/ /\ pc'[q] = "end" /\ p[q] = s /\ (log[s].type = "Quit" => Quits(q)')
            /\ log[s].type = "AddObject" => \A i \in Together(q, log[s].object)' : pc'[i] = "end"
  <2>1. \A q \in Ranks : pc[q] # "end" => pc'[q] # "end"
    BY <1>1, TypesOfProcess
  <2> QED BY <1>2, <2>1 DEF Meeting
<1>8. allsync' = allsync /\ log \in Seq(Sent)
  BY <1>1, BooksTyped
<1>9. Placed(log, p)'
  BY ONLY <1>2, <1>3, <1>6, <1>7, <1>8, StillMeeting
<1> QED BY <1>5, <1>9, BooksAndPlaces

LEMMA OtherLogged ==
  ASSUME Typed, NEW log, NEW c, NEW p, NEW modes, NEW at, Books(log, c, p, modes, at), Placed(log, p),
         NEW r \in Ranks, pc[r] = "handle", msg[r] # None, ~Syncs(msg[r]),
         pc' = [pc EXCEPT ![r] = IF msg[r].type \in Endings THEN "end" ELSE Continue(allsync[r], FALSE)],
         UNCHANGED <<queue, cast, synced, msg, allsync, policy>>,
         \A q \in Ranks \ {r} : mode'[q] = mode[q],
         mode'[r] = IF msg[r].type = "SetMode" THEN msg[r].mode ELSE mode[r]
  PROVE  \E o : Logged(log, c, o, modes, at)'
<1>1. PICK where : where = IF msg[r].type \in Endings THEN "end" ELSE Continue(allsync[r], FALSE)
  OBVIOUS
<1>2. PICK o : o = [q \in Ranks |-> IF q \in {r} THEN p[q] + 1 ELSE p[q]]
  OBVIOUS
<1>3. where \notin {"any", "handle", "object"}
  BY <1>1, ContinueTyped
<1>4. \A q \in Ranks :
        IF q \in {r}
        THEN /\ Busy(q) /\ pc'[q] \notin {"any", "handle", "object"}
             /\ mode'[q] = IF msg[q].type = "SetMode" THEN msg[q].mode ELSE mode[q]
        ELSE Busy(q)' = Busy(q) /\ mode'[q] = mode[q]
  <2>1. pc'[r] = where /\ \A q \in Ranks \ {r} : pc'[q] = pc[q]
    BY <1>1, TypesOfProcess
  <2> QED BY <1>3, <2>1 DEF Busy
<1>5. Books(log, c, o, modes, at)'
  BY <1>2, <1>4, Advances
<1>6. Placed(log, o)'
  <2>1. pc' = [pc EXCEPT ![r] = where]
    BY <1>1
  <2>2. \A q \in Ranks \ {r} : mode'[q] = mode[q] /\ policy'[q] = policy[q]
    OBVIOUS
  <2>3. /\ Typed /\ Books(log, c, p, modes, at) /\ Placed(log, p) /\ r \in Ranks
        /\ pc[r] = "handle" /\ msg[r] # None /\ ~Syncs(msg[r])
        /\ UNCHANGED <<msg, allsync>>
    OBVIOUS
  <2> QED BY ONLY <1>1, <1>2, <2>1, <2>2, <2>3, HandledOther
<1> QED BY <1>5, <1>6, BooksAndPlaces

LEMMA SetLogged ==
  ASSUME Typed, NEW log, NEW c, NEW p, NEW modes, NEW at, Books(log, c, p, modes, at), Placed(log, p),
         NEW r \in Ranks, policy' = policy, HandleSetMode(r) \/ HandleSetLimit(r)
  PROVE  \E o : Logged(log, c, o, modes, at)'
<1>1. /\ pc[r] = "handle" /\ msg[r].type \in {"SetMode", "SetLimit"}
      /\ pc' = [pc EXCEPT ![r] = Continue(allsync[r], FALSE)]
      /\ UNCHANGED <<queue, cast, synced, msg, allsync>>
      /\ \/ msg[r].type = "SetMode" /\ mode' = [mode EXCEPT ![r] = msg[r].mode]
         \/ msg[r].type = "SetLimit" /\ mode' = mode
  BY DEF HandleSetMode, HandleSetLimit, Handles, Handled, manager, history
<1>2. msg[r] # None /\ ~Syncs(msg[r]) /\ msg[r].type \notin Endings
  BY <1>1 DEF None, Syncs, Endings
<1>3. mode \in [Ranks -> Modes]
  BY TypesOfProcess
<1>4. /\ \A q \in Ranks \ {r} : mode'[q] = mode[q]
      /\ mode'[r] = IF msg[r].type = "SetMode" THEN msg[r].mode ELSE mode[r]
  BY <1>1, <1>3
<1>5. pc' = [pc EXCEPT ![r] = IF msg[r].type \in Endings THEN "end" ELSE Continue(allsync[r], FALSE)]
  BY <1>1, <1>2
<1> QED BY <1>1, <1>2, <1>4, <1>5, OtherLogged

LEMMA EndLogged ==
  ASSUME Typed, NEW log, NEW c, NEW p, NEW modes, NEW at, Books(log, c, p, modes, at), Placed(log, p),
         NEW r \in Ranks, HandleEnd(r)
  PROVE  \E o : Logged(log, c, o, modes, at)'
<1>1. /\ pc[r] = "handle" /\ msg[r].type \in Endings /\ pc' = [pc EXCEPT ![r] = "end"]
      /\ UNCHANGED <<queue, cast, synced, msg, allsync, mode, policy>>
  BY RenderSyncAssumption DEF HandleEnd, Handles, manager, history, renderer, Endings
<1>2. msg[r] # None /\ msg[r].type # "SetMode" /\ Quits(r)
  BY <1>1 DEF None, Endings, Quits
<1>3. CASE ~Syncs(msg[r])
  BY <1>1, <1>2, <1>3, OtherLogged
<1>4. CASE Syncs(msg[r])
  <2>1. PICK o : o = [q \in Ranks |-> IF q \in {r} THEN p[q] + 1 ELSE p[q]]
    OBVIOUS
  <2>2. \A q \in Ranks :
          IF q \in {r}
          THEN /\ Busy(q) /\ pc'[q] \notin {"any", "handle", "object"}
               /\ mode'[q] = IF msg[q].type = "SetMode" THEN msg[q].mode ELSE mode[q]
          ELSE Busy(q)' = Busy(q) /\ mode'[q] = mode[q]
    <3>1. pc'[r] = "end" /\ \A q \in Ranks \ {r} : pc'[q] = pc[q]
      BY <1>1, TypesOfProcess
    <3> QED BY <1>1, <1>2, <3>1 DEF Busy
  <2>3. Books(log, c, o, modes, at)'
    BY <1>1, <2>1, <2>2, Advances
  <2>4. PICK s \in Nat : Handling /\ Meeting(log, p, s) /\ p[r] + 1 = s /\ msg[r] = log[s]
    BY <1>1, <1>4, MeetsAt
  <2>5. Handling'
    BY <1>1, <2>4, TypesOfProcess DEF Handling
  <2>6. \A q \in Ranks \ {r} : pc'[q] = pc[q] /\ o[q] = p[q]
    BY <1>1, <2>1, TypesOfProcess
  <2>7. pc'[r] = "end" /\ o[r] = s /\ log[s].type # "AddObject" /\ Quits(r)'
    <3>1. pc'[r] = "end" /\ o[r] = s
      BY <1>1, <2>1, <2>4, TypesOfProcess
    <3> QED BY <1>1, <1>2, <2>4, <3>1 DEF Endings, Quits
  <2>8. \A q \in Ranks : pc[q] = "end" =>
           /\ pc'[q] = "end" /\ msg'[q] = msg[q] /\ o[q] = p[q]
           /\ Together(q, log[s].object)' = Together(q, log[s].object)
    <3>1. \A q \in Ranks : pc[q] = "end" => q \in Ranks \ {r}
      BY <1>1
    <3> QED BY <1>1, <2>6, <3>1, TogetherKept
  <2>9. \A q \in Ranks : pc[q] # "end" =>
           \/ pc'[q] # "end" /\ o[q] < s /\ NoneBetween(log, o[q], s - 1)
           \/ /\ pc'[q] = "end" /\ o[q] = s /\ (log[s].type = "Quit" => Quits(q)')
              /\ log[s].type = "AddObject" => \A i \in Together(q, log[s].object)' : pc'[i] = "end"
    <3>1. \A q \in Ranks \ {r} : pc[q] # "end" => p[q] < s /\ NoneBetween(log, p[q], s - 1)
      BY <2>4 DEF Meeting
    <3> QED BY <2>6, <2>7, <3>1
  <2>10. allsync' = allsync /\ log \in Seq(Sent)
    BY <1>1, BooksTyped
  <2>11. Placed(log, o)'
    BY ONLY <2>4, <2>5, <2>8, <2>9, <2>10, StillMeeting
  <2> QED BY <2>3, <2>11, BooksAndPlaces
<1> QED BY <1>3, <1>4

LEMMA ObjectLogged ==
  ASSUME Typed, NEW log, NEW c, NEW p, NEW modes, NEW at, Books(log, c, p, modes, at), Placed(log, p),
         NEW r \in Ranks, HandleAddObject(r)
  PROVE  Logged(log, c, p, modes, at)'
<1>1. /\ pc[r] = "handle" /\ msg[r].type = "AddObject" /\ pc' = [pc EXCEPT ![r] = "object"]
      /\ UNCHANGED <<queue, cast, synced, msg, allsync, mode, policy>>
  BY DEF HandleAddObject, Handles, manager, history, renderer
<1>2. \A q \in Ranks : Busy(q)' = Busy(q)
  BY <1>1, TypesOfProcess DEF Busy
<1>3. Books(log, c, p, modes, at)'
  BY <1>1, <1>2, NoneAdvances
<1>4. Syncs(msg[r])
  BY <1>1 DEF Syncs
<1>5. PICK s \in Nat : Handling /\ Meeting(log, p, s)
  BY <1>1, <1>4, MeetsAt
<1>6. Handling'
  BY <1>1, <1>5, TypesOfProcess DEF Handling
<1>7. \A q \in Ranks : pc[q] = "end" =>
         /\ pc'[q] = "end" /\ msg'[q] = msg[q] /\ p[q] = p[q]
         /\ Together(q, log[s].object)' = Together(q, log[s].object)
  <2>1. \A q \in Ranks : pc[q] = "end" => pc'[q] = "end" /\ msg'[q] = msg[q]
    BY <1>1, TypesOfProcess
  <2> QED BY <1>1, <2>1, TogetherKept
<1>8. \A q \in Ranks : pc[q] # "end" =>
         \/ pc'[q] # "end" /\ p[q] < s /\ NoneBetween(log, p[q], s - 1)
         \/ /\ pc'[q] = "end" /\ p[q] = s /\ (log[s].type = "Quit" => Quits(q)')
            /\ log[s].type = "AddObject" => \A i \in Together(q, log[s].object)' : pc'[i] = "end"
  <2>1. \A q \in Ranks : pc[q] # "end" => pc'[q] # "end"
    BY <1>1, TypesOfProcess
  <2> QED BY <1>5, <2>1 DEF Meeting
<1>9. allsync' = allsync /\ log \in Seq(Sent)
  BY <1>1, BooksTyped
<1>10. Placed(log, p)'
  BY ONLY <1>5, <1>6, <1>7, <1>8, <1>9, StillMeeting
<1> QED BY <1>3, <1>10, BooksAndPlaces

LEMMA TogetherSame ==
  ASSUME NEW r, NEW x, NEW q \in Together(r, x), mode[q] = mode[r], policy[q] = policy[r]
  PROVE  Together(q, x) = Together(r, x)
BY DEF Together

LEMMA TogetherIn ==
  ASSUME NEW r \in Ranks, NEW x \in Objects
  PROVE  Together(r, x) \subseteq Ranks /\ r \in Together(r, x)
<1>1. SourceOf[x] \in Ranks
  BY RenderSyncAssumption
<1> QED BY <1>1, RanksTyped DEF Together

LEMMA InputLogged ==
  ASSUME Typed, NEW log, NEW c, NEW p, NEW modes, NEW at, Books(log, c, p, modes, at), Placed(log, p),
         \A q \in Ranks : policy[q] # "Local", NEW r \in Ranks, AddInputObject(r)
  PROVE  \E o : Logged(log, c, o, modes, at)'
<1>1. PICK S : S = Together(r, msg[r].object)
  OBVIOUS
<1>2. /\ pc[r] = "object"
      /\ \A q \in S : pc[q] = "object" /\ Operation(q) = Operation(r)
      /\ pc' = [q \in Ranks |-> IF q \in S THEN Continue(allsync[q], NeedsSync(q, msg[q])) ELSE pc[q]]
      /\ UNCHANGED <<queue, cast, synced, msg, allsync, mode, policy>>
  BY <1>1 DEF AddInputObject, renderer, manager
<1>3. msg[r].type = "AddObject" /\ msg[r].object \in Objects
  BY <1>2, TypesOfProcess, MessageTyped
<1>4. S \subseteq Ranks /\ r \in S
  BY <1>1, <1>3, TogetherIn
<1>5. \A q \in S : msg[q].type = "AddObject" /\ Syncs(msg[q]) /\ NeedsSync(q, msg[q]) /\ Busy(q)
  <2>1. \A q \in S : msg[q].type = "AddObject"
    BY <1>2, <1>4, TypesOfProcess
  <2>2. \A q \in S : Syncs(msg[q])
    BY <2>1 DEF Syncs
  <2>3. \A q \in S : msg[q] # None
    BY <2>1 DEF None
  <2> QED BY <1>2, <1>4, <2>1, <2>2, <2>3, SyncsAre DEF Busy
<1>6. \A q \in Ranks : pc'[q] = IF q \in S THEN "end" ELSE pc[q]
  BY <1>2, <1>5 DEF Continue
<1>7. PICK o : o = [q \in Ranks |-> IF q \in S THEN p[q] + 1 ELSE p[q]]
  OBVIOUS
<1>8. \A q \in Ranks :
        IF q \in S
        THEN /\ Busy(q) /\ pc'[q] \notin {"any", "handle", "object"}
             /\ mode'[q] = IF msg[q].type = "SetMode" THEN msg[q].mode ELSE mode[q]
        ELSE Busy(q)' = Busy(q) /\ mode'[q] = mode[q]
  BY <1>2, <1>5, <1>6 DEF Busy
<1>9. Books(log, c, o, modes, at)'
  BY <1>2, <1>7, <1>8, Advances
<1>10. PICK s \in Nat : Handling /\ Meeting(log, p, s)
  BY <1>2, <1>4, <1>5, MeetsAt
<1>11. \A q \in S : p[q] + 1 = s /\ msg[q] = log[s] /\ o[q] = s
  BY <1>2, <1>4, <1>5, <1>7, <1>10, MeetsAt
<1>12. Handling'
  BY <1>6, <1>10 DEF Handling
<1>13. \A q \in Ranks \ S : pc'[q] = pc[q] /\ o[q] = p[q]
  BY <1>6, <1>7
<1>14. log[s].type = "AddObject" /\ log[s].object = msg[r].object
  BY <1>3, <1>4, <1>11
<1>15. \A q \in Ranks : Together(q, log[s].object)' = Together(q, log[s].object)
  BY <1>2, TogetherKept
<1>16. \A q \in S : Together(q, log[s].object) = S
  <2>1. \A q \in S : mode[q] = mode[r] /\ policy[q] = policy[r]
    BY <1>2, <1>4 DEF Operation
  <2> QED BY <1>1, <1>14, <2>1, TogetherSame
<1>17. \A q \in Ranks : pc[q] = "end" =>
         /\ pc'[q] = "end" /\ msg'[q] = msg[q] /\ o[q] = p[q]
         /\ Together(q, log[s].object)' = Together(q, log[s].object)
  <2>1. \A q \in Ranks : pc[q] = "end" => q \in Ranks \ S
    BY <1>2
  <2> QED BY <1>2, <1>13, <1>15, <2>1
<1>18. \A q \in Ranks : pc[q] # "end" =>
         \/ pc'[q] # "end" /\ o[q] < s /\ NoneBetween(log, o[q], s - 1)
         \/ /\ pc'[q] = "end" /\ o[q] = s /\ (log[s].type = "Quit" => Quits(q)')
            /\ log[s].type = "AddObject" => \A i \in Together(q, log[s].object)' : pc'[i] = "end"
  <2>1. \A q \in Ranks \ S : pc[q] # "end" => p[q] < s /\ NoneBetween(log, p[q], s - 1)
    BY <1>10 DEF Meeting
  <2>2. \A q \in S : Together(q, log[s].object)' = S
    BY <1>4, <1>15, <1>16
  <2>3. \A q \in S : pc'[q] = "end"
    BY <1>4, <1>6
  <2>4. log[s].type # "Quit"
    BY <1>14
  <2> QED BY <1>11, <1>13, <2>1, <2>2, <2>3, <2>4
<1>19. allsync' = allsync /\ log \in Seq(Sent)
  BY <1>2, BooksTyped
<1>20. Placed(log, o)'
  BY ONLY <1>10, <1>12, <1>17, <1>18, <1>19, StillMeeting
<1> QED BY <1>9, <1>20, BooksAndPlaces

LEMMA RenderLogged ==
  ASSUME Typed, NEW log, NEW c, NEW p, NEW modes, NEW at, Books(log, c, p, modes, at), Placed(log, p),
         NEW r \in Ranks, Render(r)
  PROVE  Logged(log, c, p, modes, at)'
<1>1. /\ pc[r] = "frame" /\ (Benchmark => AllAt("frame"))
      /\ pc' = [q \in Ranks |-> IF q = r \/ Benchmark THEN "next" ELSE pc[q]]
      /\ UNCHANGED <<queue, cast, synced, msg, mode>>
  BY DEF Render, renderer, manager, history
<1>2. \A q \in Ranks : pc'[q] = pc[q] \/ (pc[q] = "frame" /\ pc'[q] = "next")
  BY <1>1 DEF AllAt
<1>3. \A q \in Ranks : Busy(q)' = Busy(q)
  BY <1>1, <1>2 DEF Busy
<1>4. Books(log, c, p, modes, at)'
  BY <1>1, <1>3, NoneAdvances
<1>5. Taking /\ Level(log, p)
  BY <1>1, PlacedWhere
<1>6. Taking'
  BY <1>2, <1>5 DEF Taking
<1> QED BY <1>4, <1>5, <1>6, StillTaking, BooksAndPlaces

LEMMA ProcessLogged ==
  ASSUME Typed, NEW log, NEW c, NEW p, NEW modes, NEW at, Logged(log, c, p, modes, at),
         \A q \in Ranks : policy[q] # "Local", policy' = policy, NEW r \in Ranks, Process(r)
  PROVE  \E l, d, o, n, t : Logged(l, d, o, n, t)'
<1>1. Books(log, c, p, modes, at) /\ Placed(log, p)
  BY BooksAndPlaces
<1>2. CASE Next1(r)
  BY <1>1, <1>2, Next1Logged
<1>3. CASE CatchUp(r)
  BY <1>1, <1>3, CatchUpLogged
<1>4. CASE HandleSetMode(r) \/ HandleSetLimit(r)
  BY <1>1, <1>4, SetLogged
<1>5. CASE HandleAddObject(r)
  BY <1>1, <1>5, ObjectLogged
<1>6. CASE AddInputObject(r)
  BY <1>1, <1>6, InputLogged
<1>7. CASE HandleEnd(r)
  BY <1>1, <1>7, EndLogged
<1>8. CASE Render(r)
  BY <1>1, <1>8, RenderLogged
<1> QED BY <1>2, <1>3, <1>4, <1>5, <1>6, <1>7, <1>8 DEF Process

LEMMA AllSyncIs ==
  ASSUME \A q \in Ranks : policy[q] # "Local"
  PROVE  AllSync = "None" <=> \A q \in Ranks : ~Syncs(msg[q])
<1>1. \A q \in Ranks : SyncType(q) = IF Syncs(msg[q]) THEN msg[q].type ELSE "None"
  BY SyncsAre DEF SyncType
<1>2. \A q \in Ranks : Syncs(msg[q]) <=> SyncType(q) \in {"AddObject", "Quit"}
  BY <1>1 DEF Syncs
<1>3. PICK types : types = {SyncType(r) : r \in Ranks}
  OBVIOUS
<1>4. ("AddObject" \in types \/ "Quit" \in types) <=> \E q \in Ranks : Syncs(msg[q])
  BY <1>2, <1>3
<1>5. AllSync = "None" <=> ~("AddObject" \in types \/ "Quit" \in types)
  BY <1>3 DEF AllSync
<1> QED BY <1>4, <1>5

LEMMA AnyLogged ==
  ASSUME Typed, NEW log, NEW c, NEW p, NEW modes, NEW at, Logged(log, c, p, modes, at),
         \A q \in Ranks : policy[q] # "Local", AnyMessage
  PROVE  Logged(log, c, p, modes, at)'
<1>1. /\ \A r \in Ranks : pc[r] = "any"
      /\ allsync' = [r \in Ranks |-> AllSync]
      /\ pc' = [r \in Ranks |-> IF \A q \in Ranks : msg[q] = None THEN "end"
                                ELSE IF msg[r] = None THEN Continue(AllSync, FALSE) ELSE "handle"]
      /\ UNCHANGED <<queue, cast, synced, msg, mode>>
  BY DEF AnyMessage, AllAt, renderer, manager, history
<1>2. Books(log, c, p, modes, at) /\ Placed(log, p)
  BY BooksAndPlaces
<1>3. Taking /\ Level(log, p)
  BY <1>1, <1>2, PlacedWhere, RanksTyped
<1>4. \A r \in Ranks : NoEnd(log, p[r])
  BY <1>1, <1>3 DEF Level
<1>5. \A r \in Ranks : pc'[r] = IF \A q \in Ranks : msg[q] = None THEN "end"
                                ELSE IF msg[r] = None THEN Continue(AllSync, FALSE) ELSE "handle"
  BY <1>1
<1>6. \A r \in Ranks : Busy(r)' = Busy(r)
  <2>1. Continue(AllSync, FALSE) \notin {"any", "handle", "object"}
    BY ContinueTyped
  <2> QED BY <1>1, <1>5, <2>1 DEF Busy
<1>7. Books(log, c, p, modes, at)'
  BY <1>1, <1>2, <1>6, NoneAdvances
<1>8. CASE AllSync = "None"
  <2>1. \A r \in Ranks : ~Syncs(msg[r])
    BY <1>8, AllSyncIs
  <2>2. \A r \in Ranks : pc'[r] \in {"handle", "end"} /\ allsync'[r] = "None"
    BY <1>1, <1>5, <1>8 DEF Continue
  <2>3. Quiet'
    BY <1>1, <2>1, <2>2 DEF Quiet
  <2>4. Level(log, p)'
    BY <1>3, <1>4 DEF Level
  <2>5. Placed(log, p)'
    BY <2>3, <2>4 DEF Placed
  <2> QED BY <1>7, <2>5, BooksAndPlaces
<1>9. CASE AllSync # "None"
  <2>1. PICK q \in Ranks : Syncs(msg[q])
    BY <1>9, AllSyncIs
  <2>2. msg[q] # None
    BY <2>1, NoSync
  <2>3. Busy(q)
    BY <1>1, <2>2 DEF Busy
  <2>4. \A r \in Ranks : pc'[r] # "end" /\ pc'[r] \in {"handle", "catch up"}
    BY <1>5, <1>9, <2>2 DEF Continue
  <2>5. c[q] = p[q] + 1 /\ Syncs(log[p[q] + 1])
    BY <1>2, <2>1, <2>3 DEF Books, Positions
  <2>6. Len(log) \in Nat /\ \A r \in Ranks : p[r] \in Nat /\ p[r] <= Len(log) /\ c[r] <= Len(log)
    <3>1. /\ Len(log) \in Nat /\ c \in [Ranks -> 0..Len(log)] /\ p \in [Ranks -> 0..Len(log)]
      BY <1>2, BooksTyped
    <3> QED BY <3>1
  <2>7. PICK s \in Nat : s = p[q] + 1
    BY <2>6
  <2>8. s \in 1..Len(log) /\ s - 1 = p[q]
    BY <2>5, <2>6, <2>7
  <2>9. ASSUME NEW r \in Ranks
        PROVE  p[r] < s /\ NoneBetween(log, p[r], s - 1)
    <3>1. NoneBetween(log, p[q], p[r]) /\ NoneBetween(log, p[r], p[q])
      BY <1>3 DEF Level
    <3>2. ~(p[q] < s /\ s <= p[r])
      BY <2>5, <2>7, <2>8, <3>1 DEF NoneBetween
    <3>3. p[r] < s
      <4>1. p[r] \in Nat /\ p[q] \in Nat
        BY <2>6
      <4> QED BY <2>7, <3>2, <4>1
    <3> QED BY <2>8, <3>1, <3>3
  <2>10. \A r \in Ranks : allsync'[r] # "None"
    BY <1>1, <1>9
  <2>11. NoEnd(log, s - 1)
    BY <1>4, <2>8
  <2>12. Meeting(log, p, s)'
    BY <2>4, <2>5, <2>7, <2>8, <2>9, <2>10, <2>11 DEF Meeting
  <2>13. Handling'
    BY <2>4 DEF Handling
  <2>14. Placed(log, p)'
    BY <2>12, <2>13 DEF Placed
  <2> QED BY <1>7, <2>14, BooksAndPlaces
<1> QED BY <1>8, <1>9

(* After a batch in which nobody quits, all have handled the same messages *)
(* to be handled by all.                                                   *)
LEMMA EndsLevel ==
  ASSUME Typed, NEW log, NEW p \in [Ranks -> Nat], Placed(log, p), Len(log) \in Nat,
         \A r \in Ranks : pc[r] = "end" /\ ~Quits(r)
  PROVE  /\ \A r, q \in Ranks : NoneBetween(log, p[r], p[q])
         /\ \A r \in Ranks : NoEnd(log, p[r])
<1>1. CASE Level(log, p)
  BY <1>1 DEF Level
<1>2. ASSUME NEW s \in Nat, Meeting(log, p, s)
      PROVE  /\ \A r, q \in Ranks : NoneBetween(log, p[r], p[q])
             /\ \A r \in Ranks : NoEnd(log, p[r])
  <2>1. \A r \in Ranks : p[r] = s
    BY <1>2 DEF Meeting
  <2>2. s \in 1..Len(log) /\ Syncs(log[s]) /\ NoEnd(log, s - 1) /\ log[s].type # "Quit"
    BY <1>2, RanksTyped DEF Meeting
  <2>3. log[s].type \notin Endings
    BY <2>2 DEF Syncs, Endings
  <2>4. \A k \in 1..Len(log) : ~(s < k /\ k <= s)
    OBVIOUS
  <2>5. NoneBetween(log, s, s)
    BY <2>4 DEF NoneBetween
  <2>6. s - 1 \in Nat /\ (s - 1) + 1 = s
    BY <2>2
  <2>7. NoEnd(log, s)
    BY <2>2, <2>3, <2>6, BetweenMoves
  <2> QED BY <2>1, <2>5, <2>7
<1> QED BY <1>1, <1>2 DEF Placed

LEMMA BatchLogged ==
  ASSUME Typed, NEW log, NEW c, NEW p, NEW modes, NEW at, Logged(log, c, p, modes, at), EndBatch
  PROVE  AllAt("done")' \/ Logged(log, c, p, modes, at)'
<1>1. /\ \A r \in Ranks : pc[r] = "end"
      /\ UNCHANGED <<cast, synced, mode>>
  BY DEF EndBatch, AllAt, manager, history
<1>2. Books(log, c, p, modes, at) /\ Placed(log, p)
  BY BooksAndPlaces
<1>3. CASE \E r \in Ranks : Quits(r)
  BY <1>3 DEF EndBatch, AllAt
<1>4. CASE \A r \in Ranks : ~Quits(r)
  <2>1. queue' = queue /\ \A r \in Ranks : pc'[r] \in {"frame", "next"}
    BY <1>4 DEF EndBatch
  <2>2. \A r \in Ranks : Busy(r)' = Busy(r) /\ ~Busy(r)
    BY <1>1, <2>1 DEF Busy
  <2>3. Books(log, c, p, modes, at)'
    BY <1>1, <1>2, <2>1, <2>2, NoneAdvances
  <2>4. p \in [Ranks -> Nat] /\ Len(log) \in Nat
    BY <1>2, BooksTyped
  <2>5. /\ \A r, q \in Ranks : NoneBetween(log, p[r], p[q])
        /\ \A r \in Ranks : NoEnd(log, p[r])
    BY <1>1, <1>2, <1>4, <2>4, EndsLevel
  <2>6. Taking'
    BY <2>1 DEF Taking
  <2>7. Level(log, p)'
    BY <2>5 DEF Level
  <2>8. Placed(log, p)'
    BY <2>6, <2>7 DEF Placed
  <2> QED BY <2>3, <2>8, BooksAndPlaces
<1> QED BY <1>3, <1>4

-----------------------------------------------------------------------------
(* The ranks of a renderer stay in step                                    *)

LEMMA OnlyQuitsKept ==
  ASSUME Typed, \A r \in Ranks : policy[r] = "Local", OnlyQuits, Next
  PROVE  OnlyQuits'
<1>1. ASSUME synced' = synced
      PROVE  OnlyQuits'
  BY <1>1 DEF OnlyQuits
<1>2. ASSUME NEW r \in Ranks, Next1(r) \/ CatchUp(r)
      PROVE  OnlyQuits'
  <2>1. queue \in [Ranks -> Seq(Messages)] /\ synced \in [Ranks -> Seq(Messages)]
    BY TypesOfProcess
  <2>2. queue[r] # <<>> => Head(queue[r]) \in Messages
    BY <2>1, HeadTailProperties
  <2>3. PICK m \in Messages : Takes(r, m)
    BY <1>2, <2>2, MessageMade DEF Next1, CatchUp
  <2>4. CASE ~NeedsSync(r, m)
    BY <1>1, <2>3, <2>4 DEF Takes
  <2>5. CASE NeedsSync(r, m)
    <3>1. m = End("Quit")
      BY <2>3, <2>5, MessageTyped DEF NeedsSync, Endings
    <3>2. synced' = [synced EXCEPT ![r] = Append(synced[r], m)]
      BY <2>3, <2>5 DEF Takes
    <3>3. /\ Len(Append(synced[r], m)) = Len(synced[r]) + 1 /\ Len(synced[r]) \in Nat
          /\ \A i \in 1..Len(synced[r]) : Append(synced[r], m)[i] = synced[r][i]
          /\ Append(synced[r], m)[Len(synced[r]) + 1] = m
      BY <2>1, <2>3, LogGrows
    <3>4. \A i \in 1..(Len(synced[r]) + 1) : i \in 1..Len(synced[r]) \/ i = Len(synced[r]) + 1
      BY <3>3
    <3>5. \A i \in 1..Len(Append(synced[r], m)) : Append(synced[r], m)[i] = End("Quit")
      BY <3>1, <3>3, <3>4 DEF OnlyQuits
    <3>6. \A q \in Ranks : synced'[q] = IF q = r THEN Append(synced[r], m) ELSE synced[q]
      BY <2>1, <3>2
    <3> QED BY <3>5, <3>6 DEF OnlyQuits
  <2> QED BY <2>4, <2>5
<1>3. ASSUME NEW r \in Ranks, Process(r), ~Next1(r), ~CatchUp(r)
      PROVE  synced' = synced
  BY <1>3 DEF Process, HandleSetMode, HandleSetLimit, HandleAddObject, AddInputObject,
              HandleEnd, Render, history
<1>4. UNCHANGED <<renderer, process, history>> => synced' = synced
  BY DEF history
<1>5. Collective => synced' = synced
  BY DEF Collective, AnyMessage, EndBatch, history
<1> QED BY <1>1, <1>2, <1>3, <1>4, <1>5, ManagerKeepsPlaces DEF Next

LEMMA DoneForEver ==
  ASSUME Typed, AllAt("done"), Next
  PROVE  AllAt("done")' /\ synced' = synced
<1>1. ASSUME NEW r \in Ranks
      PROVE  ~Process(r)
  <2>1. pc[r] = "done"
    BY DEF AllAt
  <2> QED BY <2>1 DEF Process, Next1, CatchUp, HandleSetMode, HandleSetLimit, HandleAddObject,
                      AddInputObject, HandleEnd, Render, Handles
<1>2. ~Collective
  BY RanksTyped DEF Collective, AnyMessage, EndBatch, AllAt
<1>3. UNCHANGED <<renderer, process, history>>
  BY <1>1, <1>2, ManagerKeepsPlaces DEF Next
<1> QED BY <1>3 DEF process, history, AllAt

LEMMA NextInStep ==
  ASSUME Typed, Phased, NEW a, NEW G, OnePolicy(a, G), OnePolicy(a, G)', InStep(a), Next
  PROVE  InStep(a)'
<1>1. CASE a = "Local" /\ OnlyQuits
  <2>1. \A r \in Ranks : policy[r] = "Local"
    BY <1>1 DEF OnePolicy
  <2> QED BY <1>1, <2>1, OnlyQuitsKept DEF InStep
<1>2. CASE AllAt("done")
  BY <1>2, DoneForEver DEF InStep
<1>3. ASSUME a # "Local", ~AllAt("done"),
             NEW log, NEW c, NEW p, NEW modes, NEW at, Logged(log, c, p, modes, at)
      PROVE  AllAt("done")' \/ \E l, d, o, n, t : Logged(l, d, o, n, t)'
  <2>1. \A q \in Ranks : policy[q] # "Local"
    BY <1>3 DEF OnePolicy
  <2>2. policy' = policy
    BY DEF OnePolicy
  <2>3. \A r \in Ranks : pc[r] # "done"
    BY <1>3 DEF Phased, Taking, Handling
  <2>4. ASSUME NEW r \in Ranks, Process(r)
        PROVE  \E l, d, o, n, t : Logged(l, d, o, n, t)'
    BY <1>3, <2>1, <2>2, <2>4, ProcessLogged
  <2>5. CASE Collective
    BY <1>3, <2>1, <2>5, AnyLogged, BatchLogged DEF Collective
  <2>6. CASE \/ \E x \in Objects : AddObject(x)
             \/ SetParameter \/ \E type \in Ends : SendEnd(type)
             \/ \E r \in Ranks : Manager(r)
    BY <1>3, <2>3, <2>6, ManagerLogged
  <2> QED BY <2>4, <2>5, <2>6 DEF Next
<1> QED BY <1>1, <1>2, <1>3 DEF InStep

LEMMA InitInStep ==
  ASSUME Init, NEW a, NEW G, OnePolicy(a, G)
  PROVE  InStep(a)
<1>1. /\ pc = [r \in Ranks |-> "next"]
      /\ queue = [r \in Ranks |-> <<>>] /\ cast = [r \in Ranks |-> <<>>]
      /\ synced = [r \in Ranks |-> <<>>]
  BY DEF Init
<1>2. PICK m \in Modes : mode = [r \in Ranks |-> m]
  BY DEF Init
<1>3. PICK log, at : log = <<>> /\ at = <<>>
  OBVIOUS
<1>4. PICK c : c = [r \in Ranks |-> 0]
  OBVIOUS
<1>5. PICK modes : modes = [i \in 0..0 |-> m]
  OBVIOUS
<1>6. /\ log \in Seq(Sent) /\ Len(log) = 0 /\ at \in Seq(1..Len(log)) /\ Len(at) = 0
      /\ \A i \in 1..Len(log) : FALSE
  BY <1>3, EmptySeq
<1>7. LogTyped(log, c, c, modes)
  <2>1. c \in [Ranks -> 0..0] /\ modes \in [0..0 -> Modes]
    BY <1>4, <1>5
  <2> QED BY <1>6, <2>1 DEF LogTyped
<1>8. Queues(log, c)
  <2>1. cast[0] = <<>> /\ \A r \in Ranks : queue[r] = <<>> /\ cast[r] = <<>> /\ c[r] = 0
    BY <1>1, <1>4, RanksTyped
  <2>2. QueueRight(log, 0, <<>>, <<>>)
    BY <1>3, EmptySeq DEF QueueRight
  <2> QED BY <2>1, <2>2 DEF Queues
<1>9. Positions(log, c, c, modes)
  <2>1. \A r \in Ranks : pc[r] = "next" /\ c[r] = 0 /\ mode[r] = m
    BY <1>1, <1>2, <1>4
  <2>2. modes[0] = m
    BY <1>5
  <2> QED BY <2>1, <2>2 DEF Positions, Busy
<1>10. Numbered(log, at)
  BY <1>6 DEF Numbered
<1>11. Recorded(log, c, at)
  <2>1. \A r \in Ranks : synced[r] = <<>>
    BY <1>1
  <2>2. Len(<<>>) = 0
    BY EmptySeq
  <2>3. \A n : RecordRight(log, at, n, <<>>)
    BY <1>6, <2>2 DEF RecordRight
  <2> QED BY <2>1, <2>3 DEF Recorded
<1>12. Placed(log, c)
  <2>1. Taking
    BY <1>1 DEF Taking
  <2>2. Level(log, c)
    BY <1>6 DEF Level, NoneBetween, NoEnd
  <2> QED BY <2>1, <2>2 DEF Placed
<1>13. Logged(log, c, c, modes, at)
  BY <1>7, <1>8, <1>9, <1>10, <1>11, <1>12 DEF Logged
<1>14. OnlyQuits
  <2>1. Len(<<>>) = 0
    BY EmptySeq
  <2> QED BY <1>1, <2>1 DEF OnlyQuits
<1> QED BY <1>13, <1>14 DEF InStep

LEMMA OrderInLog ==
  ASSUME Typed, NEW log, NEW c, NEW p, NEW modes, NEW at, Logged(log, c, p, modes, at)
  PROVE  SameOrder
<1>1. ASSUME NEW r \in Ranks, NEW i \in DOMAIN synced[r]
      PROVE  synced[r][i] = log[at[i]]
  <2>1. synced[r] \in Seq(Messages)
    BY TypesOfProcess
  <2>2. i \in 1..Len(synced[r])
    BY <2>1, LenProperties
  <2> QED BY <2>2 DEF Logged, Recorded, RecordRight
<1> QED BY <1>1 DEF SameOrder

LEMMA OrderOfQuits ==
  ASSUME Typed, OnlyQuits
  PROVE  SameOrder
<1>1. ASSUME NEW r \in Ranks, NEW i \in DOMAIN synced[r]
      PROVE  synced[r][i] = End("Quit")
  <2>1. synced[r] \in Seq(Messages)
    BY TypesOfProcess
  <2>2. i \in 1..Len(synced[r])
    BY <2>1, LenProperties
  <2> QED BY <2>2 DEF OnlyQuits
<1> QED BY <1>1 DEF SameOrder

LEMMA NothingTakenAtLast ==
  ASSUME Typed, AllAt("done")', Next
  PROVE  synced' = synced
<1>1. ASSUME NEW r \in Ranks, Process(r)
      PROVE  synced' = synced
  <2>1. Next1(r) \/ CatchUp(r) => pc'[r] # "done"
    BY TypesOfProcess DEF Next1, CatchUp
  <2>2. ~Next1(r) /\ ~CatchUp(r)
    BY <2>1 DEF AllAt
  <2> QED BY <1>1, <2>2 DEF Process, HandleSetMode, HandleSetLimit, HandleAddObject, AddInputObject,
                            HandleEnd, Render, history
<1>2. UNCHANGED <<renderer, process, history>> => synced' = synced
  BY DEF history
<1>3. Collective => synced' = synced
  BY DEF Collective, AnyMessage, EndBatch, history
<1> QED BY <1>1, <1>2, <1>3, ManagerKeepsPlaces DEF Next

LEMMA InitIInv == Init => IInv
<1> SUFFICES ASSUME Init PROVE IInv
  OBVIOUS
<1>1. PICK a, G : OnePolicy(a, G)
  BY InitPolicy
<1>2. InStep(a)
  BY <1>1, InitInStep
<1>3. Typed /\ Phased
  BY InitTyped, InitPhased
<1>4. OnlyQuits
  <2>1. Len(<<>>) = 0
    BY EmptySeq
  <2> QED BY <2>1 DEF Init, OnlyQuits
<1> QED BY <1>1, <1>2, <1>3, <1>4, OrderOfQuits DEF IInv

LEMMA NextIInv ==
  ASSUME ~PolicyChanges, IInv, Next
  PROVE  IInv'
<1>1. Typed' /\ Phased'
  BY NextTyped, NextPhased DEF IInv
<1>2. PICK a, G : OnePolicy(a, G) /\ InStep(a)
  BY DEF IInv
<1>3. OnePolicy(a, G)'
  BY <1>2, NextPolicy DEF IInv
<1>4. InStep(a)'
  BY <1>2, <1>3, NextInStep DEF IInv
<1>5. SameOrder'
  <2>1. ASSUME AllAt("done")'
        PROVE  SameOrder'
    <3>1. synced' = synced
      BY <2>1, NothingTakenAtLast DEF IInv
    <3> QED BY <3>1 DEF IInv, SameOrder
  <2>2. (Typed /\ OnlyQuits => SameOrder)'
    BY OrderOfQuits, PTL
  <2>3. ASSUME NEW log, NEW c, NEW p, NEW modes, NEW at, Logged(log, c, p, modes, at)'
        PROVE  SameOrder'
    <3>1. (Typed /\ Logged(log, c, p, modes, at) => SameOrder)'
      BY OrderInLog, PTL
    <3> QED BY <1>1, <2>3, <3>1
  <2> QED BY <1>1, <1>4, <2>1, <2>2, <2>3 DEF InStep
<1> QED BY <1>1, <1>3, <1>4, <1>5 DEF IInv

LEMMA StutterIInv == IInv /\ UNCHANGED vars => IInv'
<1> SUFFICES ASSUME IInv, UNCHANGED vars PROVE IInv'
  OBVIOUS
<1>1. /\ UNCHANGED <<renderer, process, history>>
      /\ UNCHANGED <<fastest, mode, policy, limit, delayed, pc, msg, allsync, batches, queue, policies,
                     mgrPolicy, toRank0, cast, output, asked, sets, ended, added, synced>>
  BY DEF vars, renderer, process, manager, inputs, history
<1>2. Typed' /\ Phased' /\ SameOrder'
  <2>1. Typed'
    BY NextTyped DEF IInv
  <2>2. Phased'
    BY <1>1 DEF IInv, Phased, Taking, Handling, AllAt
  <2>3. SameOrder'
    BY <1>1 DEF IInv, SameOrder
  <2> QED BY <2>1, <2>2, <2>3
<1>3. PICK a, G : OnePolicy(a, G) /\ InStep(a)
  BY DEF IInv
<1>4. OnePolicy(a, G)'
  BY <1>1, <1>3 DEF OnePolicy, PolicyOf
<1>5. InStep(a)'
  <2>1. ASSUME NEW log, NEW c, NEW p, NEW modes, NEW at, Logged(log, c, p, modes, at)
        PROVE  Logged(log, c, p, modes, at)'
    <3>1. Queues(log, c)'
      BY <1>1, <2>1 DEF Logged, Queues
    <3> QED BY <1>1, <2>1, <3>1, LoggedKept
  <2>2. OnlyQuits => OnlyQuits'
    BY <1>1 DEF OnlyQuits
  <2>3. AllAt("done") => AllAt("done")'
    BY <1>1 DEF AllAt
  <2> QED BY <1>3, <2>1, <2>2, <2>3 DEF InStep
<1> QED BY <1>2, <1>4, <1>5 DEF IInv

(* The ranks of a renderer take and handle one log of messages, and are    *)
(* never ahead of each other by one that all have to handle.               *)
THEOREM Invariant ==
  ASSUME ~PolicyChanges
  PROVE  Spec => []IInv
<1>1. IInv /\ [Next]_vars => IInv'
  BY NextIInv, StutterIInv
<1> QED BY <1>1, InitIInv, PTL DEF Spec

(* What has to be handled on all ranks is taken in the same order by all   *)
(* (module.h:319), as long as no mode is set that needs another policy.    *)
THEOREM HandledInTheSameOrder ==
  ASSUME ~PolicyChanges
  PROVE  Spec => []SameOrder
<1>1. IInv => SameOrder
  BY DEF IInv
<1> QED BY <1>1, Invariant, PTL

LEMMA LocalAlone ==
  ASSUME Typed, NEW a, NEW G, OnePolicy(a, G), a = "Local", NEW r \in Ranks, NEW x
  PROVE  Together(r, x) = {r}
<1>1. policy[r] = "Local" /\ mode[r] \in G /\ G \subseteq Modes /\ PolicyOf(mode[r]) = "Local"
  BY DEF OnePolicy
<1>2. mode[r] # "AllRanks"
  BY <1>1 DEF PolicyOf
<1>3. mode[r] # "MasterOnly"
  <2>1. fastest \in {"Local", "Distribute"}
    BY RenderSyncAssumption, TypesOfProcess
  <2> QED BY <1>1, <2>1 DEF PolicyOf
<1> QED BY <1>1, <1>2, <1>3 DEF Together

(* Two ranks in an operation of all are in the same phase.                 *)
LEMMA SamePhase ==
  ASSUME Phased, FramesTogether, NEW r \in Ranks, NEW q \in Ranks, AtAll(r), AtAll(q),
         pc[r] # "object", pc[q] # "object"
  PROVE  Operation(r) = Operation(q)
<1>1. /\ pc[r] \in {"any", "end"} \/ (Benchmark /\ pc[r] = "frame")
      /\ pc[q] \in {"any", "end"} \/ (Benchmark /\ pc[q] = "frame")
  BY DEF AtAll
<1>2. CASE Benchmark /\ AllAt("frame")
  BY <1>2 DEF Operation, AllAt
<1>3. CASE ~(Benchmark /\ AllAt("frame"))
  <2>1. pc[r] \in {"any", "end"} /\ pc[q] \in {"any", "end"}
    BY <1>1, <1>3 DEF FramesTogether
  <2>2. pc[r] = pc[q]
    BY <2>1 DEF Phased, Taking, Handling, AllAt
  <2> QED BY <2>1, <2>2 DEF Operation
<1> QED BY <1>2, <1>3

LEMMA CollectiveOfMeeting ==
  ASSUME Typed, NEW log, NEW c, NEW p, NEW modes, NEW at, Logged(log, c, p, modes, at),
         NEW a, NEW G, OnePolicy(a, G),
         NEW r \in Ranks, NEW q \in Ranks, AtAll(r), AtAll(q), pc[r] = "object"
  PROVE  pc[q] = "object" /\ Operation(r) = Operation(q)
<1>1. Books(log, c, p, modes, at) /\ Placed(log, p)
  BY BooksAndPlaces
<1>2. \A i \in Ranks : pc[i] = "object" => msg[i].type = "AddObject" /\ Syncs(msg[i]) /\ msg[i].object \in Objects
  <2>1. \A i \in Ranks : pc[i] = "object" => msg[i].type = "AddObject" /\ msg[i] \in Messages
    BY TypesOfProcess
  <2> QED BY <2>1, MessageTyped DEF Syncs
<1>3. PICK s \in Nat : Handling /\ Meeting(log, p, s)
  BY <1>1, <1>2, MeetsAt
<1>4. \A i \in Ranks : pc[i] = "object" => p[i] + 1 = s /\ msg[i] = log[s]
  BY <1>1, <1>2, <1>3, MeetsAt
<1>5. \A i \in Ranks : policy[i] = policy[r] /\ mode[i] = modes[p[i]]
  BY <1>1 DEF OnePolicy, Books, Positions
<1>6. log[s].type = "AddObject" /\ log[s].object = msg[r].object /\ log[s].object \in Objects
  BY <1>2, <1>4
<1>7. Len(log) \in Nat /\ \A i \in Ranks : p[i] \in Nat
  BY <1>1, BooksTyped
<1>8. modes[s] = modes[p[r]]
  <2>1. s \in 1..Len(log) /\ s - 1 = p[r]
    BY <1>3, <1>4, <1>7 DEF Meeting
  <2> QED BY <1>1, <1>6, <2>1 DEF Books, LogTyped
<1>9. Together(r, log[s].object) = Ranks
  BY <1>6 DEF AtAll
<1>10. pc[q] # "end"
  <2>1. SUFFICES ASSUME pc[q] = "end" PROVE FALSE
    OBVIOUS
  <2>2. p[q] = s /\ \A i \in Together(q, log[s].object) : pc[i] = "end"
    BY <1>3, <1>6, <2>1 DEF Meeting
  <2>3. mode[q] = mode[r] /\ policy[q] = policy[r]
    BY <1>5, <1>8, <2>2
  <2>4. Together(q, log[s].object) = Ranks
    BY <1>9, <2>3, TogetherSame
  <2> QED BY <2>2, <2>4
<1>11. pc[q] = "object"
  BY <1>3, <1>10 DEF AtAll, Handling
<1>12. msg[q] = msg[r] /\ p[q] = p[r]
  <2>1. p[q] + 1 = p[r] + 1 /\ msg[q] = msg[r]
    BY <1>4, <1>11
  <2>2. p[q] \in Nat /\ p[r] \in Nat
    BY <1>7
  <2> QED BY <2>1, <2>2
<1> QED BY <1>5, <1>11, <1>12 DEF Operation

LEMMA CollectivesAgree ==
  ASSUME IInv, FramesTogether
  PROVE  SameCollective
<1>1. PICK a, G : OnePolicy(a, G) /\ InStep(a)
  BY DEF IInv
<1>2. Typed /\ Phased
  BY DEF IInv
<1>3. SUFFICES ASSUME NEW r \in Ranks, NEW q \in Ranks, AtAll(r), AtAll(q), r # q
               PROVE  Operation(r) = Operation(q)
  BY DEF SameCollective
<1>4. CASE pc[r] # "object" /\ pc[q] # "object"
  BY <1>2, <1>3, <1>4, SamePhase
<1>5. CASE pc[r] = "object" \/ pc[q] = "object"
  <2>1. CASE a = "Local"
    <3>1. \A i \in Ranks : \A x : Together(i, x) = {i}
      BY <1>1, <1>2, <2>1, LocalAlone
    <3>2. \A i \in Ranks : {i} # Ranks
      BY <1>3
    <3> QED BY <1>3, <1>5, <3>1, <3>2 DEF AtAll
  <2>2. CASE AllAt("done")
    BY <1>5, <2>2 DEF AllAt
  <2>3. ASSUME NEW log, NEW c, NEW p, NEW modes, NEW at, Logged(log, c, p, modes, at)
        PROVE  Operation(r) = Operation(q)
    <3>1. pc[r] = "object" => Operation(r) = Operation(q)
      BY <1>1, <1>2, <1>3, <2>3, CollectiveOfMeeting
    <3>2. pc[q] = "object" => Operation(q) = Operation(r)
      BY <1>1, <1>2, <1>3, <2>3, CollectiveOfMeeting
    <3> QED BY <1>5, <3>1, <3>2
  <2> QED BY <1>1, <2>1, <2>2, <2>3 DEF InStep
<1> QED BY <1>4, <1>5

(* When ranks wait in an operation of all, they wait in the same one, and  *)
(* for the same object (renderer.cpp:118-176 and 190-238).  Ranks that     *)
(* render together need the same objects_per_frame, or they would get to   *)
(* the frame after different numbers of batches.                           *)
THEOREM WaitForTheSame ==
  ASSUME ~PolicyChanges, Benchmark => \A m, n \in Limits : m = n
  PROVE  Spec => []SameCollective
<1>1. Init => IInv /\ FramesTogether
  BY InitIInv, InitFrames
<1>2. IInv /\ FramesTogether /\ [Next]_vars => (IInv /\ FramesTogether)'
  <2>1. SUFFICES ASSUME IInv, FramesTogether, [Next]_vars PROVE (IInv /\ FramesTogether)'
    OBVIOUS
  <2>2. CASE Next
    BY <2>1, <2>2, NextIInv, NextFrames DEF IInv
  <2>3. CASE UNCHANGED vars
    BY <2>1, <2>3, StutterIInv DEF FramesTogether, AllAt, vars, process
  <2> QED BY <2>1, <2>2, <2>3
<1>3. IInv /\ FramesTogether => SameCollective
  BY CollectivesAgree
<1> QED BY <1>1, <1>2, <1>3, PTL DEF Spec
=============================================================================
