----------------------------- MODULE RenderSync -----------------------------
(***************************************************************************)
(* A renderer on several ranks handles its messages in lockstep: each rank *)
(* takes a message, if there is one, all find out whether one of them has  *)
(* to be handled by all together, and those that hold another one go on    *)
(* until they get there.  Depending on a policy that the renderer derives  *)
(* from its render mode, its managers hand objects to the rank where they  *)
(* are, or to all.  Every rank is an own node with its own shared memory.  *)
(***************************************************************************)
EXTENDS Naturals, Sequences, FiniteSets

CONSTANTS
  NumRanks,
  Objects,
  SourceOf,       \* the rank where each object comes up
  Fastest,        \* policies that a renderer may name the fastest
  Modes,          \* bound: render modes a user chooses from
  MaxSets,        \* bound: how often a parameter is set
  Limits,         \* bound: values of objects_per_frame to start with, and to set
  Benchmark,      \* Renderer::m_benchmark: ranks wait for each other to render
  PolicyChanges,  \* bound: whether a mode is set that needs another policy
  Ends            \* bound: which of Kill and Quit may come

Ranks == 0..(NumRanks - 1)
Policies == {"Local", "Master", "Distribute"}

ASSUME RenderSyncAssumption ==
  /\ NumRanks \in Nat \ {0} /\ SourceOf \in [Objects -> Ranks] /\ Fastest \subseteq {"Local", "Distribute"}
  /\ Modes \subseteq {"LocalOnly", "MasterOnly", "AllRanks"} /\ MaxSets \in Nat
  /\ Limits \subseteq Nat \ {0}
  /\ {Benchmark, PolicyChanges} \subseteq BOOLEAN /\ Ends \subseteq {"Kill", "Quit"}

VARIABLES
  fastest,   \* Renderer::m_fastestObjectReceivePolicy
  mode,      \* m_renderMode of each rank
  policy,    \* Module::m_receivePolicy
  limit,     \* Renderer::m_numObjectsPerFrame
  delayed,   \* ParameterManager::m_delayedChanges has the render mode
  pc, msg,   \* where a rank is in Renderer::dispatch, and its message
  allsync,   \* processMessagesSynced: what some rank has to do collectively
  batches,   \* dispatch: numBatches
  queue,     \* messages from a manager to the process of its rank
  policies,  \* messages with the policy, from a process to its manager
  mgrPolicy, \* the policy in the StateTracker of each manager
  toRank0,   \* what the manager of a rank forwards to that of rank 0
  cast,      \* what rank 0 broadcasts to the manager of another rank
  output,    \* objects that have been output
  asked,     \* the mode that was asked for last
  sets, ended, \* bounds: parameters set, Kill or Quit sent
  added,     \* objects added at each rank
  synced     \* m_messageHistory, the messages that need to be handled together

renderer == <<fastest, mode, policy, limit, delayed>>
process  == <<pc, msg, allsync, batches>>
manager  == <<mgrPolicy, toRank0, cast>>
inputs   == <<output, asked, sets, ended>>
history  == <<added, synced>>
vars     == <<renderer, process, queue, policies, manager, inputs, history>>

None   == [type |-> "None"]
Add(x) == [type |-> "AddObject", object |-> x]
SetMode(m, d) == [type |-> "SetMode", mode |-> m, delayed |-> d]
SetLimit(n)   == [type |-> "SetLimit", limit |-> n]
End(type)     == [type |-> type]

(* Fault: rendering at the master does not ask for the objects of others.  *)
PolicyFastest(m) == IF m = "AllRanks" THEN "Distribute" ELSE fastest
(* The policy for a render mode.                                           *)
PolicyOf(m) ==
  CASE m = "AllRanks" -> "Distribute"
    [] m = "MasterOnly" /\ fastest = "Local" -> "Master"
    [] OTHER -> fastest

(* A render mode that needs another policy has been set before.           *)
Init ==
  /\ fastest \in Fastest
  /\ \E m \in Modes, n \in Limits :
       /\ fastest = "Distribute" => m = "LocalOnly"
       /\ mode = [r \in Ranks |-> m] /\ policy = [r \in Ranks |-> PolicyOf(m)]
       /\ mgrPolicy = policy /\ asked = m
       /\ limit = [r \in Ranks |-> n]
  /\ delayed = [r \in Ranks |-> FALSE]
  /\ pc = [r \in Ranks |-> "next"] /\ msg = [r \in Ranks |-> None]
  /\ allsync = [r \in Ranks |-> "None"] /\ batches = [r \in Ranks |-> 0]
  /\ queue = [r \in Ranks |-> <<>>] /\ policies = [r \in Ranks |-> <<>>]
  /\ toRank0 = [r \in Ranks |-> <<>>] /\ cast = [r \in Ranks |-> <<>>]
  /\ output = {} /\ sets = 0 /\ ended = FALSE
  /\ added = [r \in Ranks |-> {}] /\ synced = [r \in Ranks |-> <<>>]

-----------------------------------------------------------------------------
(* Managers *)

ToProcess(ranks, m) ==
  queue' = [r \in Ranks |-> IF r \in ranks /\ pc[r] # "done" THEN Append(queue[r], m) ELSE queue[r]]

(* Rank 0 sends m to all other ranks and handles it.                       *)
Broadcast(m) ==
  /\ cast' = [r \in Ranks |-> IF r # 0 THEN Append(cast[r], m) ELSE cast[r]]
  /\ ToProcess({0}, m)

(* Fault: every rank broadcasts on its own.                                *)
BroadcastEagerly(r, m) ==
  /\ toRank0' = toRank0 /\ ToProcess({r}, m)
  /\ cast' = [q \in Ranks |-> IF q # r THEN Append(cast[q], m) ELSE cast[q]]
BroadcastAndHandle(r, m) ==
  IF r = 0 THEN Broadcast(m) /\ UNCHANGED toRank0
  ELSE toRank0' = [toRank0 EXCEPT ![r] = Append(@, m)] /\ UNCHANGED <<cast, queue>>

(* A module on the rank of x has output it for the renderer.               *)
AddObject(x) ==
  LET r == SourceOf[x] IN
  /\ x \notin output /\ output' = output \cup {x}
  /\ IF mgrPolicy[r] = "Local" THEN ToProcess({r}, Add(x)) /\ UNCHANGED <<toRank0, cast>>
     ELSE BroadcastAndHandle(r, Add(x))
  /\ UNCHANGED <<renderer, process, policies, mgrPolicy, asked, sets, ended, history>>

Forwarded(r) ==
  /\ toRank0[r] # <<>>
  /\ toRank0' = [toRank0 EXCEPT ![r] = Tail(@)]
  /\ Broadcast(Head(toRank0[r]))
  /\ UNCHANGED <<renderer, process, policies, mgrPolicy, inputs, history>>

ReceiveBroadcast(r) ==
  /\ cast[r] # <<>>
  /\ cast' = [cast EXCEPT ![r] = Tail(@)]
  /\ ToProcess({r}, Head(cast[r]))
  /\ UNCHANGED <<renderer, process, policies, mgrPolicy, toRank0, inputs, history>>

ReceivePolicy(r) ==
  /\ policies[r] # <<>>
  /\ policies' = [policies EXCEPT ![r] = Tail(@)]
  /\ mgrPolicy' = [mgrPolicy EXCEPT ![r] = Head(policies[r])]
  /\ UNCHANGED <<renderer, process, queue, toRank0, cast, inputs, history>>

(* What comes from the hub, for all ranks of the renderer.                 *)
SetParameter ==
  /\ sets < MaxSets
  /\ sets' = sets + 1
  /\ \/ \E m \in Modes, d \in BOOLEAN :
          /\ m # asked /\ (PolicyChanges \/ PolicyOf(m) = PolicyOf(asked))
          /\ Broadcast(SetMode(m, d)) /\ asked' = m
     \/ \E n \in Limits : Broadcast(SetLimit(n)) /\ UNCHANGED asked
  /\ UNCHANGED <<renderer, process, policies, mgrPolicy, toRank0, output, ended, history>>

SendEnd(type) ==
  /\ ~ended /\ type \in Ends
  /\ ended' = TRUE
  /\ Broadcast(End(type))
  /\ UNCHANGED <<renderer, process, policies, mgrPolicy, toRank0, output, asked, sets, history>>

-----------------------------------------------------------------------------
(* Process of rank r *)

NeedsSync(r, m) ==
  m.type = "Quit" \/ (m.type = "AddObject" /\ policy[r] # "Local")
SyncType(r) == IF NeedsSync(r, msg[r]) THEN msg[r].type ELSE "None"

(* Which ranks take part in adding object x, as rank r sees it.            *)
Together(r, x) ==
  CASE policy[r] = "Distribute" \/ mode[r] = "AllRanks" -> Ranks
    [] policy[r] # "Distribute" /\ mode[r] = "MasterOnly" /\ r \in {0, SourceOf[x]} -> {0, SourceOf[x]}
    [] OTHER -> {r}

(* What collective operation a rank has arrived at, if any.                *)
AtAll(r) == \/ pc[r] \in {"any", "end"} \/ (Benchmark /\ pc[r] = "frame")
            \/ pc[r] = "object" /\ Together(r, msg[r].object) = Ranks
Operation(r) == IF pc[r] = "object" THEN <<msg[r].object, mode[r], policy[r]>> ELSE <<pc[r]>>
AllAt(where) == \A r \in Ranks : pc[r] = where

(* Rank r takes m from its queue.                                          *)
Takes(r, m) ==
  /\ msg' = [msg EXCEPT ![r] = m]
  /\ queue' = [queue EXCEPT ![r] = IF @ = <<>> THEN @ ELSE Tail(@)]
  /\ synced' = IF NeedsSync(r, m) THEN [synced EXCEPT ![r] = Append(@, m)] ELSE synced

(* getNextMessage, which never blocks.                                     *)
Next1(r) ==
  /\ pc[r] = "next"
  /\ pc' = [pc EXCEPT ![r] = "any"]
  /\ Takes(r, IF queue[r] = <<>> THEN None ELSE Head(queue[r]))
  /\ UNCHANGED <<renderer, allsync, batches, policies, manager, inputs, added>>

(* After a message of which sync tells whether all handle it together.     *)
(* Fault: a rank that has to catch up does not.                            *)
StopAnyway(all, sync) == "end"
Continue(all, sync)   == IF all = "None" \/ sync THEN "end" ELSE "catch up"

(* The largest type of a message that some rank has to handle with others. *)
AllSync == LET types == {SyncType(r) : r \in Ranks} IN
  CASE "AddObject" \in types -> "AddObject" [] "Quit" \in types -> "Quit" [] OTHER -> "None"

AnyMessage ==
  /\ AllAt("any")
  /\ allsync' = [r \in Ranks |-> AllSync]
  /\ pc' = [r \in Ranks |-> IF \A q \in Ranks : msg[q] = None THEN "end"
                            ELSE IF msg[r] = None THEN Continue(AllSync, FALSE) ELSE "handle"]
  /\ UNCHANGED <<renderer, msg, batches, queue, policies, manager, inputs, history>>

CatchUp(r) ==
  /\ pc[r] = "catch up" /\ queue[r] # <<>>
  /\ Takes(r, Head(queue[r]))
  /\ pc' = [pc EXCEPT ![r] = "handle"]
  /\ UNCHANGED <<renderer, allsync, batches, policies, manager, inputs, added>>

Handles(r, type) == pc[r] = "handle" /\ msg[r].type = type
Handled(r) == pc' = [pc EXCEPT ![r] = Continue(allsync[r], FALSE)]

(* changeParameter for the render mode on the ranks rs: the managers learn *)
(* the policy.                                                             *)
ChangeModes(rs, modes) ==
  /\ policy' = [r \in Ranks |-> IF r \in rs THEN PolicyOf(modes[r]) ELSE policy[r]]
  /\ policies' = [r \in Ranks |-> IF r \in rs THEN Append(policies[r], PolicyOf(modes[r])) ELSE policies[r]]

HandleSetMode(r) ==
  /\ Handles(r, "SetMode")
  /\ mode' = [mode EXCEPT ![r] = msg[r].mode]
  /\ IF msg[r].delayed THEN delayed' = [delayed EXCEPT ![r] = TRUE] /\ UNCHANGED <<policy, policies>>
     ELSE ChangeModes({r}, mode') /\ UNCHANGED delayed
  /\ Handled(r)
  /\ UNCHANGED <<fastest, limit, msg, allsync, batches, queue, manager, inputs, history>>

HandleSetLimit(r) ==
  /\ Handles(r, "SetLimit")
  /\ limit' = [limit EXCEPT ![r] = msg[r].limit]
  /\ Handled(r)
  /\ UNCHANGED <<fastest, mode, policy, delayed, msg, allsync, batches, queue, policies, manager,
                 inputs, history>>

HandleAddObject(r) ==
  /\ Handles(r, "AddObject")
  /\ pc' = [pc EXCEPT ![r] = "object"]
  /\ UNCHANGED <<renderer, msg, allsync, batches, queue, policies, manager, inputs, history>>

(* handleAddObject, when all that r waits for have arrived.  The object,   *)
(* or its place holder, is added where the mode asks for it.               *)
AddsAt(r, x) == mode[r] = "AllRanks" \/ policy[r] = "Distribute"
                \/ r = (IF mode[r] = "MasterOnly" THEN 0 ELSE SourceOf[x])
AddInputObject(r) ==
  /\ pc[r] = "object"
  /\ LET x == msg[r].object
         ranks == Together(r, x) IN
     /\ \A q \in ranks : pc[q] = "object" /\ Operation(q) = Operation(r)
     /\ added' = [q \in Ranks |-> IF q \in ranks /\ AddsAt(q, x) THEN added[q] \cup {x} ELSE added[q]]
     /\ pc' = [q \in Ranks |-> IF q \in ranks THEN Continue(allsync[q], NeedsSync(q, msg[q])) ELSE pc[q]]
  /\ UNCHANGED <<renderer, msg, allsync, batches, queue, policies, manager, inputs, synced>>

(* Kill or Quit: the rank leaves the loop with quit set.                   *)
HandleEnd(r) ==
  /\ \E type \in Ends : Handles(r, type)
  /\ pc' = [pc EXCEPT ![r] = "end"]
  /\ UNCHANGED <<renderer, msg, allsync, batches, queue, policies, manager, inputs, history>>

Quits(r) == msg[r].type \in {"Kill", "Quit"}
(* Faults: a rank looks at its own queue only, or never renders before all *)
(* is handled.                                                             *)
AnotherHere(r) == queue[r] # <<>> /\ batches[r] + 1 < limit[r]
AnotherAnyway(r) == \E q \in Ranks : queue[q] # <<>>
Another(r) == (\E q \in Ranks : queue[q] # <<>>) /\ batches[r] + 1 < limit[r]

(* Did some rank quit, and are there more messages.  Then another batch    *)
(* is handled, or delayed changes are applied and a frame is rendered.     *)
EndBatch ==
  /\ AllAt("end")
  /\ IF \E r \in Ranks : Quits(r)
     THEN /\ pc' = [r \in Ranks |-> "done"]
          /\ queue' = [r \in Ranks |-> <<>>]
          /\ UNCHANGED <<delayed, policy, policies, batches>>
     ELSE LET rs == {r \in Ranks : ~Another(r)} IN
          /\ pc' = [r \in Ranks |-> IF r \in rs THEN "frame" ELSE "next"]
          /\ batches' = [r \in Ranks |-> IF r \in rs THEN 0 ELSE batches[r] + 1]
          /\ ChangeModes({r \in rs : delayed[r]}, mode)
          /\ delayed' = [r \in Ranks |-> delayed[r] /\ r \notin rs]
          /\ UNCHANGED queue
  /\ msg' = [r \in Ranks |-> None]
  /\ UNCHANGED <<fastest, mode, limit, allsync, manager, inputs, history>>

(* Rendering is collective when it is benchmarked.                         *)
Render(r) ==
  /\ pc[r] = "frame" /\ (Benchmark => AllAt("frame"))
  /\ pc' = [q \in Ranks |-> IF q = r \/ Benchmark THEN "next" ELSE pc[q]]
  /\ UNCHANGED <<renderer, msg, allsync, batches, queue, policies, manager, inputs, history>>

-----------------------------------------------------------------------------
Manager(r) == Forwarded(r) \/ ReceiveBroadcast(r) \/ ReceivePolicy(r)
Process(r) == Next1(r) \/ CatchUp(r) \/ HandleSetMode(r) \/ HandleSetLimit(r)
              \/ HandleAddObject(r) \/ AddInputObject(r) \/ HandleEnd(r) \/ Render(r)
Collective == AnyMessage \/ EndBatch

Next ==
  \/ \E x \in Objects : AddObject(x)
  \/ SetParameter
  \/ \E type \in Ends : SendEnd(type)
  \/ \E r \in Ranks : Manager(r) \/ Process(r)
  \/ Collective

(* Managers poll all they receive from, and the renderer runs.             *)
Fairness ==
  /\ \A r \in Ranks : /\ WF_vars(Forwarded(r)) /\ WF_vars(ReceiveBroadcast(r))
                      /\ WF_vars(ReceivePolicy(r)) /\ WF_vars(Process(r))
  /\ WF_vars(Collective)
Spec == Init /\ [][Next]_vars /\ Fairness

-----------------------------------------------------------------------------
Messages == {None} \cup {Add(x) : x \in Objects} \cup {SetMode(m, d) : m \in Modes, d \in BOOLEAN}
            \cup {SetLimit(n) : n \in Limits} \cup {End(t) : t \in Ends}

TypeOK ==
  /\ fastest \in Fastest /\ mode \in [Ranks -> Modes] /\ policy \in [Ranks -> Policies]
  /\ mgrPolicy \in [Ranks -> Policies] /\ limit \in [Ranks -> Limits]
  /\ delayed \in [Ranks -> BOOLEAN] /\ msg \in [Ranks -> Messages]
  /\ pc \in [Ranks -> {"next", "any", "handle", "catch up", "object", "end", "frame", "done"}]
  /\ allsync \in [Ranks -> {"None", "AddObject", "Quit"}]
  /\ batches \in [Ranks -> Nat] /\ \A r \in Ranks : \E n \in Limits : batches[r] < n
  /\ \A r \in Ranks : queue[r] \in Seq(Messages) /\ toRank0[r] \in Seq(Messages)
       /\ cast[r] \in Seq(Messages) /\ policies[r] \in Seq(Policies) /\ synced[r] \in Seq(Messages)
  /\ output \subseteq Objects /\ added \in [Ranks -> SUBSET Objects]
  /\ sets \in 0..MaxSets /\ ended \in BOOLEAN

(* What has to be handled on all ranks is taken in the same order there    *)
(* (module.h:319).                                                         *)
SameOrder ==
  \A r, q \in Ranks : \A i \in DOMAIN synced[r] \cap DOMAIN synced[q] : synced[r][i] = synced[q][i]

(* When ranks wait in an operation of all, they wait in the same one, and  *)
(* for the same object.                                                    *)
SameCollective ==
  \A r, q \in Ranks : AtAll(r) /\ AtAll(q) => Operation(r) = Operation(q)

(* All ranks are through with a batch, or have quit, again and again.      *)
AlwaysAnotherBatch == \A r \in Ranks : []<>(pc[r] \in {"next", "done"})

(* Every object is added at all ranks that are to render it, unless the    *)
(* renderer quits.                                                         *)
EveryObjectAdded ==
  \A x \in Objects : x \in output ~>
    (\A r \in Ranks : AddsAt(r, x) => x \in added[r]) \/ AllAt("done")
=============================================================================
