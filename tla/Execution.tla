------------------------------ MODULE Execution ------------------------------
(***************************************************************************)
(* Steering of a workflow on one cluster.  Every module runs as one        *)
(* process on each rank, next to the manager of the rank.  A module that   *)
(* executes tells its manager when it starts and finishes, and the objects *)
(* in between.  Rank 0 collects the progress of all ranks; it broadcasts   *)
(* Prepare to a module downstream when all its inputs have started, and    *)
(* Reduce when all have finished.  In between, each rank makes the module  *)
(* compute as soon as there is an object for every input.                  *)
(***************************************************************************)
EXTENDS Naturals, Sequences, FiniteSets, FiniteSetsExt, SequencesExt

CONSTANTS
  NumRanks,          \* m_size
  Modules,
  Outputs,           \* output ports
  Inputs,            \* input ports
  ModuleOf,          \* the module of a port
  Connections,       \* pairs of an output and an input port
  NoCompute,         \* the input ports with flag NOCOMPUTE
  ReducePolicy,      \* "Never", "Locally", or "OverAll", for each module
  SchedulingPolicy,  \* "Ignore", "Single", "Gang", or "LazyGang"
  Produces,          \* how many objects a module makes of its own on a rank
  Results,           \* how many objects it may make of the objects it gets
  MaxExecutes,       \* bound: how often the user executes each module
  Overlap            \* whether the user executes while modules are executing

Ranks == 0..(NumRanks - 1)
Ports == Outputs \cup Inputs

ASSUME ExecutionAssumption ==
  /\ NumRanks \in Nat \ {0} /\ IsFiniteSet(Modules) /\ IsFiniteSet(Ports)
  /\ ModuleOf \in [Ports -> Modules]
  /\ Connections \subseteq Outputs \X Inputs
  /\ NoCompute \subseteq Inputs
  /\ ReducePolicy \in [Modules -> {"Never", "Locally", "OverAll"}]
  /\ SchedulingPolicy \in [Modules -> {"Ignore", "Single", "Gang", "LazyGang"}]
  /\ Produces \in [Modules -> [Ranks -> Nat]] /\ Results \subseteq Nat
  /\ MaxExecutes \in [Modules -> Nat] /\ Overlap \in BOOLEAN

VARIABLES
  mod,            \* ClusterManager::Module::prepared, reduced, on each rank
  numObject,      \* PortManager::m_numObject, on each rank
  ranksStarted, ranksFinished, objectCount,  \* Module, on rank 0
  numReset, numFinish,                       \* PortManager, on rank 0
  done,           \* ExecutionDone messages sent to the hub
  queue,          \* messages from the manager of a rank to a module
  out,            \* messages from a module to the manager of its rank
  up,             \* messages from the managers to the one of rank 0
  down,           \* broadcasts by rank 0
  module,         \* vistle::Module: state of each process
  objects,        \* Port::objects of the input ports, on each rank
  executed        \* Execute messages sent by the user

manager == <<mod, numObject>>
master  == <<ranksStarted, ranksFinished, objectCount, numReset, numFinish, done>>
process == <<module, objects>>
vars    == <<manager, master, queue, out, up, down, process, executed>>

(* The data flow graph: the outputs of m, the inputs connected to output o,*)
(* the inputs that m needs objects at, the connections from m to those of  *)
(* d, and the modules that have such inputs.                               *)
OutputsOf     == [m \in Modules |-> SetToSeq({o \in Outputs : ModuleOf[o] = m})]
InputsAt      == [o \in Outputs |-> SetToSeq({i \in Inputs : <<o, i>> \in Connections})]
ComputeInputs == [m \in Modules |->
  {i \in Inputs \ NoCompute : ModuleOf[i] = m /\ \E o \in Outputs : <<o, i>> \in Connections}]
Links         == [m \in Modules |-> [d \in Modules |->
  {c \in Connections : ModuleOf[c[1]] = m /\ c[2] \in ComputeInputs[d]}]]
Downstream    == [m \in Modules |-> SetToSeq({d \in Modules : Links[m][d] # {}})]

Gang(m)    == SchedulingPolicy[m] \in {"Gang", "LazyGang"}
Steered(m) == ReducePolicy[m] # "Never" \/ Gang(m)

Execute(what, m)   == [type |-> what, module |-> m]
AddObject(port, n)  ==
  [type |-> "AddObject", module |-> ModuleOf[port], port |-> port, round |-> n]
Request(m, r)      == [type |-> "Request", module |-> m, rank |-> r]

Repeat(n, x) == [i \in 1..n |-> x]
-----------------------------------------------------------------------------
(* Whether a message from a manager to all ranks, or to rank 0, is handled *)
(* by rank 0 alone.                                                        *)
ForMaster(msg) == msg.type \in {"Start", "Finish", "Request"}

Broadcasts(msgs) ==
  FlattenSeq([k \in DOMAIN msgs |-> IF ForMaster(msgs[k]) THEN <<>> ELSE <<msgs[k]>>])

(* broadcastAndHandleMessage, where d and u are what is left of down and   *)
(* up: rank 0 does nothing else until it has handled what is in down[0],   *)
(* which the code does at once; other ranks forward the message to rank 0. *)
Cast(r, d, u, msgs) ==
  /\ down' = IF r # 0 THEN d
             ELSE [q \in Ranks |-> d[q] \o (IF q = 0 THEN msgs ELSE Broadcasts(msgs))]
  /\ up' = IF r = 0 THEN u ELSE [u EXCEPT ![r] = @ \o msgs]

Rest(f, r) == [f EXCEPT ![r] = Tail(@)]
Idle(r) == r = 0 => down[0] = <<>>
-----------------------------------------------------------------------------
(* What a manager changes on its rank while it handles a message: the      *)
(* object counts, the queues of the modules, and what it sends to others.  *)
Local(r) == [count |-> numObject[r], queue |-> queue[r], cast |-> <<>>]
Send(s, msg) == [s EXCEPT !.queue[msg.module] = Append(@, msg)]

Commit(r, d, s) ==
  /\ numObject' = [numObject EXCEPT ![r] = s.count]
  /\ queue' = [queue EXCEPT ![r] = s.queue]
  /\ Cast(r, d, up, s.cast)

(* isReadyForExecute, without and with the fault that reduced is ignored.  *)
IsReadyAlways(r, m) == TRUE
IsReadyForExecute(r, m) ==
  ReducePolicy[m] = "Never" \/ (mod[r][m].prepared /\ ~mod[r][m].reduced)

(* The number of complete tuples of objects for m, without and with the    *)
(* fault that one input with objects is enough.                            *)
TuplesOfAny(count, m) ==
  IF ComputeInputs[m] = {} THEN 0 ELSE Max({count[i] : i \in ComputeInputs[m]})
Tuples(count, m) ==
  IF ComputeInputs[m] = {} THEN 0 ELSE Min({count[i] : i \in ComputeInputs[m]})

(* checkExecuteObject, with all its recursive calls.                       *)
CheckExecuteObject(r, m, ready, s) ==
  LET n == IF ready THEN Tuples(s.count, m) ELSE 0
      c == Repeat(n, Execute("ComputeObject", m))
      policy == SchedulingPolicy[m]
  IN  [count |-> [i \in Inputs |-> IF i \in ComputeInputs[m] THEN s.count[i] - n ELSE s.count[i]],
       queue |-> IF policy = "Single" THEN [s.queue EXCEPT ![m] = @ \o c] ELSE s.queue,
       cast  |-> s.cast \o CASE policy = "Gang" -> c
                             [] policy = "LazyGang" -> Repeat(n, Request(m, r))
                             [] OTHER -> <<>>]

(* Fault: the module is told to compute before it gets the object.         *)
DeliverLate(r, n, i, s) ==
  LET m == ModuleOf[i]
  IN  Send(CheckExecuteObject(r, m, IsReadyForExecute(r, m), [s EXCEPT !.count[i] = @ + 1]),
           AddObject(i, n))

(* addObjectDestination for one input port.                                *)
Deliver(r, n, i, s) ==
  LET m == ModuleOf[i]
  IN  CheckExecuteObject(r, m, IsReadyForExecute(r, m),
                         [Send(s, AddObject(i, n)) EXCEPT !.count[i] = @ + 1])

(* The state after n has been sent to the first k of the input ports.      *)
DeliverAll(r, n, ins, k) ==
  LET sent[j \in 0..k] == IF j = 0 THEN Local(r) ELSE Deliver(r, n, ins[j], sent[j - 1])
  IN  sent[k]

HandleAddObject(r, m) ==
  /\ Idle(r) /\ out[r][m] # <<>> /\ Head(out[r][m]).type = "Object"
  /\ LET msg == Head(out[r][m])
         ins == InputsAt[msg.port]
     IN  Commit(r, down, DeliverAll(r, msg.round, ins, Len(ins)))
  /\ out' = [out EXCEPT ![r][m] = Tail(@)]
  /\ UNCHANGED <<mod, master, process, executed>>
-----------------------------------------------------------------------------
(* handlePriv(Execute) of a message that was broadcast.                    *)
Flags(p, d) == [prepared |-> p, reduced |-> d]

Prepare(r, m) ==
  /\ mod' = [mod EXCEPT ![r][m] = Flags(TRUE, FALSE)]
  /\ Commit(r, Rest(down, r), CheckExecuteObject(r, m, TRUE, Send(Local(r), Head(down[r]))))

(* Reduce, and ComputeExecute.                                             *)
Complete(r, m) ==
  /\ mod' = [mod EXCEPT ![r][m] = Flags(FALSE, TRUE)]
  /\ Commit(r, Rest(down, r), Send(Local(r), Head(down[r])))

ComputeObject(r, m) ==
  /\ mod' = [mod EXCEPT ![r][m].reduced = FALSE]
  /\ Commit(r, Rest(down, r), Send(Local(r), Head(down[r])))

HandleBroadcast(r) ==
  /\ down[r] # <<>>
  /\ LET msg == Head(down[r])
     IN  \/ msg.type = "Prepare" /\ Prepare(r, msg.module)
         \/ msg.type \in {"Reduce", "ComputeExecute"} /\ Complete(r, msg.module)
         \/ msg.type = "ComputeObject" /\ ComputeObject(r, msg.module)
  /\ UNCHANGED <<master, out, process, executed>>

(* handlePriv(Execute) of ComputeObject on rank 0 before it is broadcast,  *)
(* for a module with LazyGang scheduling.                                  *)
HandleRequest(msg, d, u) ==
  LET m == msg.module
      count == [objectCount[m] EXCEPT ![msg.rank] = @ + 1]
      total == FoldFunction(+, 0, count)
      enough == 5 * total >= NumRanks
  IN  /\ objectCount' = [objectCount EXCEPT ![m] =
            [q \in Ranks |-> IF enough /\ count[q] > 0 THEN count[q] - 1 ELSE count[q]]]
      /\ Cast(0, d, u, IF enough THEN <<Execute("ComputeObject", m)>> ELSE <<>>)
      /\ UNCHANGED <<ranksStarted, ranksFinished, numReset, numFinish, done>>
-----------------------------------------------------------------------------
(* handlePriv(ExecutionProgress) on rank 0.  First the inputs downstream   *)
(* are reset or finished, once all ranks have started or finished.         *)
Advanced(counter, m, all) ==
  [i \in Inputs |->
     IF all /\ i \notin NoCompute
     THEN counter[i] + Cardinality({c \in Connections : ModuleOf[c[1]] = m /\ c[2] = i})
     ELSE counter[i]]

(* Then, for every connection to d, d goes on if all its inputs are ready. *)
Rounds(counter, m, d) ==
  IF Steered(d) /\ Links[m][d] # {}
  THEN Min({Cardinality(Links[m][d])} \cup {counter[i] : i \in ComputeInputs[d]})
  ELSE 0

Popped(counter, m) ==
  [i \in Inputs |->
     IF i \in ComputeInputs[ModuleOf[i]] THEN counter[i] - Rounds(counter, m, ModuleOf[i])
     ELSE counter[i]]

(* The objects that LazyGang scheduling has not computed yet.              *)
Flush(d) ==
  IF SchedulingPolicy[d] = "LazyGang" THEN Max({objectCount[d][r] : r \in Ranks}) ELSE 0

(* What is broadcast for d: Prepare and Reduce, for each connection.       *)
Steps(m, d, reset, finish) ==
  FlattenSeq([k \in 1..Cardinality(Links[m][d]) |->
    (IF k <= Rounds(reset, m, d) THEN <<Execute("Prepare", d)>> ELSE <<>>) \o
    (IF k <= Rounds(finish, m, d)
     THEN Repeat(IF k = 1 THEN Flush(d) ELSE 0, Execute("ComputeObject", d))
            \o <<Execute("Reduce", d)>>
     ELSE <<>>)])

(* Whether this was the last rank to start or finish.  Faults: it was the  *)
(* first one; one more is waited for.                                      *)
AllStartedFirst(m)  == ranksStarted[m] = 0
AllFinishedFirst(m) == ranksFinished[m] = 0
AllFinishedMore(m)  == ranksFinished[m] = NumRanks
AllStarted(m)  == ranksStarted[m] + 1 = NumRanks
AllFinished(m) == ranksFinished[m] + 1 = NumRanks

Progress(m, stage, d, u) ==
  LET allStarted  == stage = "Start" /\ AllStarted(m)
      allFinished == stage = "Finish" /\ AllFinished(m)
      reset  == Advanced(numReset, m, allStarted)
      finish == Advanced(numFinish, m, allFinished)
  IN  /\ ranksStarted' = [ranksStarted EXCEPT ![m] =
            CASE stage = "Start" -> @ + 1 [] allFinished -> @ - NumRanks [] OTHER -> @]
      /\ ranksFinished' = [ranksFinished EXCEPT ![m] =
            CASE stage = "Start" -> @ [] allFinished -> 0 [] OTHER -> @ + 1]
      /\ numReset' = Popped(reset, m)
      /\ numFinish' = Popped(finish, m)
      /\ objectCount' = [n \in Modules |->
            IF Rounds(finish, m, n) > 0 /\ SchedulingPolicy[n] = "LazyGang"
            THEN [r \in Ranks |-> 0] ELSE objectCount[n]]
      /\ done' = [done EXCEPT ![m] = IF allFinished THEN @ + 1 ELSE @]
      /\ Cast(0, d, u, FlattenSeq([k \in DOMAIN Downstream[m] |->
                             Steps(m, Downstream[m][k], reset, finish)]))

(* A module reports its progress to the manager of its rank.               *)
HandleProgress(r, m) ==
  /\ Idle(r) /\ out[r][m] # <<>> /\ ForMaster(Head(out[r][m]))
  /\ IF r = 0 THEN Progress(m, Head(out[r][m]).type, down, up)
     ELSE Cast(r, down, up, <<Head(out[r][m])>>) /\ UNCHANGED master
  /\ out' = [out EXCEPT ![r][m] = Tail(@)]
  /\ UNCHANGED <<manager, queue, process, executed>>

(* Rank 0 handles or broadcasts what another rank has forwarded, or what   *)
(* its own checkExecuteObject asks for.                                    *)
HandleForwarded(r) ==
  /\ Idle(0) /\ up[r] # <<>>
  /\ LET msg == Head(up[r])
     IN  CASE msg.type = "Request" -> HandleRequest(msg, down, Rest(up, r))
           [] msg.type \in {"Start", "Finish"} -> Progress(msg.module, msg.type, down, Rest(up, r))
           [] OTHER -> Cast(0, down, Rest(up, r), <<msg>>) /\ UNCHANGED master
  /\ UNCHANGED <<manager, queue, out, process, executed>>

HandleOwn ==
  /\ down[0] # <<>> /\ Head(down[0]).type = "Request"
  /\ HandleRequest(Head(down[0]), Rest(down, 0), up)
  /\ UNCHANGED <<manager, queue, out, process, executed>>
-----------------------------------------------------------------------------
(* The processes of a module.  To execute is a sequence of stages; Sync is *)
(* an operation that all ranks of the module take part in (all_reduce).    *)
Collective(m) == IF ReducePolicy[m] = "OverAll" THEN <<"Sync">> ELSE <<>>
IsSource(m)   == ComputeInputs[m] = {}

(* handleExecute with prepareWrapper and reduceWrapper.  A source makes    *)
(* its objects in prepare, other modules have them in their cache.         *)
Stages(what, m) ==
  CASE what = "Prepare" -> <<"Start">> \o Collective(m)
    [] what = "ComputeObject" -> (IF Gang(m) THEN <<"Sync">> ELSE <<>>) \o <<"Compute">>
    [] what = "Reduce" -> Collective(m) \o <<"Finish">>
    [] what = "ComputeExecute" ->
         <<"Start">> \o Collective(m) \o
         (IF IsSource(m) THEN <<"Produce", "Sync">> ELSE <<"Sync", "Produce">> \o Collective(m))
         \o <<"Finish">>

(* addObject for n objects at every output.                                *)
NewObjects(m, n, round) ==
  FlattenSeq([k \in DOMAIN OutputsOf[m] |->
    Repeat(n, [type |-> "Object", port |-> OutputsOf[m][k], round |-> round])])

Report(r, m, msgs) == out' = [out EXCEPT ![r][m] = @ \o msgs]

(* The stages of an execution, where p is the state of the process.        *)
Start(r, m, p) ==
  /\ module' = [module EXCEPT ![r][m] =
       [p EXCEPT !.prepared = TRUE, !.reduced = FALSE, !.withOutput = FALSE, !.round = @ + 1]]
  /\ Report(r, m, <<[type |-> "Start", module |-> m]>>)
  /\ UNCHANGED objects

Produce(r, m, p) ==
  /\ module' = [module EXCEPT ![r][m] = [p EXCEPT !.withOutput = @ \/ Produces[m][r] > 0]]
  /\ objects' = [objects EXCEPT ![r] =
       [i \in Inputs |-> IF ModuleOf[i] = m THEN <<>> ELSE @[i]]]
  /\ Report(r, m, NewObjects(m, Produces[m][r], p.round))

(* Nothing is computed when an object is missing.                          *)
Compute(r, m, p) ==
  \E n \in Results :
    /\ (\E i \in ComputeInputs[m] : objects[r][i] = <<>>) => n = Min(Results)
    /\ LET made == IF \E i \in ComputeInputs[m] : objects[r][i] = <<>> THEN 0 ELSE n
       IN  /\ module' = [module EXCEPT ![r][m] = [p EXCEPT !.withOutput = @ \/ made > 0]]
           /\ Report(r, m, NewObjects(m, made, p.round))
    /\ objects' = [objects EXCEPT ![r] =
         [i \in Inputs |-> IF i \in ComputeInputs[m] /\ @[i] # <<>> THEN Tail(@[i]) ELSE @[i]]]

(* An Empty object is sent where there was no other.                       *)
Finish(r, m, p) ==
  /\ module' = [module EXCEPT ![r][m] = [p EXCEPT !.prepared = FALSE, !.reduced = TRUE]]
  /\ Report(r, m, NewObjects(m, IF p.withOutput THEN 0 ELSE 1, p.round)
                    \o <<[type |-> "Finish", module |-> m]>>)
  /\ UNCHANGED objects

Go(r, m, stages) ==
  LET p == [module[r][m] EXCEPT !.rest = Tail(stages)]
  IN  CASE Head(stages) = "Start"   -> Start(r, m, p)
        [] Head(stages) = "Produce" -> Produce(r, m, p)
        [] Head(stages) = "Compute" -> Compute(r, m, p)
        [] Head(stages) = "Finish"  -> Finish(r, m, p)
        [] Head(stages) = "Sync"    ->
             /\ module' = [module EXCEPT ![r][m].rest = stages]
             /\ UNCHANGED <<objects, out>>

Stage(r, m) ==
  /\ module[r][m].rest # <<>> /\ Head(module[r][m].rest) # "Sync"
  /\ Go(r, m, module[r][m].rest)
  /\ UNCHANGED <<manager, master, queue, up, down, executed>>

Sync(m) ==
  /\ \A r \in Ranks : module[r][m].rest # <<>> /\ Head(module[r][m].rest) = "Sync"
  /\ module' = [r \in Ranks |-> [module[r] EXCEPT ![m].rest = Tail(@)]]
  /\ UNCHANGED <<manager, master, queue, out, up, down, objects, executed>>

(* handleMessage, when the process is not busy with an execution.          *)
Receive(r, m) ==
  /\ module[r][m].rest = <<>> /\ queue[r][m] # <<>>
  /\ queue' = [queue EXCEPT ![r][m] = Tail(@)]
  /\ LET msg == Head(queue[r][m])
     IN  CASE msg.type = "AddObject" ->
                /\ objects' = [objects EXCEPT ![r][msg.port] = Append(@, msg.round)]
                /\ UNCHANGED <<module, out>>
           [] msg.type # "AddObject" /\ SchedulingPolicy[m] = "Ignore" -> UNCHANGED <<process, out>>
           [] OTHER -> Go(r, m, Stages(msg.type, m))
  /\ UNCHANGED <<manager, master, up, down, executed>>
-----------------------------------------------------------------------------
AtRest ==
  /\ \A r \in Ranks : up[r] = <<>> /\ down[r] = <<>>
  /\ \A r \in Ranks, m \in Modules :
       queue[r][m] = <<>> /\ out[r][m] = <<>> /\ module[r][m].rest = <<>>

(* The hub sends Execute to rank 0 of the cluster, which broadcasts it.    *)
UserExecute(m) ==
  /\ executed[m] < MaxExecutes[m] /\ (Overlap \/ AtRest) /\ Idle(0)
  /\ executed' = [executed EXCEPT ![m] = @ + 1]
  /\ Cast(0, down, up, <<Execute("ComputeExecute", m)>>)
  /\ UNCHANGED <<manager, master, queue, out, process>>

Init ==
  /\ mod = [r \in Ranks |-> [m \in Modules |-> Flags(FALSE, TRUE)]]
  /\ numObject = [r \in Ranks |-> [i \in Inputs |-> 0]]
  /\ ranksStarted = [m \in Modules |-> 0] /\ ranksFinished = [m \in Modules |-> 0]
  /\ objectCount = [m \in Modules |-> [r \in Ranks |-> 0]]
  /\ numReset = [i \in Inputs |-> 0] /\ numFinish = [i \in Inputs |-> 0]
  /\ done = [m \in Modules |-> 0]
  /\ queue = [r \in Ranks |-> [m \in Modules |-> <<>>]]
  /\ out = [r \in Ranks |-> [m \in Modules |-> <<>>]]
  /\ up = [r \in Ranks |-> <<>>] /\ down = [r \in Ranks |-> <<>>]
  /\ module = [r \in Ranks |-> [m \in Modules |->
       [prepared |-> FALSE, reduced |-> FALSE, withOutput |-> FALSE, round |-> 0, rest |-> <<>>]]]
  /\ objects = [r \in Ranks |-> [i \in Inputs |-> <<>>]]
  /\ executed = [m \in Modules |-> 0]

(* One step of a manager, or of a process of a module.                     *)
SystemStep ==
  \/ \E r \in Ranks : HandleBroadcast(r) \/ HandleForwarded(r)
  \/ HandleOwn
  \/ \E r \in Ranks, m \in Modules : HandleAddObject(r, m) \/ HandleProgress(r, m)
  \/ \E r \in Ranks, m \in Modules : Receive(r, m) \/ Stage(r, m)
  \/ \E m \in Modules : Sync(m)

(* Not a deadlock.                                                         *)
Terminated == AtRest /\ UNCHANGED vars

Next == SystemStep \/ (\E m \in Modules : UserExecute(m)) \/ Terminated

(* The user executes a finite number of times.  All that is assumed is     *)
(* that something goes on as long as something can.                        *)
Spec == Init /\ [][Next]_vars
FairSpec == Spec /\ WF_vars(SystemStep)
-----------------------------------------------------------------------------
TypeOK ==
  /\ mod \in [Ranks -> [Modules -> [prepared : BOOLEAN, reduced : BOOLEAN]]]
  /\ numObject \in [Ranks -> [Inputs -> Nat]]
  /\ ranksStarted \in [Modules -> Nat] /\ ranksFinished \in [Modules -> 0..(NumRanks - 1)]
  /\ objectCount \in [Modules -> [Ranks -> Nat]]
  /\ numReset \in [Inputs -> Nat] /\ numFinish \in [Inputs -> Nat] /\ done \in [Modules -> Nat]
  /\ objects \in [Ranks -> [Inputs -> Seq(Nat)]] /\ executed \in [Modules -> Nat]

(* A module is prepared and reduced in turns, and computes in between,     *)
(* whatever the order in which progress of the ranks and objects arrive:   *)
(* the assertions of handlePriv(Execute) on every rank.                    *)
FlagsAgree ==
  \A r \in Ranks : down[r] # <<>> =>
    LET msg  == Head(down[r])
        flag == mod[r][msg.module]
    IN  CASE msg.type = "Prepare" -> ~flag.prepared /\ flag.reduced
          [] msg.type = "Reduce"  -> flag.prepared /\ ~flag.reduced
          [] msg.type \in {"ComputeObject", "Request"} -> flag.prepared
          [] OTHER -> TRUE

(* The message that process (r, m) handles next, if it is ready for one.   *)
Handles(r, m, type) ==
  /\ module[r][m].rest = <<>> /\ queue[r][m] # <<>>
  /\ Head(queue[r][m]).type = type

(* The assertions of prepareWrapper, handleExecute and reduceWrapper.  A   *)
(* process that is told to compute has an object at every input.           *)
ModuleReady ==
  \A r \in Ranks, m \in Modules :
    LET p == module[r][m]
    IN  /\ Handles(r, m, "Prepare") => ~p.prepared
        /\ Handles(r, m, "Reduce") => p.prepared /\ ~p.reduced
        /\ Handles(r, m, "ComputeObject") =>
             p.prepared /\ ~p.reduced /\ \A i \in ComputeInputs[m] : objects[r][i] # <<>>

(* The nth time that a module executes, it computes the objects of the nth *)
(* execution of the modules upstream.                                      *)
SameExecution ==
  \A r \in Ranks, m \in Modules : Handles(r, m, "ComputeObject") =>
    \A i \in ComputeInputs[m] :
      objects[r][i] # <<>> => Head(objects[r][i]) = module[r][m].round

(* reduce is called after all objects of the execution have been received. *)
ReduceHasAll ==
  \A r \in Ranks, m \in Modules : Handles(r, m, "Reduce") =>
    \A c \in Connections : c[2] \in ComputeInputs[m] =>
      LET n == module[r][m].round
          p == module[r][ModuleOf[c[1]]]
          sent == out[r][ModuleOf[c[1]]]
      IN  /\ p.round >= n /\ (p.round = n => ~p.prepared)
          /\ \A k \in DOMAIN sent :
               sent[k].type = "Object" /\ sent[k].port = c[1] => sent[k].round > n

(* When nothing is under way, no complete tuple of objects waits for       *)
(* compute, and rank 0 is ready for the next execution.                    *)
NothingLeft ==
  AtRest => \A m \in Modules :
    /\ ranksStarted[m] = 0 /\ ranksFinished[m] = 0
    /\ \A r \in Ranks :
         /\ ~mod[r][m].prepared /\ ~module[r][m].prepared
         /\ ComputeInputs[m] # {} => \E i \in ComputeInputs[m] :
              objects[r][i] = <<>> /\ numObject[r][i] = 0 /\ numReset[i] = 0 /\ numFinish[i] = 0

(* Everything comes to rest, and the hub has been told of each execution   *)
(* of a module that it is done.                                            *)
EventuallyDone ==
  <>[](AtRest /\ \A r \in Ranks, m \in Modules : done[m] = module[r][m].round)
=============================================================================
