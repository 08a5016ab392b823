------------------------------- MODULE Barrier -------------------------------
(***************************************************************************)
(* Barriers of scripts.  The master hub counts the running modules and     *)
(* sends the barrier to all hubs, their managers, and every module.  A     *)
(* module answers when it gets there, or when it is through with an        *)
(* execution it waits for.  From then on its manager holds back whatever   *)
(* it sends, until the master hub has the answers of all that it counted   *)
(* and releases the barrier.  Modules start, exit and crash meanwhile; the *)
(* hub they run at reports the end of a process, unless it knows of it.    *)
(***************************************************************************)
EXTENDS Naturals, Sequences, FiniteSets

CONSTANTS
  Hubs, Master,
  Size,           \* MPI ranks of the cluster of each hub
  Modules,
  HubOf,          \* the hub a module runs at
  Initial,        \* the modules that run from the start
  Renderers,      \* those with scheduling policy Ignore
  Killable, Crashable,
  Talkers,        \* bound: the modules that wait for others and send anything else
  AfterCrash,     \* bound: whether scripts ask for anything after a crash or a report
  Clients,        \* how many barriers may be requested at a time
  MaxBarriers, MaxExecutions  \* bounds on what scripts ask for

Slaves   == Hubs \ {Master}
Ranks(h) == 0..(Size[h] - 1)
Managers == UNION {{h} \X Ranks(h) : h \in Hubs}
Procs    == UNION {{m} \X Ranks(HubOf[m]) : m \in Modules}
ManagerOf(p) == <<HubOf[p[1]], p[2]>>

ASSUME BarrierAssumption ==
  /\ Master \in Hubs /\ Size \in [Hubs -> Nat \ {0}] /\ HubOf \in [Modules -> Hubs]
  /\ Initial \cup Renderers \cup Killable \cup Crashable \cup Talkers \subseteq Modules
  /\ IsFiniteSet(Modules)
  /\ {Clients, MaxBarriers, MaxExecutions} \subseteq Nat /\ AfterCrash \in BOOLEAN

VARIABLES
  active, uuid,     \* Hub::m_barrierActive, m_barrierUuid, of each hub
  participants,     \* Hub::m_numBarrierParticipants of the master
  reached,          \* Hub::m_reachedSet of the master
  tracked,          \* state of the modules in its StateTracker
  slaveQuit,        \* modules that the StateTracker of their slave has as Quit
  mgrActive, mgrUuid, mgrReached,  \* ClusterManager, on each rank
  runningMap,       \* ClusterManager::m_runningMap and m_crashedMap
  link,             \* messages between hubs, managers and ranks
  inbox, outbox,    \* messages from a manager to a process, and back
  upstream,         \* Module::m_upstreamIsExecuting
  delayed,          \* Module::m_delayedBarrierResponse, 0 if there is none
  answered,         \* the barrier that a process answered last
  alive,            \* "not yet", "up", "exited", "crashed", or "reported" by the hub
  requested,        \* barriers requested so far
  pending,          \* those whose requester waits
  executions,       \* bound: executions so far
  joined,           \* barriers requested before a module was started
  killed            \* modules sent a Kill

hub     == <<active, uuid, participants, reached, tracked, slaveQuit>>
manager == <<mgrActive, mgrUuid, mgrReached, runningMap>>
process == <<upstream, delayed, answered, alive>>
script  == <<requested, pending, executions, joined, killed>>
vars    == <<hub, manager, link, inbox, outbox, process, script>>

BarrierMsg(b)      == [type |-> "Barrier", id |-> b]
Reached(b, from)   == [type |-> "BarrierReached", id |-> b, from |-> from]
To(what, m)        == [type |-> what, module |-> m]
Exit(m, crashed)   == [type |-> "ModuleExit", module |-> m, crashed |-> crashed]
Forwarded(m, crashed) == [type |-> "Forwarded", module |-> m, crashed |-> crashed]
Work(b)            == [type |-> "Work", id |-> b]
HubId == "hub"

-----------------------------------------------------------------------------
(* Links are first in, first out.                                          *)
Down(h)        == <<"down", h>>       \* from the master to slave h
Up(h)          == <<"up", h>>
ToManager(h)   == <<"toManager", h>>  \* to the manager of rank 0
FromManager(h) == <<"fromManager", h>>
ToRank(g)      == <<"toRank", g[1], g[2]>>
Links == {Down(h) : h \in Slaves} \cup {Up(h) : h \in Slaves}
         \cup {ToManager(h) : h \in Hubs} \cup {FromManager(h) : h \in Hubs}
         \cup {ToRank(g) : g \in {g \in Managers : g[2] # 0}}

(* What goes to which link: nothing, some messages to one, or both of two. *)
Nothing == <<>>
Along(l, msgs) == [x \in {l} |-> msgs]
Both(f, g) == [l \in DOMAIN f \cup DOMAIN g |-> IF l \in DOMAIN f THEN f[l] ELSE g[l]]
AtHead(q, type) == q # <<>> /\ Head(q).type = type
Transmit(taken, out) ==
  link' = [l \in Links |->
    (IF l = taken THEN Tail(link[l]) ELSE link[l])
    \o (IF l \in DOMAIN out THEN out[l] ELSE <<>>)]
Deliver(out) == Transmit(<<>>, out)

(* As ToAll, this is a fault: the slaves are left out.                     *)
ToMaster(msg) == Along(ToManager(Master), <<msg>>)
(* sendSlaves and sendManager of the master; the way to module m.          *)
ToAll(msg) == [l \in {Down(h) : h \in Slaves} \cup {ToManager(Master)} |-> <<msg>>]
Route(m, msg) ==
  Along(IF HubOf[m] = Master THEN ToManager(Master) ELSE Down(HubOf[m]), <<msg>>)

(* The manager of a rank gets messages from its hub, or from rank 0, which *)
(* broadcasts what it gets.                                                *)
Source(g) == IF g[2] = 0 THEN ToManager(g[1]) ELSE ToRank(g)
Ranked(g, msgs) ==
  IF g[2] # 0 THEN Nothing
  ELSE [l \in {ToRank(f) : f \in {f \in Managers : f[1] = g[1] /\ f[2] # 0}} |-> msgs]
ToHub(g, msg) == IF g[2] = 0 THEN Along(FromManager(g[1]), <<msg>>) ELSE Nothing

Init ==
  /\ active = [h \in Hubs |-> FALSE] /\ uuid = [h \in Hubs |-> 0]
  /\ participants = 0 /\ reached = {}
  /\ tracked = [m \in Modules |-> IF m \in Initial THEN "running" ELSE "unknown"]
  /\ slaveQuit = {}
  /\ mgrActive = [g \in Managers |-> FALSE] /\ mgrUuid = [g \in Managers |-> 0]
  /\ mgrReached = [g \in Managers |-> {}]
  /\ runningMap = [g \in Managers |-> [m \in Modules |->
       IF m \in Initial /\ HubOf[m] = g[1] THEN "running" ELSE "unknown"]]
  /\ link = [l \in Links |-> <<>>]
  /\ inbox = [p \in Procs |-> <<>>] /\ outbox = [p \in Procs |-> <<>>]
  /\ upstream = [p \in Procs |-> FALSE] /\ delayed = [p \in Procs |-> 0]
  /\ answered = [p \in Procs |-> 0]
  /\ alive = [m \in Modules |-> IF m \in Initial THEN "up" ELSE "not yet"]
  /\ requested = 0 /\ pending = {} /\ executions = 0
  /\ joined = [m \in Modules |-> 0] /\ killed = {}

-----------------------------------------------------------------------------
(* Hub of the master *)

(* Faults: the hubs are counted, too, or only what runs at the master.     *)
CountHubs  == Hubs \cup {m \in Modules : tracked[m] = "running"}
CountLocal == {m \in Modules : tracked[m] = "running" /\ HubOf[m] = Master}
(* getNumRunning without those that have crashed.                          *)
NumRunning == {m \in Modules : tracked[m] = "running"}

MayAsk == AfterCrash \/ \A m \in Modules : alive[m] \notin {"crashed", "reported"}

RequestBarrier ==
  /\ MayAsk /\ requested < MaxBarriers /\ Cardinality(pending) < Clients
  /\ requested' = requested + 1
  /\ participants' = Cardinality(NumRunning)
  /\ IF NumRunning = {}
     THEN /\ Deliver(ToAll(Reached(requested', HubId)))
          /\ UNCHANGED <<active, uuid, pending>>
     ELSE /\ active' = [active EXCEPT ![Master] = TRUE]
          /\ uuid' = [uuid EXCEPT ![Master] = requested']
          /\ Deliver(ToAll(BarrierMsg(requested')))
          /\ pending' = pending \cup {requested'}
  /\ UNCHANGED <<reached, tracked, slaveQuit, manager, inbox, outbox, process, executions, joined,
                 killed>>

(* Fault: the barrier is complete when only one answer is missing.         *)
OneMissing(set) == Cardinality(set) + 1 >= participants
Complete(set)   == Cardinality(set) = participants

(* Module m has reached barrier b, by the message at the head of link l.   *)
Arrives(l, m, b) ==
  LET set == reached \cup {m} IN
  IF Complete(set)
  THEN /\ active' = [active EXCEPT ![Master] = FALSE]
       /\ reached' = {} /\ pending' = pending \ {b}
       /\ Transmit(l, ToAll(Reached(b, HubId)))
  ELSE /\ reached' = set /\ Transmit(l, Nothing)
       /\ UNCHANGED <<active, pending>>

Incoming == {FromManager(Master)} \cup {Up(h) : h \in Slaves}

MasterBarrierReached(l) ==
  /\ AtHead(link[l], "BarrierReached")
  /\ Arrives(l, Head(link[l]).from, Head(link[l]).id)
  /\ UNCHANGED <<uuid, participants, tracked, slaveQuit, manager, inbox, outbox, process,
                 requested, executions, joined, killed>>

(* A module that exits while the barrier is active has reached it.         *)
MasterModuleExit(l) ==
  /\ AtHead(link[l], "ModuleExit")
  /\ LET exit == Head(link[l]) IN
     /\ tracked' = [tracked EXCEPT ![exit.module] = IF exit.crashed THEN "crashed" ELSE "quit"]
     /\ IF active[Master] THEN Arrives(l, exit.module, uuid[Master])
        ELSE Transmit(l, Nothing) /\ UNCHANGED <<active, reached, pending>>
  /\ UNCHANGED <<uuid, participants, slaveQuit, manager, inbox, outbox, process, requested,
                 executions, joined, killed>>

Spawn(m) ==
  /\ tracked[m] = "unknown"
  /\ tracked' = [tracked EXCEPT ![m] = "running"]
  /\ joined' = [joined EXCEPT ![m] = requested]
  /\ Deliver(Route(m, To("Spawn", m)))
  /\ UNCHANGED <<active, uuid, participants, reached, slaveQuit, manager, inbox, outbox, process,
                 requested, pending, executions, killed>>

(* Kill of a module that has crashed only removes it: its exit comes back  *)
(* from the manager of the master.                                         *)
Kill(m) ==
  /\ MayAsk /\ m \in Killable \ killed /\ tracked[m] \in {"running", "crashed"}
  /\ killed' = killed \cup {m}
  /\ Deliver(IF tracked[m] = "crashed" THEN ToMaster(Exit(m, FALSE))
             ELSE Route(m, To("Kill", m)))
  /\ UNCHANGED <<hub, manager, inbox, outbox, process, requested, pending, executions, joined>>

(* Another module executes, from which m gets objects.                     *)
Execute(m) ==
  /\ MayAsk /\ m \in Talkers /\ executions < MaxExecutions /\ tracked[m] = "running"
  /\ executions' = executions + 1
  /\ Deliver(Route(m, To("Upstream", m)))
  /\ UNCHANGED <<hub, manager, inbox, outbox, process, requested, pending, joined, killed>>

-----------------------------------------------------------------------------
(* Hub of a slave *)

SlaveBarrier(h) ==
  /\ AtHead(link[Down(h)], "Barrier")
  /\ LET barrier == Head(link[Down(h)]) IN
     /\ active' = [active EXCEPT ![h] = TRUE] /\ uuid' = [uuid EXCEPT ![h] = barrier.id]
     /\ Transmit(Down(h), Along(ToManager(h), <<barrier>>))
  /\ UNCHANGED <<participants, reached, tracked, slaveQuit, manager, inbox, outbox, process,
                 script>>

SlaveBarrierReached(h) ==
  /\ AtHead(link[Down(h)], "BarrierReached")
  /\ active' = [active EXCEPT ![h] = FALSE]
  /\ Transmit(Down(h), Along(ToManager(h), <<Head(link[Down(h)])>>))
  /\ UNCHANGED <<uuid, participants, reached, tracked, slaveQuit, manager, inbox, outbox, process,
                 script>>

(* What a slave passes on as it is: messages for a module at its cluster,  *)
(* and the answers of its modules.                                         *)
RelayDown(h) ==
  /\ \E type \in {"Spawn", "Kill", "Upstream"} : AtHead(link[Down(h)], type)
  /\ Transmit(Down(h), Along(ToManager(h), <<Head(link[Down(h)])>>))
  /\ UNCHANGED <<hub, manager, inbox, outbox, process, script>>
RelayUp(h) ==
  /\ AtHead(link[FromManager(h)], "BarrierReached")
  /\ Transmit(FromManager(h), Along(Up(h), <<Head(link[FromManager(h)])>>))
  /\ UNCHANGED <<hub, manager, inbox, outbox, process, script>>

SlaveModuleExit(h) ==
  /\ AtHead(link[FromManager(h)], "ModuleExit")
  /\ LET exit == Head(link[FromManager(h)]) IN
     /\ slaveQuit' = slaveQuit \cup (IF exit.crashed THEN {} ELSE {exit.module})
     /\ Transmit(FromManager(h), Along(Up(h),
          IF active[h] THEN <<Reached(uuid[h], exit.module), exit>> ELSE <<exit>>))
  /\ UNCHANGED <<active, uuid, participants, reached, tracked, manager, inbox, outbox, process,
                 script>>

-----------------------------------------------------------------------------
(* The hub that started the process of a module *)

KnownQuit(m) == IF HubOf[m] = Master THEN tracked[m] = "quit" ELSE m \in slaveQuit

(* The exit handler reports a crash to the manager, unless the hub has     *)
(* heard that the module has quit.  So a module that was killed is         *)
(* reported, too, if its process has ended before that.                    *)
CheckChildProcesses(m) ==
  /\ alive[m] \in {"exited", "crashed"} /\ ~KnownQuit(m)
  /\ alive' = [alive EXCEPT ![m] = "reported"]
  /\ Deliver(Along(ToManager(HubOf[m]), <<Exit(m, TRUE)>>))
  /\ UNCHANGED <<hub, manager, inbox, outbox, upstream, delayed, answered, script>>

-----------------------------------------------------------------------------
(* ClusterManager of rank g[2] at hub g[1] *)

Local(g, m) == HubOf[m] = g[1]
LocalModules(g) == {m \in Modules : runningMap[g][m] = "running"}

(* Sends msg to the processes of modules ms on the rank of manager g.      *)
SendModules(g, ms, msg) ==
  inbox' = [p \in Procs |->
    IF ManagerOf(p) = g /\ p[1] \in ms /\ alive[p[1]] \in {"not yet", "up"}
    THEN Append(inbox[p], msg) ELSE inbox[p]]

(* What is left of a module that was reported is handled in the dispatch() *)
(* that removed it, before the next message for the manager.               *)
Arrived(g, type) ==
  /\ AtHead(link[Source(g)], type)
  /\ \A m \in Modules : Local(g, m) /\ runningMap[g][m] = "crashed"
       => outbox[<<m, g[2]>>] = <<>>

MgrBarrier(g) ==
  /\ Arrived(g, "Barrier")
  /\ LET barrier == Head(link[Source(g)]) IN
     /\ mgrActive' = [mgrActive EXCEPT ![g] = TRUE]
     /\ mgrUuid' = [mgrUuid EXCEPT ![g] = barrier.id]
     /\ SendModules(g, LocalModules(g), barrier)
     /\ Transmit(Source(g), Ranked(g, <<barrier>>))
  /\ UNCHANGED <<hub, mgrReached, runningMap, outbox, process, script>>

MgrBarrierReached(g) ==
  /\ Arrived(g, "BarrierReached")
  /\ LET release == Head(link[Source(g)]) IN
     /\ IF release.id = mgrUuid[g]
        THEN /\ mgrReached' = [mgrReached EXCEPT ![g] = {}]
             /\ mgrActive' = [mgrActive EXCEPT ![g] = FALSE]
        ELSE UNCHANGED <<mgrReached, mgrActive>>
     /\ Transmit(Source(g), Ranked(g, <<release>>))
  /\ UNCHANGED <<hub, mgrUuid, runningMap, inbox, outbox, process, script>>

(* The queues to the module are there before its process; the ranks wait   *)
(* for each other before it is started.                                    *)
MgrSpawn(g) ==
  /\ Arrived(g, "Spawn")
  /\ LET m == Head(link[Source(g)]).module IN
     /\ runningMap' = [runningMap EXCEPT ![g][m] = "running"]
     /\ alive' = IF \A f \in Managers \ {g} : f[1] = g[1] => runningMap[f][m] = "running"
                 THEN [alive EXCEPT ![m] = "up"] ELSE alive
  /\ Transmit(Source(g), Ranked(g, <<Head(link[Source(g)])>>))
  /\ UNCHANGED <<hub, mgrActive, mgrUuid, mgrReached, inbox, outbox, upstream, delayed, answered,
                 script>>

MgrToModule(g) ==
  /\ \E type \in {"Kill", "Upstream"} : Arrived(g, type)
  /\ LET msg == Head(link[Source(g)]) IN
     /\ SendModules(g, LocalModules(g) \cap {msg.module}, msg)
     /\ Transmit(Source(g), Ranked(g, <<msg>>))
  /\ UNCHANGED <<hub, manager, outbox, process, script>>

(* ModuleExit of m, from its process or from a hub.  Rank 0 tells the hub  *)
(* and all ranks; a module that is local is no longer held.                *)
Removed(g, m, crashed) ==
  [runningMap EXCEPT ![g][m] =
     CASE ~crashed -> "unknown" [] crashed /\ @ = "running" -> "crashed" [] OTHER -> @]
Release(g, m) ==
  IF Local(g, m) THEN [mgrReached EXCEPT ![g] = @ \ {m}] ELSE mgrReached

(* What the manager has put aside goes with the entry of the module.       *)
Forget(g, m) ==
  \E n \in 0..Len(outbox[<<m, g[2]>>]) :
    /\ (n # 0) => m \in mgrReached[g]
    /\ outbox' = [outbox EXCEPT ![<<m, g[2]>>] = SubSeq(@, n + 1, Len(@))]

MgrModuleExit(g) ==
  /\ \E type \in {"ModuleExit", "Forwarded"} : Arrived(g, type)
  /\ LET exit == Head(link[Source(g)])
         m == exit.module
         forwarded == exit.type = "Forwarded"
         unknown == ~forwarded /\ Local(g, m) /\ runningMap[g][m] = "unknown" IN
     /\ mgrReached' = IF forwarded \/ unknown THEN mgrReached ELSE Release(g, m)
     /\ IF forwarded \/ (g[2] = 0 /\ ~unknown)
        THEN /\ runningMap' = Removed(g, m, exit.crashed)
             /\ IF Local(g, m) THEN Forget(g, m) ELSE UNCHANGED outbox
        ELSE UNCHANGED <<runningMap, outbox>>
     /\ Transmit(Source(g),
          IF unknown \/ g[2] # 0 THEN Ranked(g, <<exit>>)
          ELSE Both(ToHub(g, Exit(m, exit.crashed)),
                    Ranked(g, <<exit, Forwarded(m, exit.crashed)>>)))
  /\ UNCHANGED <<hub, mgrActive, mgrUuid, inbox, process, script>>

Held(p) == p[1] \in mgrReached[ManagerOf(p)]

(* dispatch(): takes a message of a module that is not held.               *)
Take(p, type) ==
  /\ AtHead(outbox[p], type) /\ ~Held(p)
  /\ outbox' = [outbox EXCEPT ![p] = Tail(@)]

(* There is nowhere to put aside messages of a module that is gone.        *)
DropHeld(p) ==
  /\ outbox[p] # <<>> /\ Held(p) /\ runningMap[ManagerOf(p)][p[1]] # "running"
  /\ outbox' = [outbox EXCEPT ![p] = Tail(@)]
  /\ UNCHANGED <<hub, manager, link, inbox, process, script>>

TakeWork(p) ==
  /\ Take(p, "Work")
  /\ UNCHANGED <<hub, manager, link, inbox, process, script>>

TakeBarrierReached(p) ==
  /\ Take(p, "BarrierReached")
  /\ LET g == ManagerOf(p)
         b == Head(outbox[p]).id IN
     IF b # mgrUuid[g] THEN UNCHANGED <<mgrReached, link>>
     ELSE /\ mgrReached' = [mgrReached EXCEPT ![g] = @ \cup {p[1]}]
          /\ Deliver(ToHub(g, Reached(b, p[1])))
  /\ UNCHANGED <<hub, mgrActive, mgrUuid, runningMap, inbox, process, script>>

TakeModuleExit(p) ==
  /\ Take(p, "ModuleExit")
  /\ LET g == ManagerOf(p)
         m == p[1] IN
     IF runningMap[g][m] = "unknown" THEN UNCHANGED <<manager, link>>
     ELSE /\ mgrReached' = Release(g, m)
          /\ Deliver(Both(ToHub(g, Exit(m, FALSE)), Ranked(g, <<Forwarded(m, FALSE)>>)))
          /\ runningMap' = Removed(g, m, FALSE)
          /\ UNCHANGED <<mgrActive, mgrUuid>>
  /\ UNCHANGED <<hub, inbox, process, script>>

-----------------------------------------------------------------------------
(* Process p[1] of a module on rank p[2] *)

Receive(p, type) ==
  /\ alive[p[1]] = "up" /\ AtHead(inbox[p], type)
  /\ inbox' = [inbox EXCEPT ![p] = Tail(@)]

Answer(p, b) ==
  /\ outbox' = [outbox EXCEPT ![p] = Append(@, Reached(b, p[1]))]
  /\ answered' = [answered EXCEPT ![p] = b]

Respond(p, b) ==
  IF upstream[p] THEN delayed' = [delayed EXCEPT ![p] = b] /\ UNCHANGED <<outbox, answered>>
                 ELSE delayed' = delayed /\ Answer(p, b)

OnBarrier(p) ==
  /\ Receive(p, "Barrier")
  /\ Respond(p, Head(inbox[p]).id)
  /\ UNCHANGED <<hub, manager, link, upstream, alive, script>>

OnUpstream(p) ==
  /\ Receive(p, "Upstream")
  /\ upstream' = [upstream EXCEPT ![p] = TRUE]
  /\ UNCHANGED <<hub, manager, link, outbox, delayed, answered, alive, script>>

(* Fault: the delayed answer is forgotten.                                 *)
DropDelayed(p) == delayed' = [delayed EXCEPT ![p] = 0] /\ UNCHANGED <<outbox, answered>>
RespondDelayed(p) ==
  IF delayed[p] = 0 THEN UNCHANGED <<outbox, answered, delayed>>
  ELSE Answer(p, delayed[p]) /\ delayed' = [delayed EXCEPT ![p] = 0]

(* End of reduceWrapper, or cancelExecute.  A renderer never gets there:   *)
(* handleExecute returns early for it.                                     *)
FinishExecution(p) ==
  /\ alive[p[1]] = "up" /\ upstream[p] /\ p[1] \notin Renderers
  /\ upstream' = [upstream EXCEPT ![p] = FALSE]
  /\ RespondDelayed(p)
  /\ UNCHANGED <<hub, manager, link, inbox, alive, script>>

(* Any other message; the bound is one of a kind under way.                *)
SendWork(p) ==
  LET work == Work(answered[p]) IN
  /\ alive[p[1]] = "up" /\ p[1] \in Talkers
  /\ \A i \in DOMAIN outbox[p] : outbox[p][i] # work
  /\ outbox' = [outbox EXCEPT ![p] = Append(@, work)]
  /\ UNCHANGED <<hub, manager, link, inbox, process, script>>

(* The ranks get Kill together and wait for each other before they quit;   *)
(* rank 0 tells its manager.  The process ends any time later.             *)
Quit(m) ==
  /\ alive[m] = "up"
  /\ \A r \in Ranks(HubOf[m]) : AtHead(inbox[<<m, r>>], "Kill")
  /\ alive' = [alive EXCEPT ![m] = "exited"]
  /\ inbox' = [p \in Procs |-> IF p[1] = m THEN <<>> ELSE inbox[p]]
  /\ outbox' = [outbox EXCEPT ![<<m, 0>>] = Append(@, Exit(m, FALSE))]
  /\ UNCHANGED <<hub, manager, link, upstream, delayed, answered, script>>

(* What a process has sent is in the queue of its manager when it crashes. *)
Crash(m) ==
  /\ m \in Crashable /\ alive[m] = "up"
  /\ alive' = [alive EXCEPT ![m] = "crashed"]
  /\ inbox' = [p \in Procs |-> IF p[1] = m THEN <<>> ELSE inbox[p]]
  /\ UNCHANGED <<hub, manager, link, outbox, upstream, delayed, answered, script>>

-----------------------------------------------------------------------------
MasterHub == \E l \in Incoming : MasterBarrierReached(l) \/ MasterModuleExit(l)
SlaveHub(h) == SlaveBarrier(h) \/ SlaveBarrierReached(h) \/ RelayDown(h) \/ RelayUp(h) \/ SlaveModuleExit(h)
Manager(g) == MgrBarrier(g) \/ MgrBarrierReached(g) \/ MgrSpawn(g) \/ MgrToModule(g)
              \/ MgrModuleExit(g)
FromProc(p) == DropHeld(p) \/ TakeWork(p) \/ TakeBarrierReached(p) \/ TakeModuleExit(p)
Proc(p) == OnBarrier(p) \/ OnUpstream(p) \/ FinishExecution(p)

Next ==
  \/ RequestBarrier
  \/ MasterHub
  \/ \E m \in Modules : Spawn(m) \/ Kill(m) \/ Execute(m) \/ Quit(m) \/ Crash(m)
                        \/ CheckChildProcesses(m)
  \/ \E h \in Slaves : SlaveHub(h)
  \/ \E g \in Managers : Manager(g)
  \/ \E p \in Procs : FromProc(p) \/ Proc(p) \/ SendWork(p)

(* Hubs and managers serve their connections in turn, modules their queue, *)
(* and executions end.                                                     *)
Fairness ==
  /\ \A l \in Incoming : WF_vars(MasterBarrierReached(l) \/ MasterModuleExit(l))
  /\ \A h \in Slaves : /\ WF_vars(SlaveBarrier(h) \/ SlaveBarrierReached(h) \/ RelayDown(h))
                       /\ WF_vars(SlaveModuleExit(h) \/ RelayUp(h))
  /\ \A g \in Managers : WF_vars(Manager(g))
  /\ \A p \in Procs : WF_vars(FromProc(p)) /\ WF_vars(Proc(p))
  /\ \A m \in Modules : WF_vars(Quit(m))
Spec == Init /\ [][Next]_vars /\ Fairness
-----------------------------------------------------------------------------
TypeOK ==
  /\ active \in [Hubs -> BOOLEAN] /\ uuid \in [Hubs -> 0..MaxBarriers]
  /\ participants \in 0..Cardinality(Modules) /\ reached \subseteq Modules
  /\ tracked \in [Modules -> {"unknown", "running", "crashed", "quit"}]
  /\ mgrActive \in [Managers -> BOOLEAN] /\ mgrUuid \in [Managers -> 0..MaxBarriers]
  /\ mgrReached \in [Managers -> SUBSET Modules]
  /\ runningMap \in [Managers -> [Modules -> {"unknown", "running", "crashed"}]]
  /\ upstream \in [Procs -> BOOLEAN]
  /\ delayed \in [Procs -> 0..MaxBarriers] /\ answered \in [Procs -> 0..MaxBarriers]
  /\ slaveQuit \subseteq Modules
  /\ alive \in [Modules -> {"not yet", "up", "exited", "crashed", "reported"}]
  /\ pending \subseteq 1..requested /\ requested \in 0..MaxBarriers
  /\ joined \in [Modules -> 0..MaxBarriers] /\ killed \subseteq Modules

(* A barrier counts wrong if a module crashes, if the process of a killed  *)
(* one ends before its hub knows that it has quit, or if a module exits    *)
(* that was started after the request.                                     *)
Counted(b) ==
  \A m \in Modules : /\ alive[m] \notin {"crashed", "reported"}
                     /\ m \in killed => joined[m] < b
AllCounted == \A b \in 1..requested : Counted(b)

(* What Hub::handlePriv asserts of Barrier (hub.cpp:4297-4299) and of      *)
(* BarrierReached (4338-4339): a barrier is requested when none is active  *)
(* and nothing is left of the last one, and an answer that arrives at a    *)
(* hub is one to the barrier that is active there.                         *)
HubAssertions ==
  /\ Cardinality(pending) < Clients => ~active[Master] /\ reached = {}
  /\ \A l \in Incoming : AtHead(link[l], "BarrierReached") =>
       active[Master] /\ uuid[Master] = Head(link[l]).id
  /\ \A h \in Slaves :
       /\ AtHead(link[Down(h)], "Barrier") => ~active[h]
       /\ AtHead(link[Down(h)], "BarrierReached") =>
            active[h] /\ uuid[h] = Head(link[Down(h)]).id

(* What ClusterManager::handlePriv asserts of BarrierReached               *)
(* (clustermanager.cpp:2060): it comes while a barrier is active.          *)
ManagerAssertion ==
  /\ \A p \in Procs : AtHead(outbox[p], "BarrierReached") /\ ~Held(p) => mgrActive[ManagerOf(p)]
  /\ \A g \in Managers : AtHead(link[Source(g)], "BarrierReached") => mgrActive[g]

(* The assertions of hubs and managers hold: no answer or release meets    *)
(* another barrier than its own, whatever is started or killed meanwhile.  *)
AsExpected == AllCounted => HubAssertions /\ ManagerAssertion

Released(b) == b \in 1..requested /\ b \notin pending

(* When a barrier is released, all that its modules had sent before they   *)
(* answered it has been handled: what the requester sees is the effect of  *)
(* everything that went before.  Modules that were started later are not   *)
(* waited for.                                                             *)
NothingBefore ==
  \A p \in Procs : \A i \in DOMAIN outbox[p] : \A b \in 1..MaxBarriers :
    outbox[p][i].type = "Work" /\ AllCounted /\ Released(b) /\ b > joined[p[1]] => outbox[p][i].id >= b

(* A requester gets its reply, and no module is held back for ever, as     *)
(* long as no hub has to report the end of a module.                       *)
EveryBarrierReleased == pending # {} ~> pending = {} \/ ~AllCounted
NoneHeldForEver ==
  (\E p \in Procs : Held(p)) ~> (\A p \in Procs : ~Held(p)) \/ ~AllCounted
=============================================================================
