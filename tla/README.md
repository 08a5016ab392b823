# A TLA+ model of vistle

[vistle](../src/README.md) is a distributed visualization system.  A workflow is
a graph of *modules* (programs, each running on the MPI ranks of one cluster)
connected from output to input ports.  Modules exchange immutable data objects
through shared memory on a node, and through messages that carry only object
names.  Each cluster is managed by a *hub* and one *manager* process per rank.
When an object has to be used on a different cluster, the managers' `DataManager`s
transfer it by name.

This directory models the parts of the manager and of the module library in
which many threads or processes meet: the transfer of remote objects, the
blocked message queue of a module, the cache of results that the compute
threads of a module share, the control of execution along a workflow, barriers
over all hubs, the lockstep of the ranks of a renderer, and the threads of a
reader.  It contains TLA+ modules, TLC models and TLAPS proofs.
All source paths below are relative to `src/lib/vistle/` unless they start with
`src/`.

    tlc -workers 4 -config MCTransferChain.cfg MCTransfer.tla    # a model run
    tlapm ModuleQueue_proofs.tla                                 # the proofs of a module

`PROJECT.json` lists the components, the runs, the source lines of every
definition, the hazards and the theorems.

## 1. Inventory

Component | State | Operations | Interacts with | Hard about it | Correct when
--- | --- | --- | --- | --- | ---
`DataManager` (`manager/datamanager.cpp`) | `m_inTransitObjects`, `m_outstandingAdds`, `m_requestedObjects`, `m_requestedArrays` with handlers, the kept object | `prepareTransfer`, `completeTransfer`, `requestObject`, `requestArray`, `notifyTransferComplete`, `handlePriv(RequestObject/SendObject/AddObjectCompleted)` | `ClusterManager`, archive loading, the other hubs by TCP | one task per reply; look-ups outside the mutexes; callbacks on any thread; no answer for a released object | a waiting module gets an intact object; the source is told to let go once, and not before
Archive loading (`core/object_impl.h`, `core/shm_obj_ref_impl.h`, `core/shm_reference_impl.h`, `core/archives.cpp`, `core/archive_loader.cpp`) | the object's `unresolvedReferences`, restoring flag and `object_mutex` | `loadObject`, loading of references, `referenceResolved` | `DataManager` as fetcher, shared memory | nested asynchronous loads; counter and flag are separate | the completion handler is called once, when nothing is missing
`ClusterManager`: AddObject (`manager/clustermanager.cpp`) | per module `blocked`, `blockers`, `blockedMessages` | `addObjectSource`, `addObjectDestination`, `Module::block/unblock/send/update` | `DataManager`, `MessageQueue` | blockers are released out of order by other threads | order is preserved; nothing stays behind
`MessageQueue` (`core/messagequeue.cpp`) | `m_queue`, the bounded shared-memory queue | `send`, `progress`, `receive` | module processes | the queue is full | FIFO, nothing lost
`ResultCache` (`module/resultcache_impl.h`) | generations of maps of locked entries, borrow counters | `getOrLock`, `storeAndUnlock`, `clear`, `enable` | compute threads of a module | entries are used outside `m_mutex` while generations are purged | no entry is freed while used; results are current; nobody waits for ever
Execution control (`manager/clustermanager.cpp`, `manager/portmanager.cpp`) | per module `prepared`, `reduced`, `ranksStarted`, `ranksFinished`, `busyCount`, `delayedMessages`; object lists of ports | `handlePriv(Execute)`, `handlePriv(ExecutionProgress)`, `checkExecuteObject`, `addObject`, `popObject`, `popReset`, `popFinish` | all ranks through rank 0, `Communicator` | ranks start and finish in any order; connections change meanwhile | every module gets prepare, its objects in groups, reduce; a pipeline comes to rest
Barrier (`control/hub.cpp`, `manager/clustermanager.cpp`) | `m_barrierActive`, `m_barrierUuid`, `m_reachedSet` on hubs and managers, `m_numBarrierParticipants`, messages put aside | `Barrier`, `BarrierReached`, `ModuleExit` | scripts, all hubs, managers and modules | modules start, exit, crash and execute meanwhile; answers over three hops | everyone passes, after all that went before and before anything that comes after
`Communicator` (`manager/communicator.cpp`) | pending MPI sends, the rank-0 role | `forwardToMaster`, `broadcastAndHandleMessage`, `dispatch` | MPI, hub, `ClusterManager` | order between local and broadcast messages | every rank handles broadcasts in one order
Module loop (`module/module.cpp`) | `messageBacklog`, execution state | `getNextMessage`, `processMessagesSynced`, `handleExecute`, `prepareWrapper`, `reduceWrapper` | manager, other ranks by collectives | ranks have to enter collectives together | no rank waits alone
`ObjectCache` (`module/objectcache.cpp`) | objects per port, generations | `addObject`, `getObjects`, `clearOld` | module loop | small | repeated executions see the same objects
Shared memory objects (`core/shm.cpp`, `core/shm_reference.h`, `core/object.cpp`) | reference counts, attachments, names | find by name, ref, unref, attach | all processes of a node | counts reach zero while others look up | nothing is used after it is freed
Renderer (`renderer/renderer.cpp`) | render mode, `m_receivePolicy`, `m_numObjectsPerFrame` | `dispatch`, `handleAddObject`, `changeParameter` | module loop, managers of all ranks | ranks hold different messages at the same time | all ranks meet in the same collective operations, and have the objects they are to render
`Reader` (`module/reader.cpp`) | `m_tokens`, per token `m_finished`, `m_result`, `m_ports` | `prepare`, `readTimestep`, `waitForReaders`, `Token::addObject`, `waitDone`, `waitPortReady`, `setPortReady` | threads, ports of the module | units are read in parallel, and fail | objects of a port in order; failures are noticed; no thread waits for ever
Hub (`control/hub.cpp`) | processes, slaves, queued messages | spawn, quit, routing, session | everything | start-up and shut-down | all messages reach their hub
`StateTracker`, `PortTracker` (`core/statetracker.cpp`, `core/porttracker.cpp`) | modules, ports, connections, parameters | one handler per message | every participant | replayed in different processes | all replicas agree
Others: `MessageRouter`, data proxy and tunnels, parameters, renderers, in-situ interfaces, the algorithm modules, the user interface | | | | | not protocol code, or byte streams; see `PROJECT.json`

The flow that the present modules cover:

    source rank                           destination rank
    ClusterManager::addObjectSource  -->  ClusterManager::addObjectDestination
      DataManager::prepareTransfer          found by name: send to the module
                                            else: block the module, requestObject
    DataManager                      <--  RequestObject
      handlePriv(RequestObject)      -->  SendObject, one task each
                                            loadObject, which requests what it refers to
                                            completionHandler: unblock, notify
      completeTransfer               <--  AddObjectCompleted

Completion handlers run on the threads of the `DataManager`.  They end in
`Module::unblock`, which is where `ObjectTransfer` ends and `ModuleQueue` begins.

## 2. Plan

Order | Module | Composes | Status
--- | --- | --- | ---
1 | `ObjectTransfer`, refining the abstract `ObjectDelivery` | DataManager, archive loading, AddObject of ClusterManager | done; `ObjectTransfer_proofs`: invariants proved, refinement checked
2 | `ModuleQueue` and `ModuleQueue_proofs` | ClusterManager::Module, MessageQueue | done, proved
3 | `ResultCache` and `ResultCache_proofs` | | done, proved
4 | `Execution`: Execute, ExecutionProgress, checkExecuteObject, object counters of the ports, execution stages of the modules | managers and 2-3 modules on 2 ranks | done; `Execution_proofs`, `ExecutionStreams_proofs`: safety proved for steered workflows
5 | `Barrier`: Barrier, BarrierReached, ModuleExit; liveness: everyone passes | hubs, managers, module processes | done; `Barrier_proofs`: safety proved for one rank at each hub
6 | `RenderSync`: processMessagesSynced, dispatch and handleAddObject of a renderer on 2 ranks; deadlock | managers and processes of the ranks | done; `RenderSync_proofs`: safety proved
7 | `Reader` and `Reader_proofs`: timesteps, partitions and tokens | main thread and readers | done, proved
8 | abstract `Pipeline` (prepare, compute, reduce, once per execution), implemented by `Execution`; cancellation | `Execution` | planned
9 | `ShmRefcount`: ref, unref, look-up, attachments; abstract: no use after free | objects and arrays | planned
10 | nested `ResultCache`: two instances in the order in which modules use them; deadlock | `ResultCache` twice | planned
11 | `ObjectCache`, `StateTracker`, more of `Hub` | | planned

Theorems worth proving: order of delivery (`ModuleQueue`, done); that no entry of
`ResultCache` is freed while it is used and that results are current (done); that
handlers and references are counted right in `ObjectTransfer` (done); that the ranks of a
renderer stay in step (done); that the answers to a barrier are complete (`Barrier`, done); that prepare
and reduce alternate in `Execution` and no module computes without its objects (done, for modules that are not executed
directly and have no gang scheduling); then that it implements `Pipeline`; no use after free in `ShmRefcount`.

## 3. ObjectTransfer

One source rank and one destination rank.  The destination has a main thread
(`Main`, the dispatch loop of `ClusterManager`) and tasks (`std::async` of
`DataManager`, one for every SendObject).  A thread is the stack of what it still has to do.
A frame is one step that the code takes under one lock, or one access to shared
memory; a function call pushes the frames of the callee in front.
Recursion (loading an object requests another one, completing an object
resolves a reference of an object that may complete in turn) is therefore of
any depth, and every thread can be overtaken between any two steps.

TLA+ | Code
--- | ---
`Announce` | `addObjectSource`: `prepareTransfer`, then `sendHub`
`inTransitObjects` | `m_inTransitObjects`: kept alive for the destination
`ServeRequest` | `handlePriv(RequestObject)`; an object that is gone is not answered
`CompleteTransfer` | `completeTransfer`
`HandleAddObject`, `SendAddObject`, `BlockModule` | `handlePriv(AddObject)`, `addObjectDestination`: one look-up by name, then per port
`Want`, `Enlist` | `requestObject`/`fetchArray`: look-up without lock, then join or open a request under the mutex
`Unblock` | the lambda of `addObjectDestination`
`Resolve`, `LastResolved` | `ObjectData::referenceResolved`: first the counter, then the flag
`Complete` | the `completionHandler` in `handlePriv(SendObject)`
`LoadObject`, `Restore`, `LoadReference`, `GetObject`, `FinishRestore`, `CheckComplete` | `Object::loadObject` and the `load` of references; `Restore` takes `object_mutex`
`KeepObject` | after `loadObject`: `OutstandingObject::obj` is set if the request is still open
`LoadArray`, `FillArray`, `ArrayDone` | `handlePriv(SendObject)` for arrays, `ArrayLoader`
`memory` | a name is `absent`, `fresh` (created, not restored), `restoring` or `restored`

What is abstracted.  One step for `Data::isComplete` (it reads the counter
and the flag).  Archives are the sequence of names they refer to.  Objects at the
destination are not deleted while they are transferred, and no module exits or
is disconnected.  Archive loading and saving succeed.  A policy that sends an
AddObject to all ranks and the report of `updateStatus` are left out; the counters
of the ports are in `Execution`.  Compressed and translated
names do not appear.

### What the runs show

`transfer_chain` (3 objects, 1 array, 2 AddObjects, 3 tasks): when every name is
referred to only once, and every object refers to at most one other name, the
transfer implements `ObjectDelivery`: only what is intact (`Intact`: everything
reachable is restored) is delivered to a port or released by the source, each of
them once, and both happen eventually.  Beneath it: no unresolved reference is
without somebody who will resolve it (`NoResolverMissing`), the source of every
retained object will be notified, and just once (`TransferAccounted`), and the
assertion in the completion handler holds (`CompletionFindsObject`).

`transfer_mixed` (2 objects, 1 array, 3 AddObjects, 2 tasks): what holds whatever is shared
between objects, ports and messages.  The handler that unblocks a port is never
lost or duplicated (`BlockedHasHandler`), and the counter of unresolved
references is never decremented below zero (`NoResolverTooMany`).

`transfer_two_fields` leaves this chain in one respect, an object with two arrays, and
finds `CompletionFindsObject` violated: `referenceResolved` takes the counter to zero
for the first array, the restoring thread counts the second array and finishes,
and only then is the flag read (`core/object.cpp:338`), so that the handler runs for an
incomplete object.

`MCTransfer` has three more instances outside these limits, with two properties that are parts of
`DeliverySpec`, for whoever changes this code.  They are not among the runs; give
their definitions to `Fields`, `Carries` and `Ports` in a copy of `MCTransferChain.cfg` to see them:

Instance | Property | What happens
--- | --- | ---
two objects refer to a third (`SharedFields`, `SharedCarries`, `ChainPorts`) | `EventuallyUnblocked` | the sub-object appears between `shm_obj_ref::load`, which counts it as unresolved, and `getObject` (`core/archives.cpp:216`), which returns it without calling the handler: the counter never reaches zero
one object for two ports (`LeafFields`, `OneCarries`, `TwoPorts`) | `DeliveredIntact` | between `createEmpty` and `setRestoring(true)` (`core/object_impl.h:117`) the object counts as complete, and the second port gets it empty
one object announced twice (`LeafFields`, `ResendCarries`, `ChainPorts`) | `TransferAccounted` | it arrives between the look-ups of `handlePriv(AddObject)` and `requestObject`, which returns without `m_outstandingAdds` (`manager/datamanager.cpp:641`): no AddObjectCompleted is sent

Bounds.  Three tasks: two that meet in a table and a third with a later answer.
The number of tasks limits how many run at the same time, not how many there are.
Three objects and one array make the deepest chain that still
distinguishes a middle object, whose completion resolves a reference, from a
leaf and a root.  `TaskSymmetry` is used for invariants only.

Fairness.  Weak fairness on each thread (a started task runs; waiting for
`object_mutex` ends because the holder's stack is finite and its mutex is taken
by nobody twice in a row), on each message in flight (TCP between hubs that stay
connected) and on the dispatch of AddObject.  No fairness is assumed on
`Announce`.  The code has no timeout, so all of this is needed.

Deadlock is not checked: when everything is delivered the system rests.

### Proof (`ObjectTransfer_proofs`)

For any objects, arrays, references, ports and number of threads, and whatever is shared:
`BlockedModulesHaveHandlers` (`BlockedHasHandler`), `ResolversAreCounted` (`NoResolverTooMany`) and
`TypeCorrect`.  They rest on `TransferAssumption`, which says among
other things that `Ports[a]` is a sequence without duplicates: the code goes through the ports that
an output is connected to as a `std::set` (`Port::ConstPortSet`, `core/port.h:57`).

Both properties count where a handler is.  The places are in the stacks of all threads and in
the handler lists of all open requests, so the invariant is about cardinalities
of sets of places: lemma `Ran` says how they change when a thread replaces the
frame on top of its stack, `HandlersReplaced` how they change with a list.
`OneUnblocker` and `ResolversCounted` are the properties in this form.  They are not inductive: a port
that is blocked twice for one object by one AddObject would have two handlers.
`BlockedOnce` excludes this, by counting the messages and frames that are still to block it
(each is sent once, and a loop over ports visits each once).  `StackOK` keeps the
counts numbers, only finitely many places are in use at a time, and says that the main
thread never restores objects.

Not proved, with the reason:

- `NoResolverMissing` and `CompletionFindsObject` are properties of the instance of `transfer_chain`; they
  are false for arbitrary references, as the table above and the finding show.
- `TransferAccounted` is false when an object is announced twice (table above).  It would need the
  condition that each is announced once, and to count handlers for objects that arrive between two look-ups.
- `DeliverySpec`, the refinement, has fairness, and its safety part rests on the former two.

## 4. ModuleQueue

A module's messages are numbered in the order in which the main thread sends
them.  Some of them are blockers: AddObjects for which the module has to wait.
`Block` and `Send` are the two halves of `sendMessage`, which takes
`messageMutex` twice, so that `Unblock` steps of other threads come in between.
`Unblock` is `Module::unblock`, in its two cases (`UnblockFront`, `UnblockLater`);
`Update` is the regular `progress()`, and `Receive` is the module.  `IsSame` is
the comparison of uuid and type.

`queue` (8 messages, 4 blockers of which two are adjacent, capacity 2): the
module receives every message once, in order, with its object (`InOrder`,
`AllReceived`), and the assertions of `unblock` hold.  Two adjacent blockers, one that is
followed by another message and one near the end cover each shape of
`blockedMessages`; the capacity of 2 makes both `send` and `unblock` meet a full
queue.

A limit that can be seen with `Uuid <- SharedUuid`: when an output is connected to
*two* input ports of the same module, `addObjectDestination` sends the AddObject
twice with one uuid, and `unblock` (`manager/clustermanager.cpp:108`) takes the
second for the first.  The first port's object is lost, the module stays blocked, and
`InOrder` is violated.

Fairness.  Each requested object arrives, the manager dispatches (`Update`), the module
receives, and a thread that has called `block` goes on to `send`.

### Proof (`ModuleQueue_proofs`)

For every `NumMsgs`, every set of `Blockers` and every `Capacity`, and under
`UuidsDiffer` (messages to one module have different uuids, that is, no output is
connected to two of its input ports):

- `TypeCorrect`: `Spec => []TypeOK`; in particular `mq` never exceeds its capacity,
- `DeliveredInOrder`: `Spec => []InOrder`,
- `UnblockAssertions`: `Spec => []UnblockFindsMessage`.

`InOrder` says nothing about what is still queued and so is not inductive.  `IInv`
adds that everything sent is one stream cut into four pieces: `received`, `mq`,
`queue`, all with their objects (`OutInOrder`), and `blockedMessages`, in which a
message lacks its object exactly if it is among the blockers (`HeldInOrder`).  The
`blockers` are in ascending order and are those sent and not yet unblocked
(`BlockersInOrder`), the first one is at the front of `blockedMessages`
(`FrontIsBlocker`), and while the main thread is between `block` and `send`, the
last one is the next message (`BlockingNext`).

`SendToQueueInOrder` is the lemma about `MessageQueue::send`: a stream handed to
the queue stays a stream over the cut between `mq` and `queue`.  It rests on
`StreamConcat`, `StreamCut` and `FitsBound`, and is used by four of the steps.
`FlushedBetween` says that what `unblock` sends is exactly what lies between two blockers;
`BlockerRemoved` and `FirstSameFinds` are about the removal of a later blocker.
One lemma per action shows that it preserves `IInv`; `Invariance` puts them together.

## 5. ResultCache

What the code does while holding `m_mutex` is one step; `Read` is the time under
the entry's mutex.  `m_purgedGenerations` is an explicit variable, so a position
in the deques is computed as in the code.  An entry is identified by its slot
(the absolute position of its map) and its key, independent of
`m_generation`, so that the model would show a pointer into a map that was purged.

`result_cache` (3 threads, 1 key, 2 clears; thread `t1` may return early): borrow
counters are exact, no entry is freed while it is used, the assertions of
`modifyBorrowCount` hold, only one thread computes an entry, no result is older
than the last `clear()` before the call, and old generations are purged as soon as
nobody borrows from them.  Three threads are needed for a holder and two waiters;
two clears make three generations, so that a middle one can become empty first.
Entries of different keys share nothing but the counters of their generation; the
proofs below are for any set of keys, and the safety properties also hold with two.

`ServedUnlessAbandoned`: whoever waits for an entry gets its result, unless the one
who locked it returned without storing one.  Fairness: a compute thread continues, and
an entry, once free, is never locked again.  The exception is needed:
`MapDrape::compute` returns between `getOrLock` and `storeAndUnlock` for a
geometry without coordinates (`src/module/filter/MapDrape/MapDrape.cpp:296`), after which
everyone who asks for the same geometry waits for ever.

### Proof (`ResultCache_proofs`)

For any `Threads`, `Keys`, `Abandoners` and `MaxClears` that satisfy
`CacheAssumption` (threads and keys are finitely many), six theorems
`Spec => []P`: `TypeCorrect` (`TypeOK`), `BorrowsAlwaysCounted` (`BorrowsCounted`),
`EntriesStayAlive` (`EntriesAlive`), `OneThreadComputes` (`OneComputes`),
`ResultsCurrent` (`ResultCurrent`) and `OldGenerationsArePurged` (`OldGenerationsPurged`).
These are all the safety properties of the run.

None of them is inductive.  `IInv` relates positions and generations, which the
code keeps in two counters and in every entry: the last map belongs to
`m_generation` and the slot of an entry *is* its generation (`Numbered`,
`EntryRight`), so a thread that borrows from the generation of its entry keeps
this entry's own map (`CallRight`), and purging, which stops at the first counter
that is not zero, cannot reach it.  What is in slot `s` was made after
`s + clears - m_generation` calls of `clear`: a difference that `clear` does not
change once there is a map, because it increases both.  That makes results of
one slot equal (`CallRight`, `EntryRight`), and current.  `OneHolder` and
the equivalence in `EntryRight` say whose an entry's lock is.

Every action of the code that ends in `purgeOldGenerations` first changes maps and
counters, so `Consistent` is stated of any such values: `PurgeConsistent` shows that purging
preserves it, and `GenerationAdded`, `MissConsistent`, `HitConsistent` and the
lemmas for `Return` and `Store` show it for what was changed before.
`PurgeableFacts` says that the number of generations `purgeOldGenerations` removes exists,
from the least number of a set (`LeastNatural`); `BorrowAdded`, `BorrowReturned`,
`BorrowKept` and `LeftAdded` count borrowers.  One lemma per action shows that it
preserves `IInv`, and `Invariance` puts them together.

## 6. Execution

A workflow on one cluster: on each rank a manager, and a process of each module.
Rank 0 of the managers collects the progress of all ranks.

    user -> hub -> rank 0 --ComputeExecute--> all managers -> source module on each rank
    source on rank r --Start, objects, Finish--> manager r
    manager r: objects go to the successors on rank r, which may be told to compute
    manager r --Start, Finish--> rank 0: all ranks and all inputs? --Prepare, Reduce--> all managers

TLA+ | Code
--- | ---
`mod` | `Module::prepared`, `reduced` of each manager
`numObject`, `numReset`, `numFinish` | the counters of `PortManager`; the last two are used on rank 0 only
`ranksStarted`, `ranksFinished`, `objectCount` | the same members, on rank 0
`down`, `up` | broadcasts by rank 0; messages to rank 0 (`forwardToMaster`). `Cast` is `broadcastAndHandleMessage`
`queue`, `out` | messages from a manager to a module, and back
`module`, `objects` | `m_prepared`, `m_reduced`, `m_withOutput` and what is left of `handleExecute` (`rest`); the objects at the input ports
`HandleAddObject`, `Deliver`, `CheckExecuteObject` | `handlePriv(AddObject)`, `addObjectDestination`, `checkExecuteObject`
`HandleBroadcast` (`Prepare`, `Complete`, `ComputeObject`), `HandleRequest` | `handlePriv(Execute)` of a message that was, or was not, broadcast
`HandleProgress`, `HandleForwarded`, `Progress` | `handlePriv(ExecutionProgress)` on the ranks and on rank 0
`HandleOwn` | a request of rank 0 for its own objects (lazy gang scheduling)
`Receive`, `Stage`, `Sync` | `handleExecute` with `prepareWrapper` and `reduceWrapper`; `Sync` is a collective operation of all ranks
`UserExecute` | `Hub::handlePriv(Execute)`, which sends to rank 0 for broadcast

Rank 0 handles what it broadcasts before anything else: `Idle(0)` is a guard of all
its other handlers.  The other ranks get a broadcast whenever MPI delivers
it, between any two messages of their own modules.  An object carries nothing but `round`, the
number of the execution of its creator; this number is not in the code and no
guard depends on it.  A module that makes objects of its cache on a direct execution
(`Produces`) finds the same number there each time.

`MCExecution` has two workflows on two ranks.  The *pair* S -> D is the smallest
in which progress and objects meet; in the *diamond* S -> T -> D, S -> D the
inputs of D are fed over paths of different length, and T waits for all ranks
(`OverAll`), the others only for their own (`Locally`).

Run | Instance | Shows
--- | --- | ---
`execution_overlap` | pair, S executed twice, the second time whenever the user likes | the assertions of the manager (`FlagsAgree`) and of the module (`ModuleReady`) hold: prepare, compute with an object at every input, reduce
`execution_diamond` | diamond, S executed twice, T makes none or one object of one, S nothing on rank 1 | D never mixes objects of two executions (`SameExecution`) and is reduced last (`ReduceHasAll`), even when a module has nothing to offer and sends an `Empty`
`execution_lazy_gang` | pair, D with lazy gang scheduling, S executed twice | every execution ends and is reported to the hub (`EventuallyDone`), so that no rank waits in a collective operation; nothing is left behind (`NothingLeft`)

Limits that can be seen with other constants of `MCExecution`
(`ReducePolicy <- OverAllD`; `Overlap = TRUE` for the last two):

- `LazyD` of `execution_lazy_gang` violates `FlagsAgree`, even with `SourceOnce`: a rank that
  is told to prepare late asks for compute after rank 0 has broadcast reduce
  (`manager/clustermanager.cpp:1847` promises the opposite, and the assertion at line 1301
  fails).  Without assertions the module computes after reduce.
- `MaxExecutes <- BothOnce` violates `FlagsAgree`: when the user executes D while it is
  prepared because of S, ComputeExecute resets `prepared` (`manager/clustermanager.cpp:1284`),
  and the Reduce that follows finds the module unprepared.
- `MaxExecutes <- SourceTwice` violates `ReduceHasAll`: `ranksFinished` counts messages
  and not ranks, so both Finish messages of one rank may complete it, and D is
  reduced before objects of the other rank have arrived.  This is why
  `execution_diamond` has no overlapping executions.

With `SchedulingPolicy <- GangD` in place of `LazyD`, which no module of the
repository uses, the same properties hold and the same one fails.  Assertions are
compiled out of release builds, so the model goes on after one fails, the way the
code does; this is why `NothingLeft` can be checked under lazy gang scheduling, and
holds.

Bounds.  Two ranks: one that is rank 0 and one that is not.  `MaxExecutes` is
two, as an execution that is under way and the next one.  `Overlap = FALSE` lets
the user wait until everything is at rest.  With two ranks one object is enough for
lazy gang scheduling to compute (the threshold is a fifth of the ranks), so that
`Flush` is always zero there.

Fairness.  Weak fairness of `SystemStep` as a whole: something happens as long as
anything can.  It does not depend on how the operating system schedules
managers and modules, since the number of steps of an execution is finite.  None
is assumed on the user.  Deadlock is checked: `Terminated` is a stuttering step only when
no message and no stage is left, so a process that stayed in `Sync` would
show as a deadlock.

Left out: several clusters (progress for other hubs), cancellation, ports that are
connected or disconnected meanwhile, modules with `NOCOMPUTE` inputs in the runs, the
reduce policies per timestep (they differ from `OverAll` in what `reduce` is called
for), objects for all ranks (`ObjectReceivePolicy`, renderers), and delayed
Execute messages: the hub's Execute always arrives as a broadcast, so
`Module::delay` is never called.

### Proofs (`Execution_proofs`, `ExecutionStreams_proofs`)

For any number of ranks, modules, ports and executions, overlapping or not: `TypeCorrect`
(`TypeOK`), `FlagsAlwaysAgree` (`FlagsAgree`) and `ModulesReady` (`ModuleReady`), which is
all that `execution_overlap` checks, provided `Steering`: a module with inputs that it
computes for (`Fed`) has the default scheduling policy, is prepared and reduced, and is executed by
the modules upstream only; and such an input has one connection.  The code gives reasons for
all but the third: `Single` and `Locally` are the defaults (`module/module.cpp:256`), and of
the modules only Distribute asks for gang scheduling; renderers, which are never
reduced, have a `COMBINE` input, which is not computed for; and
`PortTracker::addConnection` refuses a second connection to any other input
(`core/porttracker.cpp:255`; `core/statetracker.cpp:1304` removes the old one first).
The limits above show that the condition on scheduling and direct executions is needed:
without it `FlagsAgree` does not hold.

That prepare and reduce take turns is known to nobody: a module, its manager and rank 0 each
have a flag or a counter, and they differ while messages are under way.  A message turns
what is known of a module on or off (`Moves`), or adds to or takes from the objects at an input
(`Counts`).  `Walk(q, a, z, R)` says that the messages of q lead from a to z, one
by one.  `IInv` says of every module that

- what its process has sent (`out`), and then what its manager has forwarded (`up`), leads from
  what rank 0 has been told (`ex`) to whether the process is prepared (`Reporting`), and
  `ranksStarted` is `ranksFinished` plus the number of ranks with `ex` (`RanksOK`);
- on rank 0, resets and ends of an input of d differ by whether its feeder is running and d is open,
  where *open* is what all managers will know of d in the end; one input of d has no reset
  to spare and one no end (`ResetsOK`);
- what is broadcast (`down`) leads from what a manager knows to *open* (`Lines`);
- what is in the queue of a process leads from what it will be after its stages to what its manager
  knows, and from the objects it has to those that the manager has counted (`Flows`).

A message that is taken is the first step of a walk (`WalkHead`), so the handler finds the flag
that it asserts; one that is sent is a step more (`WalkAppend`, `WalkConcat`).  The heart is
`ProgressKeeps`: when the last rank has started or finished, `AdvancedIs` and `RoundsIs` say what
this does to the counters of the inputs, `OneRound` that d goes on at most once and then as `open`
permits, and `AllSteps` puts together what is broadcast for all modules downstream.
`CheckKeeps` and `DeliverKeeps` are about `checkExecuteObject`: each ComputeObject follows the
objects it consumes into the queue.  One lemma per action shows that it preserves `IInv`
(`AddObjectKeeps`, `BroadcastKeeps`, `HandleProgressKeeps`, `HandleForwardedKeeps`, `UserExecuteKeeps`,
`ReceiveKeeps`, `StageKeeps`, `SyncKeeps`).

`ReduceGetsAll` (`ReduceHasAll`) needs more, namely `~Overlap`: a reduce comes when all
objects of this execution are there, not just those of some.  `CountsOK`
counts what `IInv` knows modulo two.  A module makes two turns in an execution: it is
prepared and reduced.

- A rank's turns grow along the way of what it says: rank 0 has been told of no more (`told`) than its
  manager has forwarded or holds (`mid`), and that is no more than it has made (`Sent`).
- They also grow along the way of what it is told: what it has made, and will have made after
  its stages (`Turns`, `Later`), is no more than what its manager knows (`mgr`), nor that more than what
  rank 0 has broadcast (`starts + ends`, `Ordered`).
- Rank 0 has told d to start as often as all modules upstream have started, and to
  finish as often as they are done, less what the counters of its inputs hold (`Counted`).
- `ranksFinished` is the number of ranks that have finished since the user executed last, and no
  module has been executed more than once since then (`Epoch`, `Once`; `base` is what was done before).

The last item is where `~Overlap` is needed: when executions overlap, two messages of one rank
pass for two ranks, the limit above.  A Reduce at the head of a queue then says that rank 0 was told
by every rank upstream that it is done (`UpstreamTold`, `ReduceFromCounts`).  `CountsInvariance`
is the inductive invariant `IInv /\ CountsOK`.

`SameObjects` (`SameExecution`, in `ExecutionStreams_proofs`) also needs `OneObject`: `Produces` and `Results` are zero or one,
so that an execution sends exactly one object to each output (an `Empty` where there is no
other).  This is what `execution_diamond` assumes as well; with two objects the property does not hold.
The Nth object at an input is then that of the Nth execution, and its number can be followed without
knowing how the path branches.  `StreamsOK` says of every module with
inputs, on every rank, that there are numbers a, u, c and n of which

- what a feeder still has in `out` leads from a[i], the objects that have been passed on to input i, to
  what it has `Made` (`Comes`); so the messages are numbered one by one;
- the objects at an input are those after u, what the process has computed, and what is in its queue
  leads from there to a[i] (`Taken`, `Given`);
- the queue also leads from where the process is in its three steps (prepared, computed, reduced) to where
  its manager is, who has prepared it n times and told it to compute c times (`Phases`);
- `numObject` is a[i] less c, and if the manager has prepared it more often than told it to compute, an input
  has none (`Waits`).

That computes come one for each prepare needs `CountsOK`: one of the feeders of a module is not ahead
of it (`Ahead`), so no complete tuple of the next execution can be there before Reduce; and a manager
that is to reduce a module has told it to compute (`ComputedFirst`).
A process that is told to compute has computed once less than it was
prepared, so the first object at each input has the number of its round (`SameFromStreams`).

What a fold over messages or ports computes needs induction.  It is done through least
counterexamples (`LeastNatural`, `UpTo`): `Recursion` for recursive functions over an interval,
`Flattened` for `FlattenSeq`.

## 7. Barrier

A script asks for a barrier before it goes on: what it has caused so far has to be
through.  The master hub counts the modules that run, and everyone is told:

    script -> master hub --Barrier--> slave hubs --> manager of rank 0 --> managers of all ranks --> modules
    module --BarrierReached--> manager, which holds its messages back from now on
    manager of rank 0 --BarrierReached of the module--> hub --> master hub: all of them?
    master hub --BarrierReached of the hub--> slave hubs --> managers, which let go

TLA+ | Code
--- | ---
`active`, `uuid`, `participants`, `reached` | `m_barrierActive`, `m_barrierUuid`, `m_numBarrierParticipants`, `m_reachedSet` of `Hub`
`tracked`, `slaveQuit` | the modules in the `StateTracker` of the master hub; those that are `Quit` in the one of the slave they ran at
`mgrActive`, `mgrUuid`, `mgrReached`, `runningMap` | the members of `ClusterManager`; a crashed module is in `m_crashedMap`
`link`, `inbox`, `outbox` | sockets and broadcasts by rank 0; the message queues of a process
`RequestBarrier`, `MasterBarrierReached`, `MasterModuleExit` | `Hub::handlePriv` of Barrier, BarrierReached, ModuleExit at the master
`SlaveBarrier`, `SlaveBarrierReached`, `SlaveModuleExit`, `RelayUp`, `RelayDown` | the same at a slave
`Spawn`, `Kill`, `Execute` | what else the master hub sends: `handlePlainSpawn`, `handlePriv(Kill)`, `Execute::Upstream`
`MgrBarrier`, `MgrBarrierReached`, `MgrSpawn`, `MgrModuleExit`, `MgrToModule` | `ClusterManager::handlePriv`
`Take...`, `DropHeld` | `ClusterManager::dispatch`: messages of a module in `m_reachedSet` are put aside (they stay in `outbox`), and are lost with the entry of the module
`OnBarrier`, `OnUpstream`, `FinishExecution` | `Module::handleMessage`, `handleExecute`, the end of `reduceWrapper`: the answer is deferred while a module upstream executes
`SendWork` | any other message; it carries, as history, the barrier that its sender answered last
`Quit`, `Crash` | `~Module`; a process that ends without it
`CheckChildProcesses` | the exit handler of the hub that started the process: `ModuleExit(crashed)` to the manager, unless `KnownQuit`

`barrier` has a module at the master, and one at a slave hub that is started, executes, is
killed or crashes at any time, for two barriers.  As long as no module crashes, no process of
a killed one ends before its hub knows that it has quit, and nobody exits who was not counted
(`AllCounted`):

- the assertions of hubs and managers hold (`AsExpected`),
- what modules had sent before they answered has been handled when the barrier is
  released (`NothingBefore`),
- every barrier is released (`EveryBarrierReleased`) and no module is held back for
  ever (`NoneHeldForEver`).

`barrier_two_ranks` is about a module on two ranks.  Its manager on rank 0 answers
for it as soon as the process on rank 0 has.  The answer of rank 1 may come to its
manager after the release, where `assert(m_barrierActive || ...)`
(`manager/clustermanager.cpp:2060`) fails; without assertions, that manager puts the
module into `m_reachedSet` with no barrier to come, and what it sends stays there
until the next one.

Limits that can be seen with other constants or without `AllCounted`:

- A module that crashes leaves a barrier that may never be released, or is answered for twice
  (`control/hub.cpp:4299`, `4338`): it is a participant, and a module that has
  crashed still runs for `getNumRunning`.  Properties therefore except runs with a crash.
- So does a module that is killed, and quits, if its process is gone too soon.  The exit handler
  of its hub (`control/hub.cpp:361-370`, `1121-1123`) calls `checkChildProcesses` for
  every process that has ended, and that sends `ModuleExit(crashed)` "for crashed modules" for
  every module which the hub's `StateTracker` does not have as `Quit` (`4806-4812`): for every one
  whose own `ModuleExit` is still on its way.  It often is during a barrier, as the manager puts
  aside what comes from a module that has answered (`manager/clustermanager.cpp:451-461`).  The
  report overtakes it, and what the module has sent before
  (`manager/communicator.cpp:328-357` come before `378`).  The hub answers for
  the module (`4504-4512`), which may have answered itself, or will with the exit that
  follows.  At a slave this can be after the master has released the barrier:
  `assert(m_barrierActive)` (`4338`) fails, and without assertions the module stays in
  `m_reachedSet` and the next barrier never has the size of `4344`.  With
  `Crashable = {}` and `Initial = {"a", "s"}`, TLC finds `HubAssertions` violated after 16 steps: Kill of
  the module at the slave, a barrier, the report, an answer for it, the release, and a second
  answer for its own exit.
  A killed module that still has its process when the hub hears of its exit is part of the properties.
- `AfterCrash = FALSE` lets scripts end with a crash or a report.
- A module that is started after the request and exits before the release is put
  into `m_reachedSet`, though it was not counted: `EveryBarrierReleased` and
  `AsExpected` are violated.
- `Renderers = {"s"}` violates `EveryBarrierReleased`: a renderer that got
  `Upstream` never ends this execution, because `handleExecute` returns early for it
  (`module/module.cpp:1926-1931`).
- `Clients = 2` violates `AsExpected`: the hub has room for one barrier.
- `Initial = {}` violates `AsExpected`: with no module running, the master releases a
  barrier at once, without a Barrier to the slaves (`control/hub.cpp:4308-4309`), where
  `assert(m_barrierActive)` (`4338`) fails.

Bounds.  Two hubs (`Size` is one rank): one that counts and one that passes on.  Two
barriers, so that an answer can meet the wrong one.  One message of a kind is
under way in `SendWork`.  Two modules are enough for one to be late.  Two ranks, as in
`barrier_two_ranks`, would violate `AsExpected` in every run.

Fairness.  Hubs and managers serve every connection, modules their queue,
and executions end.  None on `Spawn`, `Kill`, `Execute`, `Crash`, `RequestBarrier`, nor on
`CheckChildProcesses`: a process may take any time to end after `Quit`, and nothing waits for the report.

### Proof (`Barrier_proofs`)

`TypeCorrect`: the invariant `Typed` adds to `TypeOK` which messages each kind of queue
may hold, and that the barriers they are about were requested.  A reader copies numbers
and modules from what it reads, so no type is invariant without it.

`AssertionsHold` and `ReleasedIsHandled` state `AsExpected` and `NothingBefore`, for any
number of hubs, modules, renderers, barriers and executions, under `Sound`:

- `OneRank`, one rank at each hub.  With two, `ManagerAssertion` does not hold (`barrier_two_ranks`).
- `Clients = 1`, and `SomeoneStays`: a module that runs at first is not killed, so that
  no barrier is requested with nobody to answer.  Both are necessary (see the limits above).

The constants of the run `barrier` satisfy `Sound`.  Neither property is inductive:
whether an answer meets its barrier depends on where Barrier, Spawn, Kill and
ModuleExit are at the time.  The invariant is `IInv == StartedOnce /\ (Good => Core)`.

- `StartedOnce`: a module is unknown, or has one Spawn on its way, or has been started;
  without this, nothing could be counted.
- `Good`: nobody has crashed, no hub has reported the end of a process, and nobody was killed who had
  joined after the first barrier.  A step from a state that is not good leads to another one
  (`GoodBefore`).  Beyond it nothing but the types is claimed: a report breaks `Staged` and `Tokens`.
- `Ways`: a Barrier and its release are events 2b - 1 and 2b.  Each hub and
  manager has heard of a first part of them, and the queue to it brings exactly those
  that it has not heard of (`Brings`).  A Spawn comes behind all that there were before
  it, so that a module never has to answer a barrier it did not hear of.
- `Staged`: of each module in the master's list there is one of a Spawn, an entry in `runningMap`,
  and a ModuleExit in one of the two queues up.  That is the sum of four counts.
- `Tokens`: of each module there is one answer to the last barrier, at most: as a Barrier in its
  inbox, deferred, in its outbox, or in one of the two queues up, and only while
  the master waits for it.  Hence no answer is under way when the next
  barrier is requested, and none meets a hub with another barrier.
- `PastRight` and `Works`: who has answered is held back by its manager until the
  release, so that an exit follows it, and has nothing older than its answer left.
- `MasterRight`: `m_numBarrierParticipants` is the number of those that have
  answered or still run (`Expected`) since before the request.  It is the only place where
  cardinalities are compared: a barrier is released when the last one arrives, and not before.

Each action has a lemma of its own (`MgrBarrierRight`, `SlaveModuleExitRight`, ...), on top of
lemmas about counts and orders in sequences and about what a step sends where.  `NoExitDown` shows
that, as long as the state is good, no ModuleExit goes to a manager: what kills do to a barrier is
proved for modules whose own ModuleExit is the only one.

Left out: the answer to the user interface, hubs that join or leave, restarts and mirrored
modules of `handlePriv(ModuleExit)`, and the Python interpreter that waits.

## 8. RenderSync

The ranks of a renderer look at their queues in lockstep (`Module::processMessagesSynced`).  They
take a message each, if there is one, and agree on whether one of them has to
be handled by all (`allsync`); the ranks that hold another one handle this and go on
until they reach it.  Which objects need all ranks depends on the policy, which the
renderer derives from its render mode and tells its managers.

TLA+ | Code
--- | ---
`AddObject`, `Forwarded`, `ReceiveBroadcast` | `addObjectDestination`, then `broadcastAndHandleMessage` through rank 0 unless the policy is Local
`ReceivePolicy` | the policy in the `StateTracker` of each manager, which may be late
`SetParameter`, `SendEnd` | messages from the hub, broadcast by rank 0
`pc` | the place in `Renderer::dispatch`: `next` (`getNextMessage`), `any` (the two `all_reduce`), `handle`, `object` (`handleAddObject`), `catch up`, `end` (did anyone quit; are there more), `frame`, `done`
`Next1`, `AnyMessage`, `CatchUp`, `Continue` | `processMessagesSynced`
`HandleSetMode`, `HandleSetLimit`, `ChangeModes` | `ParameterManager::handleMessage`, `Renderer::changeParameter`, `setObjectReceivePolicy`; a delayed change is applied in `EndBatch`
`AddInputObject`, `Together`, `AddsAt` | `Renderer::handleAddObject`: who sends the object or a placeholder to whom
`EndBatch`, `Another`, `Render` | the rest of `dispatch`
`synced` | history: `m_messageHistory` of messages for which `needsSync`

`render_sync` (2 ranks, an object on each, one parameter set, Kill or Quit at any time, for
every policy): the ranks take what they handle together in the same order
(`SameOrder`), never wait in different collective operations
(`SameCollective`), get through every batch (`AlwaysAnotherBatch`), and add every
object where it is to be rendered (`EveryObjectAdded`).

Two limits that can be seen with other constants:

- `PolicyChanges = TRUE` violates `SameCollective`: an object that was broadcast under the old
  policy is handled by one rank before, by another after the change, which it
  makes on its own (`renderer/renderer.cpp:425-441`, `module/module.cpp:1421`).
- `Limits = {1, 2}` with `Benchmark = TRUE` does, too: `objects_per_frame` is a number of each
  rank, and while it changes one rank renders and another takes another batch.  Without
  the benchmark, rendering is not collective here, and the property holds.

Bounds.  Each rank is a node of its own, so that of the render modes those for
shared nodes (`LocalShmLeader`, `AllShmLeaders`) are left out, and the leader of a node is the
rank.  Two objects of different ranks arrive at rank 0 in either order.  One parameter set
between any two messages shows every interleaving with them.

Fairness.  Managers poll all they receive from; the renderer runs.  `getNextMessage`
blocks while it catches up, which is fair only because the message is on its way: this
is what `AlwaysAnotherBatch` shows.

### Proof (`RenderSync_proofs`)

For any number of ranks, objects, modes and parameters set: `TypeCorrect`; with
`~PolicyChanges`, `HandledInTheSameOrder` (`SameOrder`); and if with a benchmark running all limits are equal,
`WaitForTheSame` (`SameCollective`).  The two conditions are the two
limits above: without them the properties are false, and `PROJECT.json` lists both as hazards.
`TypeOK` also says that no rank takes more batches in a row than a limit allows.

For the policy `Local`, ranks have only Quit in common.  For the others, all that is
broadcast by rank 0 is one log; the invariant (`Logged`) says that there is a log of which
rank r has taken `c[r]` messages and handled `p[r]`, and that its queue and what is under way to it are
the rest (`Queues`).  `synced` are the messages in it that concern all (`Recorded`), which gives
`SameOrder`.  What makes it inductive is `Placed`.  The ranks take
messages and none has handled one that concerns all and that another has not (`Taking`, `Level`); or
they handle what they have taken, and it is nothing of the kind (`Quiet`);
or all handle up to the next message of the kind, at position s for all of them
(`Meeting`).  The `all_reduce` that
chooses between the last two is the step `AnyMessage`, and `Level` is what makes it come out the same:
if one rank holds the message at s, the others hold, or will get, nothing
else of the kind before it.  `SameCollective` needs
in addition that the ranks render together (`FramesTogether`).

## 9. Reader

A read module on one rank.  The main thread goes through static data, timesteps and
partitions, and starts a thread for every unit it has to read.  A `Token` is linked to the
one before it and makes the objects of a port come in order.

TLA+ | Code
--- | ---
`setup` | parallelization mode, handling of partitions, distribution of timesteps, this rank; and how `read()` adds objects: by `Token::addObject`, or as ReadCovise, after `Token::wait()`
`main` | the place in `prepare`, `readTimesteps`, `readTimestep`, and the local `result`
`tokens`, `m_tokens`, `prev` | all tokens; `m_tokens`; the last one in the chain
`tokens[t].ports` | `m_ports`: no entry, an entry somebody waits for, or ready (`valid`)
`RankFor`, `NumTimesteps` | `rankForTimestepAndPartition`, `calc_numtime`
`WaitForReaders`, `Finish` | `waitForReaders`, one token at a time; `waitDone`
`AddToPort`, `PortReady`, `Lock`, `Added` | `Token::addObject`: `waitPortReady` of the previous token, `m_mutex`, `addObject`, `setPortReady`
`WaitPrevious`, `AddDirectly` | the same in ReadCovise (`src/module/read/ReadCovise/ReadCovise.cpp:1193`)
`ReadReturns` | `read()` returns, fails, or throws in a thread, having added any part of its objects
`Cancel` | `cancelRequested`, asked after every partition

`reader` (rank 0 and 1 of 2, three partitions, two timesteps in descending order, three
threads, every mode, failures and cancellation): only one thread adds an object at a
time, and the assertions of `setPortReady` hold (`AddsAlone`); the objects of a port are added
in the order of the units (`AddedInOrder`), although ports are left out and reads fail;
nothing is still read when `finishRead` is called, and a failure is reported then
(`FinishComplete`); and `prepare` returns (`PrepareReturns`).

`AddedInOrder` and `AddsAlone` suppose `NoneSkipped`.  A token of ReadCovise that
adds no object does not wait for its predecessor, and its successor waits only for
it: without `NoneSkipped` both are violated.

Bounds.  Three threads make a chain of two waits; with three partitions on two ranks, one
rank has two of them in a timestep.  `MaxTokens` is the number of units.  An object per port and
token: with a second one `setPortReady` would fail.

Fairness.  The main thread runs, and a thread that reads returns from `read()` if its waits
end.

Left out: an exception from `read()` in mode `Serial`, where the main thread calls it and leaves
`prepare` without `finishRead` (`module/reader.cpp:197`; in a thread, the future keeps it and
it counts as a failure).  In this mode `read()` of the model returns, and may fail.  Also left
out: the communicators of collective I/O, `examine` and the parameters, and the objects'
contents and metadata.

### Proof (`Reader_proofs`)

For any constants that satisfy `ReaderAssumption`, whatever the number of ports, timesteps,
partitions, ranks and readers: `AddingInOrder` (`AddedInOrder`), `OneThreadAdds` (`AddsAlone`) and
`FinishIsComplete` (`FinishComplete`) and `TypeCorrect`, which are all safety properties of the run.

`IInv` rests on two facts about the chain of tokens.  `m_tokens` holds the last ones of the
chain, without gaps (`ChainRight`), and nobody else reads (`OnlyChainReads`): so the token that
`waitForReaders` finishes first is the oldest that reads, and when it has finished them
all, nobody does.  And a token that has added to a port, is about to, or lets its
successor add, finds no earlier one that still may (`Ordered`): the token learns this
from its predecessor only, and `AllCleared` is the step of this induction along the chain.
`PredecessorsRight` gives the start: a token without a predecessor was made when nobody
read.  `FailuresRight` follows a failure from the token to `result`, and from there to the error
that `prepare` reports.

`OwnTokenStep` covers the steps in which a thread changes its own token; `AddToPort` and
`WaitPrevious` change the predecessor, too.  On the main thread, `Onward` and `Drained` cover what
leaves the tokens alone, `PopIInv` what `waitForReaders` does, and `PartitionIInv` and `LaunchIInv` the
new token.

## 10. What is proved and what is checked only

Proved by TLAPS, for all values of the constants:

Module | Theorems | Assumptions
--- | --- | ---
`ModuleQueue_proofs` | `TypeCorrect`, `DeliveredInOrder`, `UnblockAssertions` | `QueueAssumption`, `UuidsDiffer`
`ObjectTransfer_proofs` | `TypeCorrect`, `BlockedModulesHaveHandlers`, `ResolversAreCounted` | `TransferAssumption`
`ResultCache_proofs` | `TypeCorrect`, `BorrowsAlwaysCounted`, `EntriesStayAlive`, `OneThreadComputes`, `ResultsCurrent`, `OldGenerationsArePurged` | `CacheAssumption`
`Reader_proofs` | `TypeCorrect`, `AddingInOrder`, `OneThreadAdds`, `FinishIsComplete` | `ReaderAssumption`
`Execution_proofs` | `TypeCorrect`, `FlagsAlwaysAgree`, `ModulesReady`, and `Invariance` that they rest on | `ExecutionAssumption`, `Steering`
 | `ReduceGetsAll`, and `CountsInvariance` that it rests on | and `~Overlap`
`ExecutionStreams_proofs` | `SameObjects`, and `StreamsInvariance` that it rests on | `ExecutionAssumption`, `Steering`, `~Overlap`, `OneObject`
`Barrier_proofs` | `TypeCorrect` | `BarrierAssumption`
 | `AssertionsHold`, `ReleasedIsHandled`, and `Invariance` that both rest on | and `Sound`
`RenderSync_proofs` | `TypeCorrect` | `RenderSyncAssumption`
 | `HandledInTheSameOrder` | and `~PolicyChanges`
 | `WaitForTheSame` | and `~PolicyChanges`, and one limit if `Benchmark`

Checked by TLC on the instances of the runs, and not proved:

- every liveness property: liveness under fairness is out of the prover's reach;
- `NoResolverMissing`, `TransferAccounted`, `CompletionFindsObject` and `DeliverySpec` of `ObjectTransfer`, for the
  reasons given in section 3;
- `Barrier` with several ranks at a hub, or several scripts; of barriers after a crash or a
  report of `checkChildProcesses`, only the types are proved (section 7);
- `NothingLeft` of `Execution`: what is left when all is at rest depends on a workflow without cycles;
- everything about gang scheduling and direct execution of a module downstream.

### Not modelled

- `ObjectCache`, `StateTracker`, `PortTracker`, reference counts in shared memory,
  and the start-up and routing of `Hub`: planned, see section 2.
- `MessageRouter`: a constant table of flags.
- Data proxy and tunnels: byte streams over `boost::asio`, no state beyond the sockets.
- Parameters: their values, presentation, and linking; the delayed change of one in a module
  is part of `RenderSync`.
- In-situ interfaces: the coupling is driven by the simulation, outside this repository.
- Algorithm modules, readers of file formats, the graphical user interface and vendored
  code: the largest part of the repository, and sequential computation or
  presentation.  Only the use that modules make of `ResultCache` and `Token` is modelled.
