--------------------------- MODULE ObjectTransfer ---------------------------
(***************************************************************************)
(* Transfer of data objects between two hubs: the DataManager of the rank  *)
(* that produced an object (the source), the DataManager of the rank that  *)
(* needs it (the destination), and what the destination's ClusterManager   *)
(* does for the modules waiting for it.                                    *)
(*                                                                         *)
(* The source announces an object with an AddObject message and keeps it   *)
(* alive until it is told AddObjectCompleted.  The destination fetches the *)
(* object by name; its archive refers to sub-objects and arrays by name,   *)
(* which are fetched in turn, and the object is complete once its last     *)
(* reference is resolved.  Messages are received by the main thread        *)
(* (ClusterManager) and by one std::async task per SendObject, so the      *)
(* callbacks run on many threads.  A thread is modelled by the stack of    *)
(* what it still has to do: one frame is one step that the code takes      *)
(* under a lock or on shared memory, and a call pushes the frames of its   *)
(* callee in front.                                                        *)
(***************************************************************************)
EXTENDS Naturals, Sequences, FiniteSets

CONSTANTS
  Objects,      \* names of the objects
  Arrays,       \* names of the data arrays
  Fields,       \* for an object, the sequence of names its archive refers to
  Adds,         \* AddObject messages (their uuids)
  Carries,      \* the object an AddObject announces
  Ports,        \* for an AddObject, the connected input ports on this rank (a set)
  Tasks,        \* bound: receive tasks that may run at the same time
  Main          \* the thread running ClusterManager

Names == Objects \cup Arrays
Threads == Tasks \cup {Main}
PortNames == UNION {{Ports[a][i] : i \in DOMAIN Ports[a]} : a \in Adds}
FieldSet(o) == {Fields[o][i] : i \in DOMAIN Fields[o]}

ASSUME TransferAssumption ==
  /\ Objects \cap Arrays = {}
  /\ Fields \in [Objects -> Seq(Names)]
  /\ Carries \in [Adds -> Objects]
  /\ \A a \in Adds : /\ Ports[a] \in Seq(PortNames)
                    /\ \A i, j \in DOMAIN Ports[a] : Ports[a][i] = Ports[a][j] => i = j
  /\ Main \notin Tasks

(* Everything an object refers to, directly or through other objects.      *)
Reach == [n \in Names |->
            {m \in Names : \A S \in SUBSET Names :
               (n \in S /\ \A o \in S \cap Objects : FieldSet(o) \subseteq S) => m \in S}]

VARIABLES
  inTransitObjects,  \* source: AddObjects whose object must be kept alive
  announced,         \* source: AddObjects sent so far
  inbox,             \* AddObject messages on their way to the main thread
  requests,          \* number of RequestObject messages in flight, by name
  replies,           \* number of SendObject messages in flight, by name
  completions,       \* AddObjectCompleted messages in flight
  memory,            \* shared memory of the destination: the state of a name
  unresolved,        \* ObjectData::unresolvedReferences
  restorer,          \* holder of an object's object_mutex
  outstandingAdds,   \* DataManager::m_outstandingAdds
  requested,         \* keys of m_requestedObjects and m_requestedArrays
  handlers,          \* the completion handlers of a request
  kept,              \* requests whose OutstandingObject::obj has been set
  blocked,           \* <<add, port>>: blocker sent to the module
  delivered,         \* <<add, port>>: object handed to the module
  stack              \* what a thread has still to do

source  == <<inTransitObjects, announced>>
network == <<inbox, requests, replies, completions>>
shm     == <<memory, unresolved, restorer>>
tables  == <<outstandingAdds, requested, handlers, kept>>
modules == <<blocked, delivered>>
vars    == <<source, network, shm, tables, modules, stack>>

NoThread == "none"

(* A completion handler: unblock the module behind a port, or resolve the  *)
(* reference that an object being restored holds to a name.                *)
Unblocker(a, p) == <<"unblock", a, p>>
Resolver(o, n) == <<"resolve", o, n>>
Subject(h) == IF h[1] = "unblock" THEN Carries[h[2]] ELSE h[3]

Frame(op, arg) == [op |-> op, arg |-> arg]
Run(frames, t) == stack' = [stack EXCEPT ![t] = frames \o Tail(@)]
At(t, op) == stack[t] # <<>> /\ Head(stack[t]).op = op
Arg(t) == Head(stack[t]).arg

(* Data::isComplete: true of a freshly created, still empty object too.    *)
IsComplete(o) == memory[o] \in {"fresh", "restored"} /\ unresolved[o] = 0

(* getObjectFromName, getArrayFromName: arrays are found while they are    *)
(* still being filled.                                                     *)
Found(n) == IF n \in Objects THEN IsComplete(n) ELSE memory[n] # "absent"
-----------------------------------------------------------------------------
(* Source *)

(* addObjectSource: prepareTransfer retains the object, then it is sent.   *)
Announce(a) ==
  /\ a \notin announced
  /\ announced' = announced \cup {a}
  /\ inTransitObjects' = inTransitObjects \cup {a}
  /\ inbox' = Append(inbox, a)
  /\ UNCHANGED <<requests, replies, completions, shm, tables, modules, stack>>

Retained(n) == \E a \in inTransitObjects : n \in Reach[Carries[a]]

(* handlePriv(RequestObject): an object that is no longer retained may be  *)
(* gone, and then no answer is sent.                                       *)
ServeRequest(n) ==
  /\ requests[n] > 0
  /\ requests' = [requests EXCEPT ![n] = @ - 1]
  /\ \/ replies' = [replies EXCEPT ![n] = @ + 1]
     \/ ~Retained(n) /\ UNCHANGED replies
  /\ UNCHANGED <<source, inbox, completions, shm, tables, modules, stack>>

CompleteTransfer(a) ==
  /\ a \in completions
  /\ completions' = completions \ {a}
  /\ inTransitObjects' = inTransitObjects \ {a}
  /\ UNCHANGED <<announced, inbox, requests, replies, shm, tables, modules, stack>>
-----------------------------------------------------------------------------
(* Destination, main thread: ClusterManager::handlePriv(AddObject)         *)

(* An object found by name is sent to every connected port at once; else   *)
(* each port is blocked and the object requested on its behalf.            *)
HandleAddObject ==
  /\ stack[Main] = <<>>
  /\ inbox # <<>>
  /\ inbox' = Tail(inbox)
  /\ LET a == Head(inbox)
         found == Found(Carries[a])
         forPorts == [i \in DOMAIN Ports[a] |->
                        Frame(IF found THEN "send" ELSE "block", <<a, Ports[a][i]>>)]
     IN  stack' = [stack EXCEPT ![Main] =
                     (IF found THEN <<Frame("notify", a)>> ELSE <<>>) \o forPorts]
  /\ UNCHANGED <<source, requests, replies, completions, shm, tables, modules>>

(* The object is there: it is sent to the module as it is.                 *)
SendAddObject(t) ==
  /\ At(t, "send")
  /\ delivered' = delivered \cup {Arg(t)}
  /\ Run(<<>>, t)
  /\ UNCHANGED <<source, network, shm, tables, blocked>>

(* setBlocker: the module's messages are held back from here on.           *)
BlockModule(t) ==
  /\ At(t, "block")
  /\ blocked' = blocked \cup {Arg(t)}
  /\ Run(<<Frame("want", Unblocker(Arg(t)[1], Arg(t)[2]))>>, t)
  /\ UNCHANGED <<source, network, shm, tables, delivered>>

NotifyTransferComplete(t) ==
  /\ At(t, "notify")
  /\ completions' = completions \cup {Arg(t)}
  /\ Run(<<>>, t)
  /\ UNCHANGED <<source, inbox, requests, replies, shm, tables, modules>>
-----------------------------------------------------------------------------
(* Requests, from the main thread and from a thread restoring an object    *)

(* Fault: the look-up succeeds, and the object is requested all the same.  *)
WantAnyway(t) ==
  /\ At(t, "want")
  /\ Run((IF Found(Subject(Arg(t))) THEN <<Frame("call", Arg(t))>> ELSE <<>>)
           \o <<Frame("enlist", Arg(t))>>, t)
  /\ UNCHANGED <<source, network, shm, tables, modules>>

(* requestObject, fetchArray: what is there already is handed over at      *)
(* once; the look-up is not under m_requestObjectMutex.                    *)
Want(t) ==
  /\ At(t, "want")
  /\ LET h == Arg(t)
     IN  Run(<<Frame(IF Found(Subject(h)) THEN "call" ELSE "enlist", h)>>, t)
  /\ UNCHANGED <<source, network, shm, tables, modules>>

Ask(n) == requests' = IF n \in requested THEN requests ELSE [requests EXCEPT ![n] = @ + 1]

(* Fault: a second handler is not kept.                                    *)
OpenForFirst(n, h) ==
  /\ handlers' = [handlers EXCEPT ![n] = IF @ = <<>> THEN <<h>> ELSE @]
  /\ requested' = requested \cup {n} /\ Ask(n)

(* Join the request that is under way for this name, or open one and ask   *)
(* the source.                                                             *)
OpenRequest(n, h) ==
  /\ handlers' = [handlers EXCEPT ![n] = Append(@, h)]
  /\ requested' = requested \cup {n}
  /\ Ask(n)

(* requestObject, requestArray under their mutex.                          *)
Enlist(t) ==
  /\ At(t, "enlist")
  /\ LET h == Arg(t)
         n == Subject(h)
     IN  /\ OpenRequest(n, h)
         /\ outstandingAdds' = IF h[1] = "unblock"
                               THEN [outstandingAdds EXCEPT ![n] = @ \cup {h[2]}]
                               ELSE outstandingAdds
  /\ Run(<<>>, t)
  /\ UNCHANGED <<source, inbox, replies, completions, shm, kept, modules>>
-----------------------------------------------------------------------------
(* Completion handlers *)

(* The handler of a blocked AddObject: sendMessage with setUnblocking.     *)
Unblock(t) ==
  /\ At(t, "call") /\ Arg(t)[1] = "unblock"
  /\ LET w == <<Arg(t)[2], Arg(t)[3]>>
     IN  /\ blocked' = blocked \ {w}
         /\ delivered' = delivered \cup {w}
  /\ Run(<<>>, t)
  /\ UNCHANGED <<source, network, shm, tables>>

(* ObjectData::referenceResolved: only the one that takes the counter to   *)
(* zero goes on to look at the restoring flag.                             *)
Resolve(t) ==
  /\ At(t, "call") /\ Arg(t)[1] = "resolve"
  /\ LET o == Arg(t)[2]
     IN  /\ unresolved' = [unresolved EXCEPT ![o] = @ - 1]
         /\ Run(IF unresolved[o] = 1 THEN <<Frame("resolved", o)>> ELSE <<>>, t)
  /\ UNCHANGED <<source, network, memory, restorer, tables, modules>>

(* Fault: the restoring flag is not looked at.                             *)
LastResolvedAnytime(t) ==
  /\ At(t, "resolved")
  /\ Run(<<Frame("complete", Arg(t))>>, t)
  /\ UNCHANGED <<source, network, shm, tables, modules>>

LastResolved(t) ==
  /\ At(t, "resolved")
  /\ Run(IF memory[Arg(t)] = "restoring" THEN <<>> ELSE <<Frame("complete", Arg(t))>>, t)
  /\ UNCHANGED <<source, network, shm, tables, modules>>

(* Fault: the handlers are dropped with their request.                     *)
CallsDropped(hs) == <<>>
Calls(hs) == [i \in DOMAIN hs |-> Frame("call", hs[i])]

(* Fault: the sources are not told.                                        *)
NoNotices(adds) == {<<>>}
(* Notifications for a set of AddObjects, in any order.                    *)
Notices(adds) ==
  {[i \in DOMAIN order |-> Frame("notify", order[i])] :
     order \in {s \in [1..Cardinality(adds) -> adds] : {s[i] : i \in DOMAIN s} = adds}}

CloseRequest(o) ==
  /\ requested' = requested \ {o} /\ kept' = kept \ {o}
  /\ handlers' = [handlers EXCEPT ![o] = <<>>]
  /\ outstandingAdds' = [outstandingAdds EXCEPT ![o] = {}]

(* The completionHandler of handlePriv(SendObject): close the request,     *)
(* call its handlers, then tell the sources of the waiting AddObjects.     *)
Complete(t) ==
  /\ At(t, "complete")
  /\ \E notices \in Notices(outstandingAdds[Arg(t)]) :
       Run(Calls(handlers[Arg(t)]) \o notices, t)
  /\ CloseRequest(Arg(t))
  /\ UNCHANGED <<source, network, shm, modules>>
-----------------------------------------------------------------------------
(* Destination, receive tasks: handlePriv(SendObject)                      *)

ReceiveReply(t, n) ==
  /\ t \in Tasks /\ stack[t] = <<>>
  /\ replies[n] > 0
  /\ replies' = [replies EXCEPT ![n] = @ - 1]
  /\ stack' = [stack EXCEPT ![t] =
                 <<Frame(IF n \in Objects THEN "load" ELSE "loadArray", n)>>]
  /\ UNCHANGED <<source, inbox, requests, completions, shm, tables, modules>>

(* Object::loadObject, under the lock of shared memory: find or create.    *)
LoadObject(t) ==
  /\ At(t, "load")
  /\ LET o == Arg(t)
     IN  /\ memory' = [memory EXCEPT ![o] = IF @ = "absent" THEN "fresh" ELSE @]
         /\ Run(<<Frame("restore", o)>>, t)
  /\ UNCHANGED <<source, network, unresolved, restorer, tables, modules>>

RefFrames(o) == [i \in DOMAIN Fields[o] |-> Frame("ref", <<o, Fields[o][i]>>)]

(* loadObject, under object_mutex: restore unless another task has done it. *)
Restore(t) ==
  /\ At(t, "restore")
  /\ LET o == Arg(t)
     IN  /\ restorer[o] = NoThread
         /\ IF memory[o] = "fresh" \/ ~IsComplete(o)
            THEN /\ memory' = [memory EXCEPT ![o] = "restoring"]
                 /\ restorer' = [restorer EXCEPT ![o] = t]
                 /\ Run(RefFrames(o) \o <<Frame("finish", o)>>, t)
            ELSE /\ Run(<<Frame("check", o)>>, t)
                 /\ UNCHANGED <<memory, restorer>>
  /\ UNCHANGED <<source, network, unresolved, tables, modules>>

(* Fault: an array reference is not counted.                               *)
LoadUncounted(t) ==
  /\ At(t, "ref")
  /\ LET o == Arg(t)[1]
         n == Arg(t)[2]
     IN  IF n \in Objects /\ Found(n)
         THEN Run(<<>>, t) /\ UNCHANGED unresolved
         ELSE /\ unresolved' = [unresolved EXCEPT ![o] = @ + (IF n \in Objects THEN 1 ELSE 0)]
              /\ Run(<<IF n \in Objects THEN Frame("fetch", Arg(t))
                                        ELSE Frame("want", Resolver(o, n))>>, t)
  /\ UNCHANGED <<source, network, memory, restorer, tables, modules>>

(* shm_obj_ref::load and shm_array_ref::load: an array reference counts as *)
(* unresolved from the start, an object reference once it is not found.    *)
LoadReference(t) ==
  /\ At(t, "ref")
  /\ LET o == Arg(t)[1]
         n == Arg(t)[2]
     IN  IF n \in Objects /\ Found(n)
         THEN Run(<<>>, t) /\ UNCHANGED unresolved
         ELSE /\ unresolved' = [unresolved EXCEPT ![o] = @ + 1]
              /\ Run(<<IF n \in Objects THEN Frame("fetch", Arg(t))
                                        ELSE Frame("want", Resolver(o, n))>>, t)
  /\ UNCHANGED <<source, network, memory, restorer, tables, modules>>

(* yas_iarchive::getObject looks the name up once more, and returns what   *)
(* it finds without calling the completion handler.                        *)
GetObject(t) ==
  /\ At(t, "fetch")
  /\ LET o == Arg(t)[1]
         n == Arg(t)[2]
     IN  Run(IF Found(n) THEN <<>> ELSE <<Frame("want", Resolver(o, n))>>, t)
  /\ UNCHANGED <<source, network, shm, tables, modules>>

FinishRestore(t) ==
  /\ At(t, "finish")
  /\ LET o == Arg(t)
     IN  /\ memory' = [memory EXCEPT ![o] = "restored"]
         /\ restorer' = [restorer EXCEPT ![o] = NoThread]
         /\ Run(<<Frame("check", o)>>, t)
  /\ UNCHANGED <<source, network, unresolved, tables, modules>>

(* Fault: the unresolved references are not looked at.                     *)
CheckNothing(t) ==
  /\ At(t, "check")
  /\ Run(<<Frame("complete", Arg(t)), Frame("keep", Arg(t))>>, t)
  /\ UNCHANGED <<source, network, shm, tables, modules>>

(* End of loadObject: the completion handler, if nothing is unresolved.    *)
CheckComplete(t) ==
  /\ At(t, "check")
  /\ Run(IF IsComplete(Arg(t)) THEN <<Frame("complete", Arg(t)), Frame("keep", Arg(t))>>
                               ELSE <<Frame("keep", Arg(t))>>, t)
  /\ UNCHANGED <<source, network, shm, tables, modules>>

(* A request that is still open keeps the object alive until it completes. *)
KeepObject(t) ==
  /\ At(t, "keep")
  /\ kept' = IF Arg(t) \in requested THEN kept \cup {Arg(t)} ELSE kept
  /\ Run(<<>>, t)
  /\ UNCHANGED <<source, network, shm, outstandingAdds, requested, handlers, modules>>

(* An array for which no request is open is dropped.                       *)
LoadArray(t) ==
  /\ At(t, "loadArray")
  /\ LET n == Arg(t)
     IN  IF n \notin requested
         THEN Run(<<>>, t) /\ UNCHANGED memory
         ELSE /\ memory' = [memory EXCEPT ![n] = IF @ = "absent" THEN "fresh" ELSE @]
              /\ Run(<<Frame(IF memory[n] = "absent" THEN "fillArray" ELSE "arrayDone", n)>>, t)
  /\ UNCHANGED <<source, network, unresolved, restorer, tables, modules>>

(* ArrayLoader: the constructed array is filled from the archive.          *)
FillArray(t) ==
  /\ At(t, "fillArray")
  /\ memory' = [memory EXCEPT ![Arg(t)] = "restored"]
  /\ Run(<<Frame("arrayDone", Arg(t))>>, t)
  /\ UNCHANGED <<source, network, unresolved, restorer, tables, modules>>

(* Close the array's request under m_requestArrayMutex, call its handlers. *)
ArrayDone(t) ==
  /\ At(t, "arrayDone")
  /\ LET n == Arg(t)
     IN  /\ Run(Calls(handlers[n]), t)
         /\ requested' = requested \ {n}
         /\ handlers' = [handlers EXCEPT ![n] = <<>>]
  /\ UNCHANGED <<source, network, shm, outstandingAdds, kept, modules>>
-----------------------------------------------------------------------------
Init ==
  /\ inTransitObjects = {} /\ announced = {}
  /\ inbox = <<>> /\ completions = {}
  /\ requests = [n \in Names |-> 0]
  /\ replies = [n \in Names |-> 0]
  /\ memory = [n \in Names |-> "absent"]
  /\ unresolved = [o \in Objects |-> 0]
  /\ restorer = [o \in Objects |-> NoThread]
  /\ outstandingAdds = [o \in Objects |-> {}]
  /\ requested = {} /\ kept = {}
  /\ handlers = [n \in Names |-> <<>>]
  /\ blocked = {} /\ delivered = {}
  /\ stack = [t \in Threads |-> <<>>]

Step(t) ==
  \/ SendAddObject(t) \/ BlockModule(t) \/ NotifyTransferComplete(t)
  \/ Want(t) \/ Enlist(t)
  \/ Unblock(t) \/ Resolve(t) \/ LastResolved(t) \/ Complete(t)
  \/ LoadObject(t) \/ Restore(t) \/ LoadReference(t) \/ GetObject(t)
  \/ FinishRestore(t) \/ CheckComplete(t) \/ KeepObject(t)
  \/ LoadArray(t) \/ FillArray(t) \/ ArrayDone(t)

Next ==
  \/ \E a \in Adds : Announce(a) \/ CompleteTransfer(a)
  \/ \E n \in Names : ServeRequest(n)
  \/ HandleAddObject
  \/ \E t \in Tasks, n \in Names : ReceiveReply(t, n)
  \/ \E t \in Threads : Step(t)

(* The source's threads answer, messages arrive, and a started task runs.  *)
Fairness ==
  /\ \A a \in Adds : WF_vars(CompleteTransfer(a))
  /\ \A n \in Names : WF_vars(ServeRequest(n)) /\ WF_vars(\E t \in Tasks : ReceiveReply(t, n))
  /\ WF_vars(HandleAddObject)
  /\ \A t \in Threads : WF_vars(Step(t))

Spec == Init /\ [][Next]_vars
FairSpec == Spec /\ Fairness
-----------------------------------------------------------------------------
Handlers == {Unblocker(a, p) : a \in Adds, p \in PortNames}
              \cup {Resolver(o, n) : o \in Objects, n \in Names}

Frames ==
  [op : {"notify"}, arg : Adds]
    \cup [op : {"send", "block"}, arg : Adds \X PortNames]
    \cup [op : {"want", "enlist", "call"}, arg : Handlers]
    \cup [op : {"resolved", "complete", "load", "restore", "finish", "check", "keep"}, arg : Objects]
    \cup [op : {"ref", "fetch"}, arg : Objects \X Names]
    \cup [op : {"loadArray", "fillArray", "arrayDone"}, arg : Arrays]

TypeOK ==
  /\ inTransitObjects \subseteq announced /\ announced \subseteq Adds
  /\ inbox \in Seq(Adds) /\ completions \subseteq Adds
  /\ requests \in [Names -> Nat] /\ replies \in [Names -> Nat]
  /\ memory \in [Names -> {"absent", "fresh", "restoring", "restored"}]
  /\ unresolved \in [Objects -> Nat]
  /\ restorer \in [Objects -> Tasks \cup {NoThread}]
  /\ outstandingAdds \in [Objects -> SUBSET Adds]
  /\ requested \subseteq Names /\ kept \subseteq Objects
  /\ handlers \in [Names -> Seq(Handlers)]
  /\ blocked \subseteq Adds \X PortNames /\ delivered \subseteq Adds \X PortNames
  /\ stack \in [Threads -> Seq(Frames)]

(* The places of the stacks and handler lists that satisfy a test: a frame *)
(* of a thread, a handler of a request.                                    *)
FramePlaces(Test(_)) ==
  UNION {{<<t, i>> : i \in {j \in DOMAIN stack[t] : Test(stack[t][j])}} : t \in Threads}
HandlerPlaces(Test(_)) ==
  UNION {{<<n, i>> : i \in {j \in DOMAIN handlers[n] : Test(handlers[n][j])}} : n \in Names}

IsHandling(f) == f.op \in {"want", "enlist", "call"}

(* Where a handler is kept until it is called.                             *)
Places(h) ==
  LET frame(f) == IsHandling(f) /\ f.arg = h
      entry(g) == g = h
  IN  FramePlaces(frame) \cup HandlerPlaces(entry)

(* The references of object o that somebody is still going to resolve.     *)
ReferencePlaces(o) ==
  LET resolves(h) == h[1] = "resolve" /\ h[2] = o
      frame(f) == \/ IsHandling(f) /\ resolves(f.arg)
                  \/ f.op = "fetch" /\ f.arg[1] = o
  IN  FramePlaces(frame) \cup HandlerPlaces(resolves)

Waits == UNION {{<<a, Ports[a][i]>> : i \in DOMAIN Ports[a]} : a \in Adds}

Intact(n) == \A m \in Reach[n] :
               memory[m] = "restored" /\ (m \in Objects => unresolved[m] = 0)

(* A module that is blocked for an object is unblocked by one handler, and *)
(* that handler is in exactly one place: it is neither lost nor duplicated *)
(* by the look-ups, the shared requests and the completions of several     *)
(* threads (requestObject, completionHandler).                             *)
BlockedHasHandler ==
  \A w \in Waits : Cardinality(Places(Unblocker(w[1], w[2]))) = IF w \in blocked THEN 1 ELSE 0

(* referenceResolved never decrements below zero (object.cpp asserts it):  *)
(* there are at most as many resolvers as unresolved references.           *)
NoResolverTooMany ==
  \A o \in Objects : Cardinality(ReferencePlaces(o)) <= unresolved[o]

(* Every reference counted as unresolved will be resolved by somebody.     *)
NoResolverMissing ==
  \A o \in Objects : Cardinality(ReferencePlaces(o)) >= unresolved[o]

(* The assertion of the completion handler: the object of an open request  *)
(* is there, kept or found by name.                                        *)
CompletionFindsObject ==
  \A t \in Threads : At(t, "complete") /\ Arg(t) \in requested
                        => Arg(t) \in kept \/ IsComplete(Arg(t))

(* A module gets an object only with everything it refers to in place.     *)
DeliveredIntact == \A w \in delivered : Intact(Carries[w[1]])

(* The source is told to let go only when nothing is to be fetched anymore. *)
ReleasedIntact == \A a \in announced \ inTransitObjects : Intact(Carries[a])

CompletionDue(a) ==
  \/ \E i \in DOMAIN inbox : inbox[i] = a
  \/ \E i \in DOMAIN stack[Main] : LET f == stack[Main][i] IN
        \/ f.op = "block" /\ f.arg[1] = a
        \/ f.op \in {"want", "enlist"} /\ f.arg[2] = a
  \/ a \in outstandingAdds[Carries[a]] \cup completions
  \/ \E t \in Threads : \E i \in DOMAIN stack[t] : stack[t][i] = Frame("notify", a)

AtMostOneNotice ==
  \A a \in Adds :
    LET notify(f) == f = Frame("notify", a)
        waiting == {x \in {a} : x \in outstandingAdds[Carries[a]]}
        sent    == {x \in {a} : x \in completions}
    IN  Cardinality(FramePlaces(notify)) + Cardinality(waiting) + Cardinality(sent)
          <= IF a \in inTransitObjects THEN 1 ELSE 0

(* Somebody is still going to send AddObjectCompleted for a retained       *)
(* object, and no one twice: the look-ups, the shared requests and their   *)
(* completions neither lose nor repeat the notice (notifyTransferComplete). *)
TransferAccounted ==
  /\ \A a \in inTransitObjects : CompletionDue(a)
  /\ AtMostOneNotice

(* A blocked module is unblocked, whatever else is being transferred.      *)
EventuallyUnblocked == \A w \in Waits : w \in blocked ~> w \in delivered

(* What the transfer promises, whatever fetches it takes.                  *)
Delivery == INSTANCE ObjectDelivery
              WITH arrived <- {a \in announced : Intact(Carries[a])},
                   released <- announced \ inTransitObjects
DeliverySpec == Delivery!Spec
=============================================================================
