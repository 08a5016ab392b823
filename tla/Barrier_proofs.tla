--------------------------- MODULE Barrier_proofs ---------------------------
(***************************************************************************)
(* Barrier keeps its types, for any number of hubs, ranks and modules.     *)
(* The invariant says which messages each kind of queue may hold, and that *)
(* every barrier they are about was requested: from that follow the types  *)
(* of what their readers copy from them.                                   *)
(***************************************************************************)
EXTENDS Barrier, SequenceTheorems, FiniteSetTheorems, TLAPS

(* Messages of links down and up, and of processes, when n barriers have   *)
(* been requested.                                                         *)
ToModule == {"Spawn", "Kill", "Upstream"}
DownMsgs(n) ==
  {BarrierMsg(b) : b \in 1..n} \cup {Reached(b, HubId) : b \in 1..n}
  \cup {To(what, m) : what \in ToModule, m \in Modules}
  \cup {Exit(m, c) : m \in Modules, c \in BOOLEAN}
  \cup {Forwarded(m, c) : m \in Modules, c \in BOOLEAN}
UpMsgs(n) == {Reached(b, m) : b \in 1..n, m \in Modules}
             \cup {Exit(m, c) : m \in Modules, c \in BOOLEAN}
InMsgs(n) == {BarrierMsg(b) : b \in 1..n} \cup {To(what, m) : what \in ToModule, m \in Modules}
OutMsgs(n, m) == {Reached(b, m) : b \in 1..n} \cup {Work(b) : b \in 0..n} \cup {Exit(m, FALSE)}

DownLinks == {Down(h) : h \in Slaves} \cup {ToManager(h) : h \in Hubs}
             \cup {ToRank(g) : g \in {g \in Managers : g[2] # 0}}
UpLinks   == {Up(h) : h \in Slaves} \cup {FromManager(h) : h \in Hubs}

LinkTyped ==
  /\ link = [l \in Links |-> link[l]]
  /\ \A l \in DownLinks : link[l] \in Seq(DownMsgs(requested))
  /\ \A l \in UpLinks : link[l] \in Seq(UpMsgs(requested))

BoxTyped ==
  /\ inbox \in [Procs -> Seq(InMsgs(requested))]
  /\ outbox = [p \in Procs |-> outbox[p]]
  /\ \A p \in Procs : outbox[p] \in Seq(OutMsgs(requested, p[1]))

HubTyped ==
  /\ active \in [Hubs -> BOOLEAN] /\ uuid \in [Hubs -> 0..requested]
  /\ \A h \in Hubs : active[h] => uuid[h] > 0
  /\ participants \in 0..Cardinality(Modules)
  /\ reached \subseteq Modules /\ (requested = 0 => reached = {})
  /\ tracked \in [Modules -> {"unknown", "running", "crashed", "quit"}] /\ slaveQuit \subseteq Modules

ManagerTyped ==
  /\ mgrActive \in [Managers -> BOOLEAN] /\ mgrUuid \in [Managers -> 0..requested]
  /\ mgrReached \in [Managers -> SUBSET Modules]
  /\ runningMap \in [Managers -> [Modules -> {"unknown", "running", "crashed"}]]

ProcTyped ==
  /\ upstream \in [Procs -> BOOLEAN]
  /\ delayed \in [Procs -> 0..requested] /\ answered \in [Procs -> 0..requested]
  /\ alive \in [Modules -> {"not yet", "up", "exited", "crashed", "reported"}]

ScriptTyped ==
  /\ requested \in 0..MaxBarriers /\ pending \subseteq 1..requested
  /\ joined \in [Modules -> 0..requested] /\ killed \subseteq Modules

Typed == HubTyped /\ ManagerTyped /\ ProcTyped /\ ScriptTyped /\ LinkTyped /\ BoxTyped
-----------------------------------------------------------------------------
(* Constants and links *)

LEMMA Constants ==
  /\ Master \in Hubs /\ Slaves \subseteq Hubs /\ Master \notin Slaves
  /\ HubOf \in [Modules -> Hubs] /\ \A h \in Hubs : Size[h] \in Nat /\ 0 \in Ranks(h)
  /\ \A h \in Hubs : <<h, 0>> \in Managers
  /\ \A m \in Modules : <<m, 0>> \in Procs
  /\ \A g \in Managers : g[1] \in Hubs /\ g[2] \in Ranks(g[1]) /\ g = <<g[1], g[2]>>
  /\ \A p \in Procs : /\ p[1] \in Modules /\ p[2] \in Ranks(HubOf[p[1]]) /\ p = <<p[1], p[2]>>
                      /\ ManagerOf(p) \in Managers
  /\ \A g \in Managers, m \in Modules : HubOf[m] = g[1] => <<m, g[2]>> \in Procs
  /\ MaxBarriers \in Nat /\ Clients \in Nat /\ IsFiniteSet(Modules)
BY BarrierAssumption DEF Slaves, Ranks, Managers, Procs, ManagerOf

LEMMA LinksDiffer ==
  /\ \A h, k : /\ Down(h) # Up(k) /\ Down(h) # ToManager(k) /\ Down(h) # FromManager(k)
               /\ Up(h) # ToManager(k) /\ Up(h) # FromManager(k) /\ ToManager(h) # FromManager(k)
               /\ Down(h) = Down(k) => h = k
               /\ Up(h) = Up(k) => h = k
               /\ ToManager(h) = ToManager(k) => h = k
               /\ FromManager(h) = FromManager(k) => h = k
  /\ \A h, g : /\ Down(h) # ToRank(g) /\ Up(h) # ToRank(g)
               /\ ToManager(h) # ToRank(g) /\ FromManager(h) # ToRank(g)
  /\ \A h : Down(h) # Nothing /\ Up(h) # Nothing /\ ToManager(h) # Nothing /\ FromManager(h) # Nothing
  /\ \A g : ToRank(g) # Nothing
BY DEF Down, Up, ToManager, FromManager, ToRank, Nothing

LEMMA LinksTwoWays ==
  /\ Links = DownLinks \cup UpLinks
  /\ \A l \in DownLinks : l \notin UpLinks
  /\ Nothing \notin Links
  /\ \A h \in Slaves : Down(h) \in DownLinks /\ Up(h) \in UpLinks
  /\ \A h \in Hubs : ToManager(h) \in DownLinks /\ FromManager(h) \in UpLinks
  /\ \A g \in Managers : Source(g) \in DownLinks
  /\ \A g \in Managers : g[2] # 0 => ToRank(g) \in DownLinks
  /\ Incoming \subseteq UpLinks
<1>1. Links = DownLinks \cup UpLinks
  BY DEF Links, DownLinks, UpLinks
<1>2. \A l \in DownLinks : l \notin UpLinks
  BY LinksDiffer DEF DownLinks, UpLinks
<1>3. Nothing \notin Links
  BY LinksDiffer DEF Links
<1>4. \A g \in Managers : g[2] # 0 => ToRank(g) \in DownLinks
  BY DEF DownLinks
<1>5. /\ \A h \in Slaves : Down(h) \in DownLinks /\ Up(h) \in UpLinks
      /\ \A h \in Hubs : ToManager(h) \in DownLinks /\ FromManager(h) \in UpLinks
  BY DEF DownLinks, UpLinks
<1>6. \A g \in Managers : Source(g) \in DownLinks
  BY <1>4, <1>5, Constants DEF Source
<1>7. Incoming \subseteq UpLinks
  BY <1>5, Constants DEF Incoming
<1> QED BY <1>1, <1>2, <1>3, <1>4, <1>5, <1>6, <1>7

(* Messages *)

LEMMA MoreIds ==
  ASSUME NEW n \in Nat, NEW k \in Nat, n <= k
  PROVE  /\ \A q : q \in Seq(DownMsgs(n)) => q \in Seq(DownMsgs(k))
         /\ \A q : q \in Seq(UpMsgs(n)) => q \in Seq(UpMsgs(k))
         /\ \A q : q \in Seq(InMsgs(n)) => q \in Seq(InMsgs(k))
         /\ \A m, q : q \in Seq(OutMsgs(n, m)) => q \in Seq(OutMsgs(k, m))
<1>1. 1..n \subseteq 1..k /\ 0..n \subseteq 0..k
  OBVIOUS
<1>2. DownMsgs(n) \subseteq DownMsgs(k)
  BY <1>1 DEF DownMsgs
<1>3. UpMsgs(n) \subseteq UpMsgs(k)
  BY <1>1 DEF UpMsgs
<1>4. InMsgs(n) \subseteq InMsgs(k)
  BY <1>1 DEF InMsgs
<1>5. \A m : OutMsgs(n, m) \subseteq OutMsgs(k, m)
  BY <1>1 DEF OutMsgs
<1> QED BY <1>2, <1>3, <1>4, <1>5

LEMMA DownMsgRead ==
  ASSUME NEW n \in Nat, NEW x \in DownMsgs(n)
  PROVE  /\ x.type \in {"Barrier", "BarrierReached", "ModuleExit", "Forwarded"} \cup ToModule
         /\ x.type = "Barrier" => x.id \in 1..n /\ x = BarrierMsg(x.id)
         /\ x.type = "BarrierReached" => x.id \in 1..n /\ x = Reached(x.id, HubId)
         /\ x.type \in ToModule => x.module \in Modules /\ x = To(x.type, x.module)
         /\ x.type = "ModuleExit" => /\ x.module \in Modules /\ x.crashed \in BOOLEAN
                                     /\ x = Exit(x.module, x.crashed)
         /\ x.type = "Forwarded" => /\ x.module \in Modules /\ x.crashed \in BOOLEAN
                                    /\ x = Forwarded(x.module, x.crashed)
<1>1. CASE \E b \in 1..n : x = BarrierMsg(b)
  BY <1>1 DEF BarrierMsg, ToModule
<1>2. CASE \E b \in 1..n : x = Reached(b, HubId)
  BY <1>2 DEF Reached, ToModule
<1>3. CASE \E what \in ToModule, m \in Modules : x = To(what, m)
  BY <1>3 DEF To, ToModule
<1>4. CASE \E m \in Modules, c \in BOOLEAN : x = Exit(m, c)
  BY <1>4 DEF Exit, ToModule
<1>5. CASE \E m \in Modules, c \in BOOLEAN : x = Forwarded(m, c)
  BY <1>5 DEF Forwarded, ToModule
<1> QED BY <1>1, <1>2, <1>3, <1>4, <1>5 DEF DownMsgs

LEMMA UpMsgRead ==
  ASSUME NEW n \in Nat, NEW x \in UpMsgs(n)
  PROVE  /\ x.type \in {"BarrierReached", "ModuleExit"}
         /\ x.type = "BarrierReached" => /\ x.id \in 1..n /\ x.from \in Modules
                                         /\ x = Reached(x.id, x.from)
         /\ x.type = "ModuleExit" => /\ x.module \in Modules /\ x.crashed \in BOOLEAN
                                     /\ x = Exit(x.module, x.crashed)
<1>1. CASE \E b \in 1..n, m \in Modules : x = Reached(b, m)
  BY <1>1 DEF Reached
<1>2. CASE \E m \in Modules, c \in BOOLEAN : x = Exit(m, c)
  BY <1>2 DEF Exit
<1> QED BY <1>1, <1>2 DEF UpMsgs

LEMMA InMsgRead ==
  ASSUME NEW n \in Nat, NEW x \in InMsgs(n)
  PROVE  /\ x.type \in {"Barrier"} \cup ToModule
         /\ x.type = "Barrier" => x.id \in 1..n /\ x = BarrierMsg(x.id)
         /\ x.type \in ToModule => x.module \in Modules /\ x = To(x.type, x.module)
<1>1. CASE \E b \in 1..n : x = BarrierMsg(b)
  BY <1>1 DEF BarrierMsg, ToModule
<1>2. CASE \E what \in ToModule, m \in Modules : x = To(what, m)
  BY <1>2 DEF To, ToModule
<1> QED BY <1>1, <1>2 DEF InMsgs

LEMMA OutMsgRead ==
  ASSUME NEW n \in Nat, NEW m, NEW x \in OutMsgs(n, m)
  PROVE  /\ x.type \in {"BarrierReached", "Work", "ModuleExit"}
         /\ x.type = "BarrierReached" => x.id \in 1..n /\ x = Reached(x.id, m)
         /\ x.type = "Work" => x.id \in 0..n /\ x = Work(x.id)
         /\ x.type = "ModuleExit" => x = Exit(m, FALSE)
<1>1. CASE \E b \in 1..n : x = Reached(b, m)
  BY <1>1 DEF Reached
<1>2. CASE \E b \in 0..n : x = Work(b)
  BY <1>2 DEF Work
<1>3. CASE x = Exit(m, FALSE)
  BY <1>3 DEF Exit
<1> QED BY <1>1, <1>2, <1>3 DEF OutMsgs

LEMMA MsgMade ==
  ASSUME NEW n \in Nat
  PROVE  /\ \A b \in 1..n : BarrierMsg(b) \in DownMsgs(n) /\ BarrierMsg(b) \in InMsgs(n)
         /\ \A b \in 1..n : Reached(b, HubId) \in DownMsgs(n)
         /\ \A b \in 1..n, m \in Modules : Reached(b, m) \in UpMsgs(n)
         /\ \A what \in ToModule, m \in Modules : To(what, m) \in DownMsgs(n) /\ To(what, m) \in InMsgs(n)
         /\ \A m \in Modules, c \in BOOLEAN :
              Exit(m, c) \in DownMsgs(n) /\ Exit(m, c) \in UpMsgs(n) /\ Forwarded(m, c) \in DownMsgs(n)
         /\ \A m : /\ Exit(m, FALSE) \in OutMsgs(n, m)
                   /\ \A b \in 1..n : Reached(b, m) \in OutMsgs(n, m)
                   /\ \A b \in 0..n : Work(b) \in OutMsgs(n, m)
<1>1. /\ \A b \in 1..n : BarrierMsg(b) \in DownMsgs(n) /\ Reached(b, HubId) \in DownMsgs(n)
      /\ \A what \in ToModule, m \in Modules : To(what, m) \in DownMsgs(n)
      /\ \A m \in Modules, c \in BOOLEAN : Exit(m, c) \in DownMsgs(n) /\ Forwarded(m, c) \in DownMsgs(n)
  BY DEF DownMsgs
<1>2. /\ \A b \in 1..n, m \in Modules : Reached(b, m) \in UpMsgs(n)
      /\ \A m \in Modules, c \in BOOLEAN : Exit(m, c) \in UpMsgs(n)
  BY DEF UpMsgs
<1>3. /\ \A b \in 1..n : BarrierMsg(b) \in InMsgs(n)
      /\ \A what \in ToModule, m \in Modules : To(what, m) \in InMsgs(n)
  BY DEF InMsgs
<1>4. \A m : /\ Exit(m, FALSE) \in OutMsgs(n, m)
             /\ \A b \in 1..n : Reached(b, m) \in OutMsgs(n, m)
             /\ \A b \in 0..n : Work(b) \in OutMsgs(n, m)
  BY DEF OutMsgs
<1> QED BY <1>1, <1>2, <1>3, <1>4

-----------------------------------------------------------------------------
(* Types of links *)

LEMMA ConcatTyped ==
  ASSUME NEW X, NEW q \in Seq(X), NEW s \in Seq(X)
  PROVE  q \o s \in Seq(X) /\ q \o <<>> = q
OBVIOUS

LEMMA SinglesTyped ==
  ASSUME NEW X, NEW x \in X
  PROVE  <<x>> \in Seq(X) /\ \A y \in X : <<x, y>> \in Seq(X)
OBVIOUS

LEMMA HeadTyped ==
  ASSUME NEW X, NEW q \in Seq(X), q # <<>>
  PROVE  Head(q) \in X /\ Tail(q) \in Seq(X)
OBVIOUS

(* What is sent has the right type for the links it goes to.               *)
Fits(out, n) ==
  /\ \A l \in DownLinks : l \in DOMAIN out => out[l] \in Seq(DownMsgs(n))
  /\ \A l \in UpLinks : l \in DOMAIN out => out[l] \in Seq(UpMsgs(n))

LEMMA TransmitTyped ==
  ASSUME LinkTyped, requested \in Nat, requested' \in Nat, requested <= requested',
         NEW taken, taken \in Links => link[taken] # <<>>,
         NEW out, Fits(out, requested'), Transmit(taken, out)
  PROVE  LinkTyped'
<1>1. link' = [l \in Links |-> link'[l]]
  BY DEF Transmit
<1>2. ASSUME NEW X, NEW l \in Links, link[l] \in Seq(X), l \in DOMAIN out => out[l] \in Seq(X)
      PROVE  link'[l] \in Seq(X)
  <2>1. link'[l] = (IF l = taken THEN Tail(link[l]) ELSE link[l])
                   \o (IF l \in DOMAIN out THEN out[l] ELSE <<>>)
    BY DEF Transmit
  <2>2. (IF l = taken THEN Tail(link[l]) ELSE link[l]) \in Seq(X)
    BY <1>2, HeadTyped
  <2>3. (IF l \in DOMAIN out THEN out[l] ELSE <<>>) \in Seq(X)
    BY <1>2
  <2> QED BY <2>1, <2>2, <2>3, ConcatTyped
<1>3. ASSUME NEW l \in DownLinks PROVE link'[l] \in Seq(DownMsgs(requested'))
  <2>1. link[l] \in Seq(DownMsgs(requested'))
    BY MoreIds DEF LinkTyped
  <2> QED BY <1>2, <2>1, LinksTwoWays DEF Fits
<1>4. ASSUME NEW l \in UpLinks PROVE link'[l] \in Seq(UpMsgs(requested'))
  <2>1. link[l] \in Seq(UpMsgs(requested'))
    BY MoreIds DEF LinkTyped
  <2> QED BY <1>2, <2>1, LinksTwoWays DEF Fits
<1> QED BY <1>1, <1>3, <1>4 DEF LinkTyped

LEMMA NothingFits == \A n : Fits(Nothing, n) /\ DOMAIN Nothing = {}
BY DEF Fits, Nothing

LEMMA AlongFits ==
  ASSUME NEW n, NEW l, NEW msgs,
         l \in DownLinks => msgs \in Seq(DownMsgs(n)), l \in UpLinks => msgs \in Seq(UpMsgs(n))
  PROVE  Fits(Along(l, msgs), n)
BY DEF Fits, Along

LEMMA BothFits ==
  ASSUME NEW n, NEW f, NEW g, Fits(f, n), Fits(g, n)
  PROVE  Fits(Both(f, g), n)
BY DEF Fits, Both

LEMMA RankedFits ==
  ASSUME NEW n, NEW g, NEW msgs \in Seq(DownMsgs(n))
  PROVE  Fits(Ranked(g, msgs), n)
<1>1. CASE g[2] # 0
  BY <1>1, NothingFits DEF Ranked
<1>2. CASE g[2] = 0
  <2> DEFINE D == {ToRank(f) : f \in {f \in Managers : f[1] = g[1] /\ f[2] # 0}}
  <2>1. D \subseteq DownLinks
    BY DEF DownLinks
  <2>2. Ranked(g, msgs) = [l \in D |-> msgs]
    BY <1>2 DEF Ranked
  <2> HIDE DEF D
  <2> QED BY <2>1, <2>2, LinksTwoWays DEF Fits
<1> QED BY <1>1, <1>2

LEMMA ToAllFits ==
  ASSUME NEW n, NEW x \in DownMsgs(n)
  PROVE  Fits(ToAll(x), n)
<1> DEFINE D == {Down(h) : h \in Slaves} \cup {ToManager(Master)}
<1>1. D \subseteq DownLinks
  BY LinksTwoWays, Constants DEF DownLinks
<1>2. ToAll(x) = [l \in D |-> <<x>>]
  BY DEF ToAll
<1>3. <<x>> \in Seq(DownMsgs(n))
  BY SinglesTyped
<1> HIDE DEF D
<1> QED BY <1>1, <1>2, <1>3, LinksTwoWays DEF Fits

LEMMA RouteFits ==
  ASSUME NEW n, NEW m \in Modules, NEW x \in DownMsgs(n)
  PROVE  Fits(Route(m, x), n)
<1>1. (IF HubOf[m] = Master THEN ToManager(Master) ELSE Down(HubOf[m])) \in DownLinks
  BY LinksTwoWays, Constants DEF Slaves
<1> QED BY <1>1, AlongFits, SinglesTyped, LinksTwoWays DEF Route

LEMMA ToHubFits ==
  ASSUME NEW n, NEW g \in Managers, NEW x \in UpMsgs(n)
  PROVE  Fits(ToHub(g, x), n)
<1>1. FromManager(g[1]) \in UpLinks /\ FromManager(g[1]) \notin DownLinks
  BY LinksTwoWays, Constants
<1> QED BY <1>1, AlongFits, SinglesTyped, NothingFits DEF ToHub

LEMMA ToMasterFits ==
  ASSUME NEW n, NEW x \in DownMsgs(n)
  PROVE  Fits(ToMaster(x), n)
<1>1. ToManager(Master) \in DownLinks /\ ToManager(Master) \notin UpLinks
  BY LinksTwoWays, Constants
<1> QED BY <1>1, AlongFits, SinglesTyped DEF ToMaster

-----------------------------------------------------------------------------
(* Types *)

LEMMA InitTyped == Init => Typed
<1> SUFFICES ASSUME Init PROVE Typed
  OBVIOUS
<1>1. \A X : <<>> \in Seq(X)
  OBVIOUS
<1>2. LinkTyped
  BY <1>1, LinksTwoWays DEF Init, LinkTyped
<1>3. BoxTyped
  BY <1>1 DEF Init, BoxTyped
<1>3a. 0 \in 0..0 /\ 0 \in 0..Cardinality(Modules) /\ 0 \in 0..MaxBarriers
  BY FS_CardinalityType, Constants
<1>4. requested = 0 /\ 0 \in 0..0 /\ 0 \in 0..Cardinality(Modules) /\ 0 \in 0..MaxBarriers
  BY <1>3a DEF Init
<1>5. HubTyped
  BY <1>4 DEF Init, HubTyped
<1>6. ManagerTyped /\ ProcTyped
  BY <1>4 DEF Init, ManagerTyped, ProcTyped
<1>7. ScriptTyped
  BY <1>4 DEF Init, ScriptTyped
<1> QED BY <1>2, <1>3, <1>5, <1>6, <1>7 DEF Typed

LEMMA TypedTypeOK == Typed => TypeOK
<1> SUFFICES ASSUME Typed PROVE TypeOK
  OBVIOUS
<1>1. requested \in 0..MaxBarriers
  BY DEF Typed, ScriptTyped
<1>2. 0..requested \subseteq 0..MaxBarriers
  BY <1>1, Constants
<1> QED BY <1>1, <1>2 DEF Typed, HubTyped, ManagerTyped, ProcTyped, ScriptTyped, TypeOK

LEMMA RequestedTyped ==
  ASSUME Typed
  PROVE  requested \in Nat /\ requested <= MaxBarriers /\ requested \in 0..MaxBarriers
<1>1. requested \in 0..MaxBarriers
  BY DEF Typed, ScriptTyped
<1> QED BY <1>1, Constants

LEMMA Counted2 ==
  ASSUME NEW S, S \subseteq Modules
  PROVE  IsFiniteSet(S) /\ Cardinality(S) \in 0..Cardinality(Modules)
BY FS_Subset, FS_CardinalityType, Constants

LEMMA HeadDown ==
  ASSUME Typed, NEW l \in DownLinks, link[l] # <<>>
  PROVE  /\ Head(link[l]) \in DownMsgs(requested) /\ requested \in Nat
         /\ <<Head(link[l])>> \in Seq(DownMsgs(requested))
<1>1. link[l] \in Seq(DownMsgs(requested)) /\ requested \in Nat
  BY RequestedTyped DEF Typed, LinkTyped
<1> QED BY <1>1, HeadTyped, SinglesTyped

LEMMA HeadUp ==
  ASSUME Typed, NEW l \in UpLinks, link[l] # <<>>
  PROVE  /\ Head(link[l]) \in UpMsgs(requested) /\ requested \in Nat
         /\ <<Head(link[l])>> \in Seq(UpMsgs(requested))
<1>1. link[l] \in Seq(UpMsgs(requested)) /\ requested \in Nat
  BY RequestedTyped DEF Typed, LinkTyped
<1> QED BY <1>1, HeadTyped, SinglesTyped

LEMMA HeadOut ==
  ASSUME Typed, NEW p \in Procs, outbox[p] # <<>>
  PROVE  Head(outbox[p]) \in OutMsgs(requested, p[1]) /\ requested \in Nat
<1>1. outbox[p] \in Seq(OutMsgs(requested, p[1])) /\ requested \in Nat
  BY RequestedTyped DEF Typed, BoxTyped
<1> QED BY <1>1, HeadTyped

LEMMA HeadIn ==
  ASSUME Typed, NEW p \in Procs, inbox[p] # <<>>
  PROVE  Head(inbox[p]) \in InMsgs(requested) /\ requested \in Nat
<1>1. inbox[p] \in Seq(InMsgs(requested)) /\ requested \in Nat
  BY RequestedTyped DEF Typed, BoxTyped
<1> QED BY <1>1, HeadTyped

(* What a step leaves unchanged keeps its type.                            *)
LEMMA TransmitSame ==
  ASSUME Typed, requested' = requested,
         NEW taken, taken \in Links => link[taken] # <<>>,
         NEW out, Fits(out, requested), Transmit(taken, out)
  PROVE  LinkTyped'
<1>1. requested \in Nat
  BY RequestedTyped
<1> QED BY <1>1, TransmitTyped DEF Typed

LEMMA DeliverSame ==
  ASSUME Typed, requested' = requested, NEW out, Fits(out, requested), Deliver(out)
  PROVE  LinkTyped'
<1>1. Nothing \notin Links
  BY LinksTwoWays
<1> QED BY <1>1, TransmitSame DEF Deliver, Nothing

LEMMA SameParts ==
  ASSUME Typed, requested' = requested
  PROVE  /\ UNCHANGED hub => HubTyped'
         /\ UNCHANGED manager => ManagerTyped'
         /\ UNCHANGED process => ProcTyped'
         /\ UNCHANGED <<pending, joined, killed>> => ScriptTyped'
<1>1. UNCHANGED hub => HubTyped'
  BY DEF Typed, HubTyped, hub
<1>2. UNCHANGED manager => ManagerTyped'
  BY DEF Typed, ManagerTyped, manager
<1>3. UNCHANGED process => ProcTyped'
  BY DEF Typed, ProcTyped, process
<1>4. UNCHANGED <<pending, joined, killed>> => ScriptTyped'
  BY DEF Typed, ScriptTyped
<1> QED BY <1>1, <1>2, <1>3, <1>4

LEMMA SameLinks ==
  ASSUME Typed, requested' = requested, UNCHANGED link
  PROVE  LinkTyped'
BY DEF Typed, LinkTyped

LEMMA SameBoxes ==
  ASSUME Typed, requested' = requested
  PROVE  UNCHANGED <<inbox, outbox>> => BoxTyped'
BY DEF Typed, BoxTyped

LEMMA InboxSame ==
  ASSUME Typed, requested' = requested, inbox' \in [Procs -> Seq(InMsgs(requested))], UNCHANGED outbox
  PROVE  BoxTyped'
BY DEF Typed, BoxTyped

LEMMA OutboxSame ==
  ASSUME Typed, requested' = requested, NEW p \in Procs, NEW q \in Seq(OutMsgs(requested, p[1])),
         outbox' = [outbox EXCEPT ![p] = q], inbox' \in [Procs -> Seq(InMsgs(requested))]
  PROVE  BoxTyped'
<1>1. outbox = [x \in Procs |-> outbox[x]]
  BY DEF Typed, BoxTyped
<1>2. outbox' = [x \in Procs |-> outbox'[x]] /\ \A x \in Procs : outbox'[x] = IF x = p THEN q ELSE outbox[x]
  BY <1>1
<1> QED BY <1>2 DEF Typed, BoxTyped

LEMMA SendModulesTyped ==
  ASSUME Typed, requested' = requested, NEW g, NEW ms, NEW x \in InMsgs(requested), SendModules(g, ms, x)
  PROVE  inbox' \in [Procs -> Seq(InMsgs(requested))]
<1>1. \A p \in Procs : Append(inbox[p], x) \in Seq(InMsgs(requested))
  BY DEF Typed, BoxTyped
<1> QED BY <1>1 DEF SendModules, Typed, BoxTyped

-----------------------------------------------------------------------------
(* Types after a step of the master hub *)

LEMMA RequestTyped ==
  ASSUME Typed, RequestBarrier
  PROVE  Typed'
<1>1. /\ requested \in Nat /\ requested' = requested + 1 /\ requested' \in 0..MaxBarriers
      /\ requested \in 0..requested' /\ requested' \in 1..requested' /\ requested <= requested'
      /\ 0..requested \subseteq 0..requested' /\ 1..requested \subseteq 1..requested' /\ requested' # 0
      /\ requested' > 0 /\ requested' \in Nat
  <2>1. requested' = requested + 1 /\ requested < MaxBarriers
    BY DEF RequestBarrier
  <2> QED BY <2>1, RequestedTyped, Constants
<1>2. Master \in Hubs /\ NumRunning \subseteq Modules /\ Cardinality(NumRunning) \in 0..Cardinality(Modules)
  BY Constants, Counted2 DEF NumRunning
<1>3. Fits(ToAll(Reached(requested', HubId)), requested') /\ Fits(ToAll(BarrierMsg(requested')), requested')
  <2>1. Reached(requested', HubId) \in DownMsgs(requested') /\ BarrierMsg(requested') \in DownMsgs(requested')
    BY <1>1, MsgMade
  <2> QED BY <2>1, ToAllFits
<1>4. LinkTyped'
  <2>1. LinkTyped /\ Nothing \notin Links
    BY LinksTwoWays DEF Typed
  <2>2. CASE NumRunning = {}
    BY <1>1, <1>3, <2>1, <2>2, TransmitTyped DEF RequestBarrier, Deliver, Nothing
  <2>3. CASE NumRunning # {}
    BY <1>1, <1>3, <2>1, <2>3, TransmitTyped DEF RequestBarrier, Deliver, Nothing
  <2> QED BY <2>2, <2>3
<1>5. HubTyped'
  <2>1. /\ uuid' \in [Hubs -> 0..requested'] /\ active' \in [Hubs -> BOOLEAN]
        /\ \A h \in Hubs : active'[h] => uuid'[h] > 0
    <3>1. /\ active \in [Hubs -> BOOLEAN] /\ uuid \in [Hubs -> 0..requested]
          /\ \A h \in Hubs : active[h] => uuid[h] > 0
      BY DEF Typed, HubTyped
    <3>2. uuid \in [Hubs -> 0..requested']
      BY <1>1, <3>1
    <3>3. \/ UNCHANGED <<active, uuid>>
          \/ /\ active' = [active EXCEPT ![Master] = TRUE]
             /\ uuid' = [uuid EXCEPT ![Master] = requested']
      BY DEF RequestBarrier
    <3>4. requested' \in 0..requested'
      BY <1>1
    <3> QED BY <1>1, <1>2, <3>1, <3>2, <3>3, <3>4
  <2>2. participants' = Cardinality(NumRunning) /\ UNCHANGED <<reached, tracked, slaveQuit>>
    BY DEF RequestBarrier
  <2> QED BY <1>1, <1>2, <2>1, <2>2 DEF Typed, HubTyped
<1>6. ManagerTyped' /\ ProcTyped'
  <2>1. UNCHANGED <<manager, process>>
    BY DEF RequestBarrier
  <2> QED BY <1>1, <2>1 DEF Typed, ManagerTyped, ProcTyped, manager, process
<1>7. ScriptTyped'
  <2>1. pending' \subseteq 1..requested'
    BY <1>1 DEF RequestBarrier, Typed, ScriptTyped
  <2>2. UNCHANGED <<joined, killed>>
    BY DEF RequestBarrier
  <2> QED BY <1>1, <2>1, <2>2 DEF Typed, ScriptTyped
<1>8. BoxTyped'
  <2>1. UNCHANGED <<inbox, outbox>>
    BY DEF RequestBarrier
  <2> QED BY <1>1, <2>1, MoreIds DEF Typed, BoxTyped
<1> QED BY <1>4, <1>5, <1>6, <1>7, <1>8 DEF Typed

LEMMA ArrivesTyped ==
  ASSUME Typed, requested' = requested, NEW l \in Incoming, link[l] # <<>>,
         NEW m \in Modules, NEW b \in 1..requested, Arrives(l, m, b)
  PROVE  /\ LinkTyped' /\ active' \in [Hubs -> BOOLEAN]
         /\ \A h \in Hubs : active'[h] => active[h]
         /\ reached' \subseteq Modules /\ pending' \subseteq pending
<1>1. Fits(ToAll(Reached(b, HubId)), requested) /\ Fits(Nothing, requested)
  BY RequestedTyped, ToAllFits, MsgMade, NothingFits
<1>2. LinkTyped'
  <2>1. \E out : Fits(out, requested) /\ Transmit(l, out)
    BY <1>1 DEF Arrives
  <2> QED BY <2>1, TransmitSame
<1> QED BY <1>2, Constants DEF Arrives, Typed, HubTyped

LEMMA MasterReachedTyped ==
  ASSUME Typed, NEW l \in Incoming, MasterBarrierReached(l)
  PROVE  Typed'
<1>1. requested' = requested /\ link[l] # <<>> /\ Head(link[l]).type = "BarrierReached"
  BY DEF MasterBarrierReached, AtHead
<1>2. Head(link[l]).from \in Modules /\ Head(link[l]).id \in 1..requested
  BY <1>1, HeadUp, LinksTwoWays, UpMsgRead
<1>3. Arrives(l, Head(link[l]).from, Head(link[l]).id)
  BY DEF MasterBarrierReached
<1>4. /\ LinkTyped' /\ active' \in [Hubs -> BOOLEAN]
      /\ \A h \in Hubs : active'[h] => active[h]
      /\ reached' \subseteq Modules /\ pending' \subseteq pending
  BY <1>1, <1>2, <1>3, ArrivesTyped
<1>5. UNCHANGED <<uuid, participants, tracked, slaveQuit, manager, inbox, outbox, process, joined, killed>>
  BY DEF MasterBarrierReached
<1>6. HubTyped'
  <2>1. requested' = 0 => reached' = {}
    BY <1>1, <1>2
  <2> QED BY <1>1, <1>4, <1>5, <2>1 DEF Typed, HubTyped
<1>7. ScriptTyped'
  BY <1>1, <1>4, <1>5 DEF Typed, ScriptTyped
<1> QED BY <1>1, <1>4, <1>5, <1>6, <1>7, SameParts, SameBoxes DEF Typed

LEMMA MasterExitTyped ==
  ASSUME Typed, NEW l \in Incoming, MasterModuleExit(l)
  PROVE  Typed'
<1>1. requested' = requested /\ link[l] # <<>> /\ Head(link[l]).type = "ModuleExit"
  BY DEF MasterModuleExit, AtHead
<1>2. Head(link[l]).module \in Modules
  BY <1>1, HeadUp, LinksTwoWays, UpMsgRead
<1>3. tracked' \in [Modules -> {"unknown", "running", "crashed", "quit"}]
  BY <1>2 DEF MasterModuleExit, Typed, HubTyped
<1>4. UNCHANGED <<uuid, participants, slaveQuit, manager, inbox, outbox, process, joined, killed>>
  BY DEF MasterModuleExit
<1>5. /\ LinkTyped' /\ active' \in [Hubs -> BOOLEAN]
      /\ \A h \in Hubs : active'[h] => active[h]
      /\ reached' \subseteq Modules /\ pending' \subseteq pending
      /\ requested = 0 => reached' = {}
  <2>1. CASE active[Master]
    <3>1. uuid[Master] \in 1..requested
      <4>1. uuid[Master] \in 0..requested /\ uuid[Master] > 0
        BY <2>1, Constants DEF Typed, HubTyped
      <4> QED BY <4>1, RequestedTyped
    <3>2. requested # 0
      BY <3>1
    <3>3. Arrives(l, Head(link[l]).module, uuid[Master])
      BY <2>1 DEF MasterModuleExit
    <3> QED BY <1>1, <1>2, <3>1, <3>2, <3>3, ArrivesTyped
  <2>2. CASE ~active[Master]
    <3>1. Transmit(l, Nothing) /\ UNCHANGED <<active, reached, pending>>
      BY <2>2 DEF MasterModuleExit
    <3>2. LinkTyped'
      BY <1>1, <3>1, TransmitSame, NothingFits
    <3> QED BY <3>1, <3>2 DEF Typed, HubTyped
  <2> QED BY <2>1, <2>2
<1>6. HubTyped'
  BY <1>1, <1>3, <1>4, <1>5 DEF Typed, HubTyped
<1>7. ScriptTyped'
  BY <1>1, <1>4, <1>5 DEF Typed, ScriptTyped
<1> QED BY <1>1, <1>4, <1>5, <1>6, <1>7, SameParts, SameBoxes DEF Typed

LEMMA ScriptSteps ==
  ASSUME Typed, NEW m \in Modules, Spawn(m) \/ Kill(m) \/ Execute(m)
  PROVE  Typed'
<1>1. requested' = requested /\ requested \in 0..requested
  <2>1. requested' = requested
    BY DEF Spawn, Kill, Execute
  <2> QED BY <2>1, RequestedTyped
<1>2. UNCHANGED <<active, uuid, participants, reached, slaveQuit, manager, inbox, outbox, process, pending>>
  BY DEF Spawn, Kill, Execute, hub
<1>3. \A what \in ToModule : Fits(Route(m, To(what, m)), requested)
  BY RequestedTyped, RouteFits, MsgMade
<1>4. Fits(ToMaster(Exit(m, FALSE)), requested)
  BY RequestedTyped, ToMasterFits, MsgMade
<1>5. LinkTyped'
  <2>1. \E out : Fits(out, requested) /\ Deliver(out)
    BY <1>3, <1>4 DEF Spawn, Kill, Execute, ToModule
  <2> QED BY <1>1, <2>1, DeliverSame
<1>6. tracked' \in [Modules -> {"unknown", "running", "crashed", "quit"}]
  BY DEF Spawn, Kill, Execute, hub, Typed, HubTyped
<1>7. HubTyped'
  BY <1>1, <1>2, <1>6 DEF Typed, HubTyped
<1>8. joined' \in [Modules -> 0..requested] /\ killed' \subseteq Modules
  BY <1>1 DEF Spawn, Kill, Execute, Typed, ScriptTyped
<1>9. ScriptTyped'
  BY <1>1, <1>2, <1>8 DEF Typed, ScriptTyped
<1> QED BY <1>1, <1>2, <1>5, <1>7, <1>9, SameParts, SameBoxes DEF Typed

-----------------------------------------------------------------------------
(* Types after a step of a slave hub *)

LEMMA SlaveTyped ==
  ASSUME Typed, NEW h \in Slaves, SlaveHub(h)
  PROVE  Typed'
<1>1. h \in Hubs /\ Down(h) \in DownLinks /\ Up(h) \in UpLinks /\ Up(h) \notin DownLinks
      /\ ToManager(h) \in DownLinks /\ ToManager(h) \notin UpLinks /\ FromManager(h) \in UpLinks
  BY Constants, LinksTwoWays
<1>2. UNCHANGED <<participants, reached, tracked, manager, inbox, outbox, process, requested, pending, joined, killed>>
  BY DEF SlaveHub, SlaveBarrier, SlaveBarrierReached, RelayDown, RelayUp, SlaveModuleExit, hub, script
<1>3. ASSUME NEW x \in DownMsgs(requested) PROVE Fits(Along(ToManager(h), <<x>>), requested)
  BY <1>1, <1>3, AlongFits, SinglesTyped
<1>4. ASSUME NEW q \in Seq(UpMsgs(requested)) PROVE Fits(Along(Up(h), q), requested)
  BY <1>1, <1>4, AlongFits
<1>5. CASE SlaveBarrier(h)
  <2>1. link[Down(h)] # <<>> /\ Head(link[Down(h)]).type = "Barrier"
    BY <1>5 DEF SlaveBarrier, AtHead
  <2>2. Head(link[Down(h)]) \in DownMsgs(requested) /\ Head(link[Down(h)]).id \in 1..requested
    BY <1>1, <2>1, HeadDown, DownMsgRead
  <2>3. LinkTyped'
    BY <1>2, <1>3, <1>5, <2>1, <2>2, TransmitSame DEF SlaveBarrier
  <2>4. HubTyped'
    <3>1. Head(link[Down(h)]).id \in 0..requested /\ Head(link[Down(h)]).id > 0
      BY <2>2, RequestedTyped
    <3>2. /\ active' = [active EXCEPT ![h] = TRUE]
          /\ uuid' = [uuid EXCEPT ![h] = Head(link[Down(h)]).id]
          /\ UNCHANGED slaveQuit
      BY <1>5 DEF SlaveBarrier
    <3> QED BY <1>1, <1>2, <3>1, <3>2 DEF Typed, HubTyped
  <2> QED BY <1>2, <2>3, <2>4, SameParts, SameBoxes DEF Typed
<1>6. CASE SlaveBarrierReached(h)
  <2>1. link[Down(h)] # <<>> /\ Head(link[Down(h)]) \in DownMsgs(requested)
    BY <1>1, <1>6, HeadDown DEF SlaveBarrierReached, AtHead
  <2>2. LinkTyped'
    BY <1>2, <1>3, <1>6, <2>1, TransmitSame DEF SlaveBarrierReached
  <2>3. HubTyped'
    BY <1>1, <1>2, <1>6 DEF Typed, HubTyped, SlaveBarrierReached
  <2> QED BY <1>2, <2>2, <2>3, SameParts, SameBoxes DEF Typed
<1>7. CASE RelayDown(h)
  <2>1. link[Down(h)] # <<>> /\ Head(link[Down(h)]) \in DownMsgs(requested)
    BY <1>1, <1>7, HeadDown DEF RelayDown, AtHead
  <2>2. LinkTyped'
    BY <1>2, <1>3, <1>7, <2>1, TransmitSame DEF RelayDown
  <2>3. UNCHANGED hub
    BY <1>7 DEF RelayDown
  <2> QED BY <1>2, <2>2, <2>3, SameParts, SameBoxes DEF Typed
<1>8. CASE RelayUp(h)
  <2>1. link[FromManager(h)] # <<>> /\ <<Head(link[FromManager(h)])>> \in Seq(UpMsgs(requested))
    BY <1>1, <1>8, HeadUp DEF RelayUp, AtHead
  <2>2. LinkTyped'
    BY <1>2, <1>4, <1>8, <2>1, TransmitSame DEF RelayUp
  <2>3. UNCHANGED hub
    BY <1>8 DEF RelayUp
  <2> QED BY <1>2, <2>2, <2>3, SameParts, SameBoxes DEF Typed
<1>9. CASE SlaveModuleExit(h)
  <2> DEFINE exit == Head(link[FromManager(h)])
             msgs == IF active[h] THEN <<Reached(uuid[h], exit.module), exit>> ELSE <<exit>>
  <2>1. link[FromManager(h)] # <<>> /\ exit.type = "ModuleExit"
    BY <1>9 DEF SlaveModuleExit, AtHead
  <2>2. exit \in UpMsgs(requested) /\ exit.module \in Modules
    BY <1>1, <2>1, HeadUp, UpMsgRead
  <2>3. msgs \in Seq(UpMsgs(requested))
    <3>1. CASE active[h]
      <4>1. uuid[h] \in 0..requested /\ uuid[h] > 0
        BY <1>1, <3>1 DEF Typed, HubTyped
      <4>2. uuid[h] \in 1..requested
        BY <4>1, RequestedTyped
      <4>3. Reached(uuid[h], exit.module) \in UpMsgs(requested)
        BY <2>2, <4>2, RequestedTyped, MsgMade
      <4> QED BY <2>2, <3>1, <4>3, SinglesTyped
    <3>2. CASE ~active[h]
      BY <2>2, <3>2, SinglesTyped
    <3> QED BY <3>1, <3>2
  <2>4. Transmit(FromManager(h), Along(Up(h), msgs))
    BY <1>9 DEF SlaveModuleExit
  <2>5. LinkTyped'
    BY <1>2, <1>4, <2>1, <2>3, <2>4, TransmitSame
  <2>6. HubTyped'
    <3>1. UNCHANGED <<active, uuid>> /\ slaveQuit' \subseteq slaveQuit \cup {exit.module}
      BY <1>9 DEF SlaveModuleExit
    <3> QED BY <1>2, <2>2, <3>1 DEF Typed, HubTyped
  <2> QED BY <1>2, <2>5, <2>6, SameParts, SameBoxes DEF Typed
<1> QED BY <1>5, <1>6, <1>7, <1>8, <1>9 DEF SlaveHub

-----------------------------------------------------------------------------
(* Types after a step of a manager *)

LEMMA ArrivedHead ==
  ASSUME Typed, NEW g \in Managers, NEW type, Arrived(g, type)
  PROVE  /\ link[Source(g)] # <<>> /\ Head(link[Source(g)]).type = type
         /\ Head(link[Source(g)]) \in DownMsgs(requested)
         /\ <<Head(link[Source(g)])>> \in Seq(DownMsgs(requested))
BY HeadDown, LinksTwoWays DEF Arrived, AtHead

LEMMA MgrTyped ==
  ASSUME Typed, NEW g \in Managers, MgrBarrier(g) \/ MgrBarrierReached(g) \/ MgrSpawn(g) \/ MgrToModule(g)
  PROVE  Typed'
<1>1. UNCHANGED <<hub, outbox, upstream, delayed, answered, script>>
  BY DEF MgrBarrier, MgrBarrierReached, MgrSpawn, MgrToModule, process
<1>2. requested' = requested /\ UNCHANGED <<pending, joined, killed>>
  BY <1>1 DEF script
<1>3. /\ Transmit(Source(g), Ranked(g, <<Head(link[Source(g)])>>))
      /\ link[Source(g)] # <<>> /\ <<Head(link[Source(g)])>> \in Seq(DownMsgs(requested))
  BY ArrivedHead DEF MgrBarrier, MgrBarrierReached, MgrSpawn, MgrToModule
<1>4. LinkTyped'
  BY <1>2, <1>3, RankedFits, TransmitSame
<1>5. CASE MgrBarrier(g)
  <2> DEFINE barrier == Head(link[Source(g)])
  <2>1. barrier.id \in 1..requested /\ barrier \in InMsgs(requested)
    <3>1. Arrived(g, "Barrier")
      BY <1>5 DEF MgrBarrier
    <3>2. barrier \in DownMsgs(requested) /\ barrier.type = "Barrier" /\ requested \in Nat
      BY <3>1, ArrivedHead, RequestedTyped
    <3>3. barrier.id \in 1..requested /\ barrier = BarrierMsg(barrier.id)
      BY <3>2, DownMsgRead
    <3>4. BarrierMsg(barrier.id) \in InMsgs(requested)
      BY <3>2, <3>3, MsgMade
    <3> QED BY <3>3, <3>4
  <2>2. barrier.id \in 0..requested
    BY <2>1, RequestedTyped
  <2>3. /\ mgrActive' = [mgrActive EXCEPT ![g] = TRUE] /\ mgrUuid' = [mgrUuid EXCEPT ![g] = barrier.id]
        /\ UNCHANGED <<mgrReached, runningMap, process>> /\ SendModules(g, LocalModules(g), barrier)
    BY <1>5 DEF MgrBarrier
  <2>4. ManagerTyped'
    BY <1>2, <2>2, <2>3 DEF Typed, ManagerTyped
  <2>5. BoxTyped'
    BY <1>1, <1>2, <2>1, <2>3, SendModulesTyped, InboxSame
  <2> QED BY <1>1, <1>2, <1>4, <2>3, <2>4, <2>5, SameParts DEF Typed
<1>6. CASE MgrBarrierReached(g)
  <2>1. UNCHANGED <<mgrUuid, runningMap, inbox, process>>
    BY <1>6 DEF MgrBarrierReached
  <2>2. mgrReached' \in [Managers -> SUBSET Modules] /\ mgrActive' \in [Managers -> BOOLEAN]
    BY <1>6 DEF MgrBarrierReached, Typed, ManagerTyped
  <2>3. ManagerTyped'
    BY <1>2, <2>1, <2>2 DEF Typed, ManagerTyped
  <2> QED BY <1>1, <1>2, <1>4, <2>1, <2>3, SameParts, SameBoxes DEF Typed
<1>7. CASE MgrSpawn(g)
  <2> DEFINE m == Head(link[Source(g)]).module
  <2>1. m \in Modules
    <3>1. Arrived(g, "Spawn")
      BY <1>7 DEF MgrSpawn
    <3> QED BY <3>1, ArrivedHead, DownMsgRead, RequestedTyped DEF ToModule
  <2>2. /\ UNCHANGED <<mgrActive, mgrUuid, mgrReached, inbox>>
        /\ runningMap' = [runningMap EXCEPT ![g][m] = "running"]
        /\ alive' = alive \/ alive' = [alive EXCEPT ![m] = "up"]
    BY <1>7 DEF MgrSpawn
  <2>3. ManagerTyped'
    BY <1>2, <2>1, <2>2 DEF Typed, ManagerTyped
  <2>4. ProcTyped'
    BY <1>1, <1>2, <2>1, <2>2 DEF Typed, ProcTyped
  <2> QED BY <1>1, <1>2, <1>4, <2>2, <2>3, <2>4, SameParts, SameBoxes DEF Typed
<1>8. CASE MgrToModule(g)
  <2> DEFINE msg == Head(link[Source(g)])
  <2>1. msg \in InMsgs(requested)
    <3>1. \E type \in {"Kill", "Upstream"} : Arrived(g, type)
      BY <1>8 DEF MgrToModule
    <3>2. msg \in DownMsgs(requested) /\ msg.type \in ToModule /\ requested \in Nat
      BY <3>1, ArrivedHead, RequestedTyped DEF ToModule
    <3>3. msg.module \in Modules /\ msg = To(msg.type, msg.module)
      BY <3>2, DownMsgRead
    <3>4. To(msg.type, msg.module) \in InMsgs(requested)
      BY <3>2, <3>3, MsgMade
    <3> QED BY <3>3, <3>4
  <2>2. UNCHANGED <<manager, process>> /\ SendModules(g, LocalModules(g) \cap {msg.module}, msg)
    BY <1>8 DEF MgrToModule
  <2>3. BoxTyped'
    BY <1>1, <1>2, <2>1, <2>2, SendModulesTyped, InboxSame
  <2> QED BY <1>1, <1>2, <1>4, <2>2, <2>3, SameParts DEF Typed
<1> QED BY <1>5, <1>6, <1>7, <1>8

LEMMA RemovedTyped ==
  ASSUME Typed, NEW g \in Managers, NEW m \in Modules, NEW c \in BOOLEAN
  PROVE  /\ Removed(g, m, c) \in [Managers -> [Modules -> {"unknown", "running", "crashed"}]]
         /\ Release(g, m) \in [Managers -> SUBSET Modules]
<1>1. Removed(g, m, c) \in [Managers -> [Modules -> {"unknown", "running", "crashed"}]]
  BY DEF Removed, Typed, ManagerTyped
<1>2. Release(g, m) \in [Managers -> SUBSET Modules]
  BY DEF Release, Typed, ManagerTyped
<1> QED BY <1>1, <1>2

LEMMA ForgetTyped ==
  ASSUME Typed, requested' = requested, UNCHANGED inbox, NEW g \in Managers, NEW m \in Modules,
         Local(g, m), Forget(g, m)
  PROVE  BoxTyped'
<1> DEFINE p == <<m, g[2]>>
<1>1. p \in Procs
  BY Constants DEF Local
<1>2. outbox[p] \in Seq(OutMsgs(requested, p[1])) /\ outbox = [x \in Procs |-> outbox[x]]
  BY <1>1 DEF Typed, BoxTyped
<1>3. PICK n \in 0..Len(outbox[p]) : outbox' = [outbox EXCEPT ![p] = SubSeq(@, n + 1, Len(@))]
  BY DEF Forget
<1>4. SubSeq(outbox[p], n + 1, Len(outbox[p])) \in Seq(OutMsgs(requested, p[1]))
  <2>1. ASSUME NEW X, NEW q \in Seq(X), NEW k \in 0..Len(q) PROVE SubSeq(q, k + 1, Len(q)) \in Seq(X)
    OBVIOUS
  <2> QED BY <1>2, <2>1
<1>5. outbox' = [outbox EXCEPT ![p] = SubSeq(outbox[p], n + 1, Len(outbox[p]))]
  BY <1>3
<1>6. inbox' \in [Procs -> Seq(InMsgs(requested))]
  BY DEF Typed, BoxTyped
<1> QED BY <1>1, <1>4, <1>5, <1>6, OutboxSame

LEMMA MgrExitTyped ==
  ASSUME Typed, NEW g \in Managers, MgrModuleExit(g)
  PROVE  Typed'
<1> DEFINE exit == Head(link[Source(g)])
           m == exit.module
<1>1. /\ exit.type \in {"ModuleExit", "Forwarded"} /\ exit \in DownMsgs(requested)
      /\ link[Source(g)] # <<>> /\ <<exit>> \in Seq(DownMsgs(requested))
  <2>1. \E type \in {"ModuleExit", "Forwarded"} : Arrived(g, type)
    BY DEF MgrModuleExit
  <2> QED BY <2>1, ArrivedHead
<1>2. m \in Modules /\ exit.crashed \in BOOLEAN
  BY <1>1, DownMsgRead, RequestedTyped
<1>3. UNCHANGED <<hub, mgrActive, mgrUuid, inbox, process, script>> /\ requested' = requested
      /\ UNCHANGED <<pending, joined, killed>>
  BY DEF MgrModuleExit, script
<1>4. LinkTyped'
  <2>1. Fits(Ranked(g, <<exit>>), requested)
    BY <1>1, RankedFits
  <2>2. Fits(Both(ToHub(g, Exit(m, exit.crashed)), Ranked(g, <<exit, Forwarded(m, exit.crashed)>>)), requested)
    <3>1. Exit(m, exit.crashed) \in UpMsgs(requested) /\ Forwarded(m, exit.crashed) \in DownMsgs(requested)
      BY <1>2, MsgMade, RequestedTyped
    <3>2. <<exit, Forwarded(m, exit.crashed)>> \in Seq(DownMsgs(requested))
      BY <1>1, <3>1, SinglesTyped
    <3> QED BY <3>1, <3>2, ToHubFits, RankedFits, BothFits
  <2>3. \E out : Fits(out, requested) /\ Transmit(Source(g), out)
    BY <2>1, <2>2 DEF MgrModuleExit
  <2> QED BY <1>1, <1>3, <2>3, TransmitSame
<1>5. mgrReached' \in [Managers -> SUBSET Modules]
  <2>1. mgrReached' = mgrReached \/ mgrReached' = Release(g, m)
    BY DEF MgrModuleExit
  <2> QED BY <1>2, <2>1, RemovedTyped DEF Typed, ManagerTyped
<1>6. \/ UNCHANGED <<runningMap, outbox>>
      \/ runningMap' = Removed(g, m, exit.crashed) /\ (outbox' = outbox \/ (Local(g, m) /\ Forget(g, m)))
  BY DEF MgrModuleExit
<1>7. ManagerTyped'
  BY <1>2, <1>3, <1>5, <1>6, RemovedTyped DEF Typed, ManagerTyped
<1>8. BoxTyped'
  BY <1>2, <1>3, <1>6, SameBoxes, ForgetTyped
<1> QED BY <1>3, <1>4, <1>7, <1>8, SameParts DEF Typed

LEMMA OutboxTail ==
  ASSUME Typed, NEW p \in Procs, outbox[p] # <<>>, requested' = requested, UNCHANGED inbox,
         outbox' = [outbox EXCEPT ![p] = Tail(@)]
  PROVE  BoxTyped'
<1>1. outbox[p] \in Seq(OutMsgs(requested, p[1])) /\ outbox = [x \in Procs |-> outbox[x]]
      /\ inbox' \in [Procs -> Seq(InMsgs(requested))]
  BY DEF Typed, BoxTyped
<1>2. Tail(outbox[p]) \in Seq(OutMsgs(requested, p[1]))
  BY <1>1, HeadTyped
<1>3. outbox' = [outbox EXCEPT ![p] = Tail(outbox[p])]
  OBVIOUS
<1> QED BY <1>1, <1>2, <1>3, OutboxSame

LEMMA OutboxAppend ==
  ASSUME Typed, NEW p \in Procs, NEW x \in OutMsgs(requested, p[1]), requested' = requested,
         inbox' \in [Procs -> Seq(InMsgs(requested))], outbox' = [outbox EXCEPT ![p] = Append(@, x)]
  PROVE  BoxTyped'
<1>1. outbox[p] \in Seq(OutMsgs(requested, p[1])) /\ outbox = [y \in Procs |-> outbox[y]]
  BY DEF Typed, BoxTyped
<1>2. Append(outbox[p], x) \in Seq(OutMsgs(requested, p[1]))
  BY <1>1
<1>3. outbox' = [outbox EXCEPT ![p] = Append(outbox[p], x)]
  OBVIOUS
<1> QED BY <1>1, <1>2, <1>3, OutboxSame

LEMMA FromProcTyped ==
  ASSUME Typed, NEW p \in Procs, FromProc(p)
  PROVE  Typed'
<1> DEFINE g == ManagerOf(p)
           m == p[1]
<1>1. UNCHANGED <<hub, mgrActive, mgrUuid, inbox, process, script>> /\ requested' = requested
      /\ UNCHANGED <<pending, joined, killed>>
  BY DEF FromProc, DropHeld, TakeWork, TakeBarrierReached, TakeModuleExit, manager, script
<1>2. outbox[p] # <<>> /\ outbox' = [outbox EXCEPT ![p] = Tail(@)]
  BY DEF FromProc, DropHeld, TakeWork, TakeBarrierReached, TakeModuleExit, Take, AtHead
<1>3. BoxTyped'
  BY <1>1, <1>2, OutboxTail
<1>4. g \in Managers /\ m \in Modules /\ FALSE \in BOOLEAN
  BY Constants
<1>5. Head(outbox[p]) \in OutMsgs(requested, m) /\ requested \in Nat
  BY <1>2, HeadOut
<1>6. LinkTyped' /\ mgrReached' \in [Managers -> SUBSET Modules]
      /\ runningMap' \in [Managers -> [Modules -> {"unknown", "running", "crashed"}]]
  <2>1. CASE DropHeld(p) \/ TakeWork(p)
    <3>1. UNCHANGED <<link, manager>>
      BY <2>1 DEF DropHeld, TakeWork
    <3>2. UNCHANGED <<mgrReached, runningMap>>
      BY <3>1 DEF manager
    <3>3. LinkTyped'
      BY <1>1, <3>1, SameLinks
    <3> QED BY <3>2, <3>3 DEF Typed, ManagerTyped
  <2>2. CASE TakeBarrierReached(p)
    <3>1. Head(outbox[p]).id \in 1..requested
      BY <1>5, <2>2, OutMsgRead DEF TakeBarrierReached, Take, AtHead
    <3>2. Fits(ToHub(g, Reached(Head(outbox[p]).id, m)), requested)
      BY <1>4, <1>5, <3>1, MsgMade, ToHubFits
    <3>3. UNCHANGED runningMap
      BY <2>2 DEF TakeBarrierReached
    <3>4. \/ UNCHANGED <<mgrReached, link>>
          \/ /\ mgrReached' = [mgrReached EXCEPT ![g] = @ \cup {m}]
             /\ Deliver(ToHub(g, Reached(Head(outbox[p]).id, m)))
      BY <2>2 DEF TakeBarrierReached
    <3>5. LinkTyped'
      BY <1>1, <3>2, <3>4, SameLinks, DeliverSame
    <3>6. mgrReached \in [Managers -> SUBSET Modules]
      BY DEF Typed, ManagerTyped
    <3>7. mgrReached' \in [Managers -> SUBSET Modules]
      BY <1>4, <3>4, <3>6
    <3>8. runningMap' \in [Managers -> [Modules -> {"unknown", "running", "crashed"}]]
      BY <3>3 DEF Typed, ManagerTyped
    <3> QED BY <3>5, <3>7, <3>8
  <2>3. CASE TakeModuleExit(p)
    <3>1. Fits(Both(ToHub(g, Exit(m, FALSE)), Ranked(g, <<Forwarded(m, FALSE)>>)), requested)
      <4>1. Exit(m, FALSE) \in UpMsgs(requested) /\ Forwarded(m, FALSE) \in DownMsgs(requested)
        BY <1>4, <1>5, MsgMade
      <4> QED BY <1>4, <4>1, SinglesTyped, ToHubFits, RankedFits, BothFits
    <3>2. \/ UNCHANGED <<manager, link>>
          \/ /\ mgrReached' = Release(g, m) /\ runningMap' = Removed(g, m, FALSE)
             /\ Deliver(Both(ToHub(g, Exit(m, FALSE)), Ranked(g, <<Forwarded(m, FALSE)>>)))
      BY <2>3 DEF TakeModuleExit
    <3>3. LinkTyped'
      BY <1>1, <3>1, <3>2, SameLinks, DeliverSame
    <3>4. UNCHANGED manager => UNCHANGED <<mgrReached, runningMap>>
      BY DEF manager
    <3>5. /\ mgrReached \in [Managers -> SUBSET Modules]
          /\ runningMap \in [Managers -> [Modules -> {"unknown", "running", "crashed"}]]
      BY DEF Typed, ManagerTyped
    <3>6. /\ Release(g, m) \in [Managers -> SUBSET Modules]
          /\ Removed(g, m, FALSE) \in [Managers -> [Modules -> {"unknown", "running", "crashed"}]]
      BY <1>4, RemovedTyped
    <3>7. /\ mgrReached' \in [Managers -> SUBSET Modules]
          /\ runningMap' \in [Managers -> [Modules -> {"unknown", "running", "crashed"}]]
      BY <3>2, <3>4, <3>5, <3>6
    <3> QED BY <3>3, <3>7
  <2> QED BY <2>1, <2>2, <2>3 DEF FromProc
<1>7. ManagerTyped'
  BY <1>1, <1>6 DEF Typed, ManagerTyped
<1> QED BY <1>1, <1>3, <1>6, <1>7, SameParts DEF Typed

-----------------------------------------------------------------------------
(* Types after a step of a process *)

LEMMA ReceiveTyped ==
  ASSUME Typed, NEW p \in Procs, NEW type, Receive(p, type)
  PROVE  /\ inbox' \in [Procs -> Seq(InMsgs(requested))]
         /\ inbox[p] # <<>> /\ Head(inbox[p]).type = type /\ Head(inbox[p]) \in InMsgs(requested)
<1>1. inbox[p] # <<>> /\ Head(inbox[p]).type = type /\ inbox' = [inbox EXCEPT ![p] = Tail(@)]
  BY DEF Receive, AtHead
<1>2. inbox \in [Procs -> Seq(InMsgs(requested))]
  BY DEF Typed, BoxTyped
<1>3. Tail(inbox[p]) \in Seq(InMsgs(requested)) /\ Head(inbox[p]) \in InMsgs(requested)
  BY <1>1, <1>2, HeadTyped
<1> QED BY <1>1, <1>2, <1>3

LEMMA AnswerTyped ==
  ASSUME Typed, requested' = requested, NEW p \in Procs, NEW b \in 0..requested,
         inbox' \in [Procs -> Seq(InMsgs(requested))],
         \/ UNCHANGED <<outbox, answered>>
         \/ b \in 1..requested /\ Answer(p, b)
  PROVE  BoxTyped' /\ answered' \in [Procs -> 0..requested]
<1>1. CASE UNCHANGED <<outbox, answered>>
  BY <1>1, InboxSame DEF Typed, ProcTyped
<1>2. CASE b \in 1..requested /\ Answer(p, b)
  <2>1. outbox' = [outbox EXCEPT ![p] = Append(@, Reached(b, p[1]))] /\ answered' = [answered EXCEPT ![p] = b]
    BY <1>2 DEF Answer
  <2>2. Reached(b, p[1]) \in OutMsgs(requested, p[1])
    BY <1>2, MsgMade, RequestedTyped
  <2> QED BY <2>1, <2>2, OutboxAppend DEF Typed, ProcTyped
<1> QED BY <1>1, <1>2

LEMMA ProcStepTyped ==
  ASSUME Typed, NEW p \in Procs, Proc(p) \/ SendWork(p)
  PROVE  Typed'
<1>1. UNCHANGED <<hub, manager, link, alive, script>> /\ requested' = requested
      /\ UNCHANGED <<pending, joined, killed>>
  BY DEF Proc, OnBarrier, OnUpstream, FinishExecution, SendWork, process, script
<1>2. /\ delayed \in [Procs -> 0..requested] /\ answered \in [Procs -> 0..requested]
      /\ upstream \in [Procs -> BOOLEAN] /\ inbox \in [Procs -> Seq(InMsgs(requested))] /\ 0 \in 0..requested
  <2>1. 0 \in 0..requested
    BY RequestedTyped
  <2> QED BY <2>1 DEF Typed, ProcTyped, BoxTyped
<1>3. /\ upstream' \in [Procs -> BOOLEAN] /\ delayed' \in [Procs -> 0..requested]
      /\ answered' \in [Procs -> 0..requested] /\ BoxTyped'
  <2>1. CASE OnBarrier(p)
    <3> DEFINE b == Head(inbox[p]).id
    <3>1. inbox' \in [Procs -> Seq(InMsgs(requested))] /\ b \in 1..requested
      BY <2>1, ReceiveTyped, InMsgRead, RequestedTyped DEF OnBarrier
    <3>2. b \in 0..requested
      BY <3>1, RequestedTyped
    <3>3. /\ UNCHANGED upstream
          /\ \/ delayed' = [delayed EXCEPT ![p] = b] /\ UNCHANGED <<outbox, answered>>
             \/ delayed' = delayed /\ Answer(p, b)
      BY <2>1 DEF OnBarrier, Respond
    <3>4. BoxTyped' /\ answered' \in [Procs -> 0..requested]
      BY <1>1, <3>1, <3>2, <3>3, AnswerTyped
    <3> QED BY <1>2, <3>2, <3>3, <3>4
  <2>2. CASE OnUpstream(p)
    <3>1. UNCHANGED <<outbox, delayed, answered>> /\ upstream' = [upstream EXCEPT ![p] = TRUE]
      BY <2>2 DEF OnUpstream
    <3>2. BoxTyped'
      BY <1>1, <2>2, <3>1, ReceiveTyped, InboxSame DEF OnUpstream
    <3> QED BY <1>2, <3>1, <3>2
  <2>3. CASE FinishExecution(p)
    <3> DEFINE b == delayed[p]
    <3>1. b \in 0..requested /\ (b # 0 => b \in 1..requested)
      BY <1>2, RequestedTyped
    <3>2. UNCHANGED inbox /\ upstream' = [upstream EXCEPT ![p] = FALSE]
      BY <2>3 DEF FinishExecution
    <3>3. \/ UNCHANGED <<outbox, answered, delayed>>
          \/ b # 0 /\ Answer(p, b) /\ delayed' = [delayed EXCEPT ![p] = 0]
      BY <2>3 DEF FinishExecution, RespondDelayed
    <3>4. BoxTyped' /\ answered' \in [Procs -> 0..requested]
      BY <1>1, <1>2, <3>1, <3>2, <3>3, AnswerTyped
    <3> QED BY <1>2, <3>2, <3>3, <3>4
  <2>4. CASE SendWork(p)
    <3>1. UNCHANGED <<inbox, process>> /\ outbox' = [outbox EXCEPT ![p] = Append(@, Work(answered[p]))]
      BY <2>4 DEF SendWork
    <3>2. Work(answered[p]) \in OutMsgs(requested, p[1])
      BY <1>2, RequestedTyped, MsgMade
    <3>3. BoxTyped'
      BY <1>1, <1>2, <3>1, <3>2, OutboxAppend
    <3> QED BY <1>2, <3>1, <3>3 DEF process
  <2> QED BY <2>1, <2>2, <2>3, <2>4 DEF Proc
<1>4. ProcTyped'
  BY <1>1, <1>3 DEF Typed, ProcTyped
<1> QED BY <1>1, <1>3, <1>4, SameParts, SameLinks DEF Typed

LEMMA EndTyped ==
  ASSUME Typed, NEW m \in Modules, Quit(m) \/ Crash(m) \/ CheckChildProcesses(m)
  PROVE  Typed'
<1>1. UNCHANGED <<hub, manager, upstream, delayed, answered, script>> /\ requested' = requested
      /\ UNCHANGED <<pending, joined, killed>>
  BY DEF Quit, Crash, CheckChildProcesses, script
<1>2. inbox' = [p \in Procs |-> IF p[1] = m THEN <<>> ELSE inbox[p]] \/ inbox' = inbox
  BY DEF Quit, Crash, CheckChildProcesses
<1>3. inbox' \in [Procs -> Seq(InMsgs(requested))]
  <2>1. inbox \in [Procs -> Seq(InMsgs(requested))]
    BY DEF Typed, BoxTyped
  <2>2. CASE inbox' = [p \in Procs |-> IF p[1] = m THEN <<>> ELSE inbox[p]]
    BY <2>1, <2>2
  <2> QED BY <1>2, <2>1, <2>2
<1>4. alive' \in [Modules -> {"not yet", "up", "exited", "crashed", "reported"}]
  BY DEF Quit, Crash, CheckChildProcesses, Typed, ProcTyped
<1>5. ProcTyped'
  BY <1>1, <1>4 DEF Typed, ProcTyped
<1>6. LinkTyped' /\ BoxTyped'
  <2>1. CASE Quit(m)
    <3> DEFINE p == <<m, 0>>
    <3>1. p \in Procs /\ p[1] = m
      BY Constants
    <3>2. UNCHANGED link /\ outbox' = [outbox EXCEPT ![p] = Append(@, Exit(m, FALSE))]
      BY <2>1 DEF Quit
    <3>3. Exit(m, FALSE) \in OutMsgs(requested, p[1])
      BY <3>1, RequestedTyped, MsgMade
    <3>4. BoxTyped'
      BY <1>1, <1>3, <3>1, <3>2, <3>3, OutboxAppend
    <3> QED BY <1>1, <3>2, <3>4, SameLinks
  <2>2. CASE Crash(m)
    <3>1. UNCHANGED <<link, outbox>>
      BY <2>2 DEF Crash
    <3> QED BY <1>1, <1>3, <3>1, SameLinks, InboxSame
  <2>3. CASE CheckChildProcesses(m)
    <3>1. UNCHANGED outbox /\ Deliver(Along(ToManager(HubOf[m]), <<Exit(m, TRUE)>>))
      BY <2>3 DEF CheckChildProcesses
    <3>2. <<Exit(m, TRUE)>> \in Seq(DownMsgs(requested))
      BY RequestedTyped, MsgMade, SinglesTyped
    <3>3. ToManager(HubOf[m]) \in DownLinks /\ ToManager(HubOf[m]) \notin UpLinks
      BY Constants, LinksTwoWays
    <3>4. Fits(Along(ToManager(HubOf[m]), <<Exit(m, TRUE)>>), requested)
      BY <3>2, <3>3, AlongFits
    <3> QED BY <1>1, <1>3, <3>1, <3>4, DeliverSame, InboxSame
  <2> QED BY <2>1, <2>2, <2>3
<1> QED BY <1>1, <1>5, <1>6, SameParts DEF Typed

LEMMA NextTyped == Typed /\ [Next]_vars => Typed'
<1> SUFFICES ASSUME Typed, [Next]_vars PROVE Typed'
  OBVIOUS
<1>1. CASE UNCHANGED vars
  <2>1. UNCHANGED <<hub, manager, process, script, link, inbox, outbox>> /\ requested' = requested
        /\ UNCHANGED <<pending, joined, killed>>
    BY <1>1 DEF vars, script
  <2> QED BY <2>1, SameParts, SameLinks, SameBoxes DEF Typed
<1>2. CASE Next
  <2>1. CASE RequestBarrier
    BY <2>1, RequestTyped
  <2>2. CASE MasterHub
    BY <2>2, MasterReachedTyped, MasterExitTyped DEF MasterHub
  <2>3. CASE \E m \in Modules : Spawn(m) \/ Kill(m) \/ Execute(m) \/ Quit(m) \/ Crash(m)
                               \/ CheckChildProcesses(m)
    BY <2>3, ScriptSteps, EndTyped
  <2>4. CASE \E h \in Slaves : SlaveHub(h)
    BY <2>4, SlaveTyped
  <2>5. CASE \E g \in Managers : Manager(g)
    BY <2>5, MgrTyped, MgrExitTyped DEF Manager
  <2>6. CASE \E p \in Procs : FromProc(p) \/ Proc(p) \/ SendWork(p)
    BY <2>6, FromProcTyped, ProcStepTyped
  <2> QED BY <1>2, <2>1, <2>2, <2>3, <2>4, <2>5, <2>6 DEF Next
<1> QED BY <1>1, <1>2

(* The variables keep their types; what is in a queue is always one of the *)
(* messages that its reader handles, about a barrier that was requested.   *)
THEOREM TypeCorrect == Spec => []TypeOK
<1>1. Spec => []Typed
  BY InitTyped, NextTyped, PTL DEF Spec
<1> QED BY <1>1, TypedTypeOK, PTL
-----------------------------------------------------------------------------
(***************************************************************************)
(* A barrier is right, for any number of hubs and modules: the assertions  *)
(* of hubs and managers hold, and a barrier that is released has pushed    *)
(* everything before it.  The invariant follows each module from the hub   *)
(* that starts it to its exit, and each answer on its way up: of each      *)
(* there is one message at most, and the counts of messages in the queues  *)
(* between say where it is.  Hubs and managers hear of the same events in  *)
(* the same order, which are numbered.                                     *)
(***************************************************************************)

(* The assumptions under which a barrier is right; see README for what     *)
(* happens without each of them.                                           *)
OneRank      == \A h \in Hubs : Size[h] = 1
SomeoneStays == Initial \ Killable # {}
Sound        == OneRank /\ Clients = 1 /\ SomeoneStays

(* Nobody crashes, no hub has to report the end of a process, and who is   *)
(* asked to exit was there before the first barrier.                       *)
Good == \A m \in Modules : /\ alive[m] \notin {"crashed", "reported"}
                           /\ m \in killed => joined[m] = 0

(* Barriers are numbered, and so are the events: that barrier b is         *)
(* requested is event 2b - 1, that it is released is event 2b.  A hub and  *)
(* a manager know how many events they have heard of.                      *)
Number(told, b) == IF told THEN 2 * b - 1 ELSE 2 * b
HubAt(h) == Number(active[h], uuid[h])
MgrAt(h) == Number(mgrActive[<<h, 0>>], mgrUuid[<<h, 0>>])
IsEvent(msg) == msg.type \in {"Barrier", "BarrierReached"}
Event(msg)   == Number(msg.type = "Barrier", msg.id)

(* q brings who knows n events up to k: c[i] are those that are known      *)
(* after its message i.  A module is started when all events are known     *)
(* that there were when it was asked for, but for the release of the last  *)
(* barrier.                                                                *)
Follows(msg, before, after, J) ==
  IF IsEvent(msg) THEN after = before + 1 /\ Event(msg) = after
  ELSE after = before /\ (msg.type = "Spawn" => 2 * J[msg.module] <= after + 1)
Brings(q, n, k, J) ==
  \E c \in [0..Len(q) -> 0..k] :
    c[0] = n /\ c[Len(q)] = k /\ \A i \in 1..Len(q) : Follows(q[i], c[i - 1], c[i], J)

(* The four queues between the master hub and the manager of hub h.        *)
DownQ(h)    == IF h = Master THEN <<>> ELSE link[Down(h)]
ToMgrQ(h)   == link[ToManager(h)]
FromMgrQ(h) == link[FromManager(h)]
UpQ(h)      == IF h = Master THEN <<>> ELSE link[Up(h)]

Ways == \A h \in Hubs : /\ Brings(DownQ(h), HubAt(h), HubAt(Master), joined)
                        /\ Brings(ToMgrQ(h), MgrAt(h), HubAt(h), joined)

-----------------------------------------------------------------------------
(* How many messages of q are in S; and none that is in Y comes after one  *)
(* that is in X.                                                           *)
Count(q, S) == Cardinality({i \in 1..Len(q) : q[i] \in S})
One(b) == IF b THEN 1 ELSE 0
NoneAfter(q, X, Y) == \A i, j \in 1..Len(q) : i < j /\ q[i] \in X => q[j] \notin Y

Barriers     == {BarrierMsg(b) : b \in Nat}
ReachedBy(m) == {Reached(b, m) : b \in Nat}
ExitOf(m)    == {Exit(m, FALSE)}
SpawnOf(m)   == {To("Spawn", m)}
OldWork(b)   == {Work(c) : c \in 0..(b - 1)}

SpawnsAt(h, m) == Count(DownQ(h), SpawnOf(m)) + Count(ToMgrQ(h), SpawnOf(m))
Spawns(m)      == SpawnsAt(HubOf[m], m)
ExitsF(m)      == Count(FromMgrQ(HubOf[m]), ExitOf(m))
ExitsU(m)      == Count(UpQ(HubOf[m]), ExitOf(m))
AnswersF(m)    == Count(FromMgrQ(HubOf[m]), ReachedBy(m))
AnswersU(m)    == Count(UpQ(HubOf[m]), ReachedBy(m))
UpOrder(m)     == NoneAfter(UpQ(HubOf[m]), ExitOf(m), ReachedBy(m))

Unknown(m)     == tracked[m] = "unknown"
Tracked(m)     == tracked[m] = "running"
Gone(m)        == tracked[m] = "quit"
NotYet(m)      == alive[m] = "not yet"
IsUp(m)        == alive[m] = "up"
Exited(m)      == alive[m] = "exited"
Running(m)     == runningMap[<<HubOf[m], 0>>][m] = "running"
Broken(m)      == runningMap[<<HubOf[m], 0>>][m] = "crashed"
MgrOn(m)       == mgrActive[<<HubOf[m], 0>>]
HeldBack(m)    == m \in mgrReached[<<HubOf[m], 0>>]

In(m)          == inbox[<<m, 0>>]
Out(m)         == outbox[<<m, 0>>]
Deferred(m)    == delayed[<<m, 0>>]
Last(m)        == answered[<<m, 0>>]
Asked(m)       == Count(In(m), Barriers)
Answers(m)     == Count(Out(m), ReachedBy(m))
Exits(m)       == Count(Out(m), ExitOf(m))
Old(m, b)      == Count(Out(m), OldWork(b))
AnyOf(m)       == ReachedBy(m) \cup ExitOf(m) \cup {Work(c) : c \in Nat}
ExitLast(m)    == NoneAfter(Out(m), ExitOf(m), AnyOf(m))
OldFirst(m, b) == NoneAfter(Out(m), ReachedBy(m), OldWork(b))

(* A module is started only once, and where it belongs.                    *)
StartedOnce ==
  /\ \A m \in Modules :
       /\ Spawns(m) <= 1
       /\ Unknown(m) => Spawns(m) = 0 /\ m \notin killed
       /\ Spawns(m) > 0 \/ Unknown(m) => NotYet(m)
  /\ \A h \in Hubs, m \in Modules : HubOf[m] # h => SpawnsAt(h, m) = 0
  /\ killed \subseteq Killable

(* What is under way when nobody crashes: answers to the last barrier, and *)
(* no exit towards the modules.                                            *)
At(h) == {m \in Modules : HubOf[m] = h}
DownKind(b, K) ==
  {BarrierMsg(c) : c \in 1..b} \cup {Reached(c, HubId) : c \in 1..b}
  \cup {To("Spawn", m) : m \in Modules} \cup {To("Upstream", m) : m \in Modules}
  \cup {To("Kill", m) : m \in K}
UpKind(h, b)    == {Reached(b, m) : m \in At(h)} \cup {Exit(m, FALSE) : m \in At(h)}
InKind(m, b, K) == {BarrierMsg(b), To("Upstream", m)} \cup {To("Kill", x) : x \in K \cap {m}}
OutKind(m, b)   == {Reached(b, m), Exit(m, FALSE)} \cup {Work(c) : c \in 0..b}
Kinds ==
  /\ \A h \in Hubs :
       /\ DownQ(h) \in Seq(DownKind(requested, killed)) /\ ToMgrQ(h) \in Seq(DownKind(requested, killed))
       /\ FromMgrQ(h) \in Seq(UpKind(h, requested)) /\ UpQ(h) \in Seq(UpKind(h, requested))
  /\ \A m \in Modules : /\ In(m) \in Seq(InKind(m, requested, killed))
                        /\ Out(m) \in Seq(OutKind(m, requested))

(* A module that runs for the master hub is about to be started, runs at   *)
(* its manager, or has exited, which the hub is about to learn.            *)
Staged(m) ==
  /\ Unknown(m) \/ Tracked(m) \/ Gone(m)
  /\ Spawns(m) + One(Running(m)) + ExitsF(m) + ExitsU(m) = One(Tracked(m))
  /\ ~Broken(m)
  /\ NotYet(m) => /\ ~Gone(m) /\ m \notin Initial /\ ~Running(m) /\ ExitsF(m) = 0 /\ ExitsU(m) = 0
                  /\ In(m) = <<>> /\ Out(m) = <<>> /\ Deferred(m) = 0
  /\ IsUp(m) => Running(m) /\ Exits(m) = 0
  /\ Exited(m) => /\ m \in killed /\ In(m) = <<>> /\ Exits(m) = One(Running(m))
                  /\ ~Running(m) => Out(m) = <<>>
  /\ ExitLast(m)
  /\ HeldBack(m) => Running(m) /\ MgrOn(m)
  /\ Running(m) => 2 * joined[m] <= MgrAt(HubOf[m]) + 1

(* The master hub waits for those that ran when the barrier was requested  *)
(* and still do, and have not answered.                                    *)
Expected == {m \in Modules : Tracked(m) /\ joined[m] < requested}
MasterRight ==
  /\ uuid[Master] = requested
  /\ pending = IF active[Master] THEN {requested} ELSE {}
  /\ IF active[Master]
     THEN participants = Cardinality(reached \cup Expected) /\ ~(Expected \subseteq reached)
     ELSE reached = {}

(* Answers to the last barrier: of a module that has heard of it, and      *)
(* those that its manager has passed on.  There is only one of each        *)
(* module, and the master hub waits for it.                                *)
Waits(m) == IsUp(m) /\ Deferred(m) # 0
Early(m) == Asked(m) + One(Waits(m)) + Answers(m)
Late(m)  == AnswersF(m) + AnswersU(m)
Tokens(m) ==
  /\ Early(m) + Late(m) <= 1
  /\ Early(m) + Late(m) = 1 => active[Master] /\ m \in Expected \ reached
  /\ Early(m) = 1 => Running(m) /\ MgrAt(HubOf[m]) = HubAt(Master)
  /\ Waits(m) => Deferred(m) = requested
ExitOrder(m) == UpOrder(m) /\ (ExitsU(m) > 0 => AnswersF(m) = 0)

(* The answer of m to barrier b is through, for the master hub or for the  *)
(* manager.  If it is for the master hub, then m has been started, its     *)
(* manager has held it back and not let it go before the release, and an   *)
(* exit of m follows the release.                                          *)
Passed(m, b)   == 2 * b <= HubAt(Master) \/ (b = requested /\ (m \in reached \/ Late(m) > 0))
Answered(m, b) == 2 * b <= MgrAt(HubOf[m]) \/ (MgrAt(HubOf[m]) + 1 = 2 * b /\ HeldBack(m))
PastRight(m) ==
  \A b \in 1..requested : Tracked(m) /\ joined[m] < b /\ Passed(m, b) =>
    /\ Spawns(m) = 0
    /\ Running(m) => Answered(m, b)
    /\ ExitsF(m) > 0 => 2 * b <= HubAt(HubOf[m])

(* What a module sends after its answer says so, and before it answers a   *)
(* barrier everything earlier has been taken.                              *)
Works(m) ==
  /\ Answers(m) > 0 => Last(m) = requested
  /\ OldFirst(m, requested)
  /\ \A b \in 1..requested : Running(m) /\ joined[m] < b /\ Answered(m, b) =>
       Last(m) >= b /\ Old(m, b) = 0

Core ==
  /\ MasterRight /\ Kinds /\ Ways
  /\ \A m \in Modules : Staged(m) /\ Tokens(m) /\ ExitOrder(m) /\ PastRight(m) /\ Works(m)
IInv == StartedOnce /\ (Good => Core)

-----------------------------------------------------------------------------
(* Counting *)

(* A count is a natural number; it is 0 when no message of q is in S.      *)
LEMMA CountNat ==
  ASSUME NEW X, NEW q \in Seq(X), NEW S
  PROVE  /\ Count(q, S) \in Nat
         /\ Count(q, S) = 0 <=> \A i \in 1..Len(q) : q[i] \notin S
<1> DEFINE P == {i \in 1..Len(q) : q[i] \in S}
<1>1. IsFiniteSet(1..Len(q))
  BY FS_Interval
<1>2. IsFiniteSet(P)
  BY <1>1, FS_Subset
<1>3. Cardinality(P) \in Nat /\ (Cardinality(P) = 0 <=> P = {})
  BY <1>2, FS_CardinalityType, FS_EmptySet
<1> QED BY <1>3 DEF Count

(* Counts of sequences add up.                                             *)
LEMMA CountConcat ==
  ASSUME NEW X, NEW q \in Seq(X), NEW s \in Seq(X), NEW S
  PROVE  Count(q \o s, S) = Count(q, S) + Count(s, S)
<1> DEFINE n == Len(q)
           P == {i \in 1..n : q[i] \in S}
           R == {i \in 1..Len(s) : s[i] \in S}
           T == {i \in 1..Len(q \o s) : (q \o s)[i] \in S}
           f == [i \in R |-> i + n]
           Q == {i + n : i \in R}
<1>1. n \in Nat /\ Len(s) \in Nat /\ Len(q \o s) = n + Len(s)
  OBVIOUS
<1>2. \A i \in 1..n : (q \o s)[i] = q[i]
  OBVIOUS
<1>3. \A i \in 1..Len(s) : (q \o s)[i + n] = s[i]
  OBVIOUS
<1>4. T = P \cup Q
  <2>1. ASSUME NEW i \in T PROVE i \in P \cup Q
    <3>1. CASE i <= n
      BY <1>1, <1>2, <3>1
    <3>2. CASE i > n
      <4>1. i - n \in 1..Len(s) /\ (i - n) + n = i
        BY <1>1, <3>2
      <4> QED BY <1>3, <4>1
    <3> QED BY <1>1, <3>1, <3>2
  <2>2. ASSUME NEW i \in P PROVE i \in T
    BY <1>1, <1>2
  <2>3. ASSUME NEW i \in R PROVE i + n \in T
    BY <1>1, <1>3
  <2> QED BY <2>1, <2>2, <2>3
<1>5. P \cap Q = {}
  BY <1>1
<1>6. IsFiniteSet(P) /\ IsFiniteSet(R)
  <2>1. IsFiniteSet(1..n) /\ IsFiniteSet(1..Len(s))
    BY FS_Interval, <1>1
  <2>2. P \subseteq 1..n /\ R \subseteq 1..Len(s)
    OBVIOUS
  <2> QED BY <2>1, <2>2, FS_Subset
<1>7. IsFiniteSet(Q) /\ Cardinality(Q) = Cardinality(R)
  <2>1. \A i, j \in R : f[i] = f[j] => i = j
    BY <1>1
  <2>2. f \in [R -> Q] /\ \A j \in Q : \E i \in R : f[i] = j
    OBVIOUS
  <2> HIDE DEF R, Q, f
  <2>3. f \in Bijection(R, Q)
    BY <2>1, <2>2 DEF Bijection, Injection, Surjection, IsInjective
  <2>4. IsFiniteSet(R)
    BY <1>6
  <2>5. ExistsBijection(R, Q)
    BY <2>3 DEF ExistsBijection
  <2> QED BY ONLY <2>4, <2>5, FS_Bijection
<1>8. Cardinality(P \cup Q) = Cardinality(P) + Cardinality(Q) - Cardinality(P \cap Q)
  BY <1>6, <1>7, FS_Union
<1>9. Cardinality(P \cap Q) = 0 /\ Cardinality(P) \in Nat /\ Cardinality(Q) \in Nat
  BY <1>5, <1>6, <1>7, FS_EmptySet, FS_CardinalityType
<1>10. Count(q \o s, S) = Cardinality(T) /\ Count(q, S) = Cardinality(P) /\ Count(s, S) = Cardinality(R)
  BY DEF Count
<1> HIDE DEF P, Q, R, T
<1>11. Cardinality(T) = Cardinality(P) + Cardinality(R)
  BY <1>4, <1>7, <1>8, <1>9
<1> QED BY <1>10, <1>11

(* A single message counts as one or nothing.                              *)
LEMMA CountSingle ==
  ASSUME NEW x, NEW S
  PROVE  Count(<<x>>, S) = One(x \in S) /\ Count(<<>>, S) = 0
<1>1. {i \in 1..Len(<<x>>) : <<x>>[i] \in S} = IF x \in S THEN {1} ELSE {}
  OBVIOUS
<1>2. {i \in 1..Len(<<>>) : <<>>[i] \in S} = {}
  OBVIOUS
<1> QED BY <1>1, <1>2, FS_EmptySet, FS_Singleton DEF Count, One

(* What is appended is counted.                                            *)
LEMMA CountAppend ==
  ASSUME NEW X, NEW q \in Seq(X), NEW x, NEW S
  PROVE  /\ Count(Append(q, x), S) = Count(q, S) + One(x \in S)
         /\ Count(q, S) \in Nat /\ Count(Append(q, x), S) \in Nat
<1> DEFINE Y == X \cup {x}
<1>0. q \in Seq(Y) /\ <<x>> \in Seq(Y)
  OBVIOUS
<1> HIDE DEF Y
<1>1. Append(q, x) = q \o <<x>> /\ <<x>> \in Seq(Y) /\ Append(q, x) \in Seq(Y)
  BY <1>0
<1>2. Count(Append(q, x), S) = Count(q, S) + Count(<<x>>, S)
  <2>1. Count(q \o <<x>>, S) = Count(q, S) + Count(<<x>>, S)
    BY ONLY <1>0, CountConcat
  <2> QED BY <1>1, <2>1
<1>3. Count(q, S) \in Nat /\ Count(Append(q, x), S) \in Nat
  BY <1>0, <1>1, CountNat
<1> QED BY <1>2, <1>3, CountSingle

(* What is taken from the front is no longer counted.                      *)
LEMMA CountTail ==
  ASSUME NEW X, NEW q \in Seq(X), q # <<>>, NEW S
  PROVE  /\ Count(q, S) = Count(Tail(q), S) + One(Head(q) \in S)
         /\ Count(Tail(q), S) = Count(q, S) - One(Head(q) \in S)
         /\ Count(q, S) \in Nat /\ Count(Tail(q), S) \in Nat
<1>1. q = <<Head(q)>> \o Tail(q) /\ <<Head(q)>> \in Seq(X) /\ Tail(q) \in Seq(X)
  OBVIOUS
<1>2. Count(q, S) = One(Head(q) \in S) + Count(Tail(q), S)
  <2>1. Count(<<Head(q)>> \o Tail(q), S) = Count(<<Head(q)>>, S) + Count(Tail(q), S)
    BY ONLY <1>1, CountConcat
  <2>2. Count(<<Head(q)>>, S) = One(Head(q) \in S)
    BY CountSingle
  <2>3. Count(<<Head(q)>> \o Tail(q), S) = Count(q, S)
    BY <1>1
  <2> QED BY <2>1, <2>2, <2>3
<1>3. Count(q, S) \in Nat /\ Count(Tail(q), S) \in Nat /\ One(Head(q) \in S) \in Nat
  BY <1>1, CountNat DEF One
<1> QED BY <1>2, <1>3

(* An order stays when the first message is taken; if that was in X,       *)
(* nothing in Y follows.                                                   *)
LEMMA NoneAfterTail ==
  ASSUME NEW A, NEW q \in Seq(A), q # <<>>, NEW X, NEW Y, NoneAfter(q, X, Y)
  PROVE  /\ NoneAfter(Tail(q), X, Y)
         /\ Head(q) \in X => Count(Tail(q), Y) = 0
<1>1. /\ Len(Tail(q)) = Len(q) - 1 /\ Len(q) \in Nat \ {0} /\ Tail(q) \in Seq(A)
      /\ \A i \in 1..Len(Tail(q)) : Tail(q)[i] = q[i + 1]
      /\ Head(q) = q[1]
  OBVIOUS
<1>2. NoneAfter(Tail(q), X, Y)
  BY <1>1 DEF NoneAfter
<1>3. Head(q) \in X => \A i \in 1..Len(Tail(q)) : Tail(q)[i] \notin Y
  BY <1>1 DEF NoneAfter
<1> QED BY <1>1, <1>2, <1>3, CountNat

(* An order stays when what is appended is not in Y, or follows nothing in *)
(* X.                                                                      *)
LEMMA NoneAfterAppend ==
  ASSUME NEW A, NEW q \in Seq(A), NEW x, NEW X, NEW Y, NoneAfter(q, X, Y),
         x \in Y => Count(q, X) = 0
  PROVE  NoneAfter(Append(q, x), X, Y)
<1>1. /\ Len(Append(q, x)) = Len(q) + 1 /\ Len(q) \in Nat
      /\ \A i \in 1..Len(q) : Append(q, x)[i] = q[i]
      /\ Append(q, x)[Len(q) + 1] = x
  OBVIOUS
<1>2. x \in Y => \A i \in 1..Len(q) : q[i] \notin X
  BY CountNat
<1> QED BY <1>1, <1>2 DEF NoneAfter

(* Without any message in X or any in Y there is nothing out of order.     *)
LEMMA NoneAfterNone ==
  ASSUME NEW A, NEW q \in Seq(A), NEW X, NEW Y, Count(q, X) = 0 \/ Count(q, Y) = 0
  PROVE  NoneAfter(q, X, Y)
BY CountNat DEF NoneAfter

(* Nor in an empty sequence.                                               *)
LEMMA NoneEmpty ==
  \A X, Y : NoneAfter(<<>>, X, Y)
BY DEF NoneAfter

(* What q is a sequence of, once something is not in it.                   *)
LEMMA SeqWithout ==
  ASSUME NEW A, NEW q \in Seq(A), NEW S, NEW B, Count(q, S) = 0, \A x \in A : x \in S \/ x \in B
  PROVE  q \in Seq(B)
<1>1. \A i \in 1..Len(q) : q[i] \in B
  BY CountNat
<1> QED BY <1>1

(* A sequence over a set is one over each larger set.                      *)
LEMMA SeqWider ==
  ASSUME NEW A, NEW B, A \subseteq B
  PROVE  Seq(A) \subseteq Seq(B)
OBVIOUS

-----------------------------------------------------------------------------
(* Events in order *)

(* A sequence of messages never leads back to fewer events.                *)
LEMMA BringsBounds ==
  ASSUME NEW X, NEW q \in Seq(X), NEW n, NEW k, NEW J, Brings(q, n, k, J)
  PROVE  n \in 0..k /\ k \in 0..k /\ k \in Int /\ n \in Nat /\ n <= k
<1>1. PICK c \in [0..Len(q) -> 0..k] : c[0] = n /\ c[Len(q)] = k
  BY DEF Brings
<1>2. 0 \in 0..Len(q) /\ Len(q) \in 0..Len(q)
  OBVIOUS
<1>3. n \in 0..k /\ k \in 0..k
  BY <1>1, <1>2
<1>4. k \in Int
  BY <1>3
<1> QED BY <1>3, <1>4

(* Who knows as much as the sender has nothing under way.                  *)
LEMMA BringsNothing ==
  ASSUME NEW n \in Nat, NEW J
  PROVE  Brings(<<>>, n, n, J)
<1> DEFINE c == [i \in 0..Len(<<>>) |-> n]
<1>1. c \in [0..Len(<<>>) -> 0..n] /\ c[0] = n /\ c[Len(<<>>)] = n /\ 1..Len(<<>>) = {}
  OBVIOUS
<1> QED BY <1>1 DEF Brings

(* After its first message, the rest of a sequence brings the reader the   *)
(* rest of the way.                                                        *)
LEMMA BringsHead ==
  ASSUME NEW X, NEW q \in Seq(X), q # <<>>, NEW n, NEW k, NEW J, Brings(q, n, k, J), k \in Nat
  PROVE  \E after \in Nat : Follows(Head(q), n, after, J) /\ Brings(Tail(q), after, k, J)
<1>1. PICK c \in [0..Len(q) -> 0..k] :
        c[0] = n /\ c[Len(q)] = k /\ \A i \in 1..Len(q) : Follows(q[i], c[i - 1], c[i], J)
  BY DEF Brings
<1> DEFINE d == [i \in 0..Len(Tail(q)) |-> c[i + 1]]
<1>2. /\ Len(Tail(q)) = Len(q) - 1 /\ Len(q) \in Nat \ {0} /\ Head(q) = q[1]
      /\ \A i \in 1..Len(Tail(q)) : Tail(q)[i] = q[i + 1]
  OBVIOUS
<1>3. d \in [0..Len(Tail(q)) -> 0..k] /\ d[0] = c[1] /\ d[Len(Tail(q))] = k
  BY <1>1, <1>2
<1>4. ASSUME NEW i \in 1..Len(Tail(q)) PROVE Follows(Tail(q)[i], d[i - 1], d[i], J)
  <2>1. d[i] = c[i + 1] /\ d[i - 1] = c[i] /\ i + 1 \in 1..Len(q) /\ (i + 1) - 1 = i
    BY <1>2
  <2> QED BY <1>1, <1>2, <2>1
<1>5. Brings(Tail(q), c[1], k, J)
  <2> HIDE DEF d
  <2> QED BY <1>3, <1>4 DEF Brings
<1>6. Follows(Head(q), n, c[1], J) /\ c[1] \in Nat
  <2>1. 1 \in 1..Len(q) /\ 1 - 1 = 0 /\ 1 \in 0..Len(q)
    BY <1>2
  <2> QED BY <1>1, <1>2, <2>1
<1> QED BY <1>5, <1>6

(* The first message: an event is the next one, anything else changes      *)
(* nothing, and a module is started in time.                               *)
LEMMA BringsTail ==
  ASSUME NEW X, NEW q \in Seq(X), q # <<>>, NEW n, NEW k, NEW J, Brings(q, n, k, J), k \in Nat
  PROVE  /\ IsEvent(Head(q)) => Event(Head(q)) = n + 1 /\ Brings(Tail(q), n + 1, k, J)
         /\ ~IsEvent(Head(q)) => Brings(Tail(q), n, k, J)
         /\ Head(q).type = "Spawn" => 2 * J[Head(q).module] <= n + 1
<1>1. PICK after \in Nat : Follows(Head(q), n, after, J) /\ Brings(Tail(q), after, k, J)
  BY BringsHead
<1>2. Head(q).type = "Spawn" => ~IsEvent(Head(q))
  BY DEF IsEvent
<1> QED BY <1>1, <1>2 DEF Follows

(* A sender that goes on sends what its next event is.                     *)
LEMMA BringsAppend ==
  ASSUME NEW X, NEW q \in Seq(X), NEW x, NEW n, NEW k \in Nat, NEW after \in Nat, k <= after, NEW J,
         Brings(q, n, k, J), Follows(x, k, after, J)
  PROVE  Brings(Append(q, x), n, after, J)
<1>1. PICK c \in [0..Len(q) -> 0..k] :
        c[0] = n /\ c[Len(q)] = k /\ \A i \in 1..Len(q) : Follows(q[i], c[i - 1], c[i], J)
  BY DEF Brings
<1> DEFINE l == Len(q) + 1
           d == [i \in 0..l |-> IF i = l THEN after ELSE c[i]]
<1>2. /\ Len(Append(q, x)) = l /\ Len(q) \in Nat /\ l \in Nat /\ l # 0
      /\ \A i \in 1..Len(q) : Append(q, x)[i] = q[i]
      /\ Append(q, x)[l] = x
  OBVIOUS
<1>3. d \in [0..l -> 0..after] /\ d[0] = n /\ d[l] = after
  <2>1. \A i \in 0..l : d[i] \in 0..after
    BY <1>1, <1>2
  <2> QED BY <1>1, <1>2, <2>1
<1>4. ASSUME NEW i \in 1..l PROVE Follows(Append(q, x)[i], d[i - 1], d[i], J)
  <2>1. CASE i = l
    <3>1. d[i] = after /\ d[i - 1] = k
      BY <1>1, <1>2, <2>1
    <3> QED BY <1>2, <2>1, <3>1
  <2>2. CASE i # l
    <3>1. i \in 1..Len(q) /\ d[i] = c[i] /\ d[i - 1] = c[i - 1]
      BY <1>2, <2>2
    <3> QED BY <1>1, <1>2, <3>1
  <2> QED BY <2>1, <2>2
<1> HIDE DEF l, d
<1> QED BY <1>2, <1>3, <1>4 DEF Brings

(* The message of the next event is sent.                                  *)
LEMMA BringsEvent ==
  ASSUME NEW X, NEW q \in Seq(X), NEW x, NEW n, NEW k \in Nat, NEW J, Brings(q, n, k, J),
         IsEvent(x), Event(x) = k + 1
  PROVE  Brings(Append(q, x), n, k + 1, J)
<1>1. Follows(x, k, k + 1, J) /\ k + 1 \in Nat /\ k <= k + 1
  BY DEF Follows
<1> QED BY <1>1, BringsAppend

(* Any other message is sent, when a module that it starts has missed one  *)
(* event at most.                                                          *)
LEMMA BringsOther ==
  ASSUME NEW X, NEW q \in Seq(X), NEW x, NEW n, NEW k \in Nat, NEW J, Brings(q, n, k, J),
         ~IsEvent(x), x.type = "Spawn" => 2 * J[x.module] <= k + 1
  PROVE  Brings(Append(q, x), n, k, J)
<1>1. Follows(x, k, k, J) /\ k <= k
  BY DEF Follows
<1> QED BY <1>1, BringsAppend

(* Whether another module has been asked for makes no difference.          *)
LEMMA BringsJoined ==
  ASSUME NEW X, NEW q \in Seq(X), NEW n, NEW k, NEW J, NEW H, Brings(q, n, k, J),
         \A i \in 1..Len(q) : q[i].type = "Spawn" => H[q[i].module] = J[q[i].module]
  PROVE  Brings(q, n, k, H)
<1>1. PICK c \in [0..Len(q) -> 0..k] :
        c[0] = n /\ c[Len(q)] = k /\ \A i \in 1..Len(q) : Follows(q[i], c[i - 1], c[i], J)
  BY DEF Brings
<1>2. \A i \in 1..Len(q) : Follows(q[i], c[i - 1], c[i], H)
  BY <1>1 DEF Follows
<1> QED BY <1>1, <1>2 DEF Brings

-----------------------------------------------------------------------------
(* What messages do to the four queues                                     *)

(* The queues between hub, manager and process have their types.           *)
LEMMA QueuesTyped ==
  ASSUME Typed
  PROVE  /\ \A h \in Hubs : /\ DownQ(h) \in Seq(DownMsgs(requested)) /\ ToMgrQ(h) \in Seq(DownMsgs(requested))
                            /\ FromMgrQ(h) \in Seq(UpMsgs(requested)) /\ UpQ(h) \in Seq(UpMsgs(requested))
         /\ \A m \in Modules : In(m) \in Seq(InMsgs(requested)) /\ Out(m) \in Seq(OutMsgs(requested, m))
<1>1. ASSUME NEW h \in Hubs
      PROVE  /\ DownQ(h) \in Seq(DownMsgs(requested)) /\ ToMgrQ(h) \in Seq(DownMsgs(requested))
             /\ FromMgrQ(h) \in Seq(UpMsgs(requested)) /\ UpQ(h) \in Seq(UpMsgs(requested))
  <2>1. \A X : <<>> \in Seq(X)
    OBVIOUS
  <2>2. h # Master => Down(h) \in DownLinks /\ Up(h) \in UpLinks
    BY LinksTwoWays DEF Slaves
  <2>3. ToManager(h) \in DownLinks /\ FromManager(h) \in UpLinks
    BY LinksTwoWays
  <2> QED BY <2>1, <2>2, <2>3 DEF Typed, LinkTyped, DownQ, UpQ, ToMgrQ, FromMgrQ
<1>2. ASSUME NEW m \in Modules PROVE In(m) \in Seq(InMsgs(requested)) /\ Out(m) \in Seq(OutMsgs(requested, m))
  <2>1. <<m, 0>> \in Procs /\ <<m, 0>>[1] = m
    BY Constants
  <2> QED BY <2>1 DEF Typed, BoxTyped, In, Out
<1> QED BY <1>1, <1>2

(* A link to which nothing is sent keeps its messages, but for the one     *)
(* that is taken.                                                          *)
LEMMA NotSent ==
  ASSUME Typed, NEW taken, NEW out, Transmit(taken, out), taken \in Links => link[taken] # <<>>
  PROVE  \A l \in Links : l \notin DOMAIN out => link'[l] = IF l = taken THEN Tail(link[l]) ELSE link[l]
<1> SUFFICES ASSUME NEW l \in Links, l \notin DOMAIN out
             PROVE  link'[l] = IF l = taken THEN Tail(link[l]) ELSE link[l]
  OBVIOUS
<1>1. link'[l] = (IF l = taken THEN Tail(link[l]) ELSE link[l]) \o <<>>
  BY DEF Transmit
<1>2. PICK X : link[l] \in Seq(X)
  BY LinksTwoWays DEF Typed, LinkTyped
<1>3. (IF l = taken THEN Tail(link[l]) ELSE link[l]) \in Seq(X)
  BY <1>2
<1>4. \A q \in Seq(X) : q \o <<>> = q
  OBVIOUS
<1> QED BY <1>1, <1>3, <1>4

(* A link gets what is sent to it.                                         *)
LEMMA Sent ==
  ASSUME Typed, NEW taken, NEW out, Transmit(taken, out), NEW l \in Links, l # taken, l \in DOMAIN out
  PROVE  link'[l] = link[l] \o out[l] /\ \A x : out[l] = <<x>> => link'[l] = Append(link[l], x)
<1>1. link'[l] = link[l] \o out[l]
  BY DEF Transmit
<1>2. PICK X : link[l] \in Seq(X)
  BY LinksTwoWays DEF Typed, LinkTyped
<1>3. \A q \in Seq(X) : \A x : q \o <<x>> = Append(q, x)
  OBVIOUS
<1> QED BY <1>1, <1>2, <1>3

(* To which links nothing, a message to one, and a message to all goes.    *)
LEMMA NoDomain ==
  /\ DOMAIN Nothing = {}
  /\ \A l, msgs : DOMAIN Along(l, msgs) = {l} /\ Along(l, msgs)[l] = msgs
  /\ \A x : /\ DOMAIN ToAll(x) = {Down(h) : h \in Slaves} \cup {ToManager(Master)}
            /\ \A l \in DOMAIN ToAll(x) : ToAll(x)[l] = <<x>>
BY DEF Nothing, Along, ToAll

(* A message is taken from one link, and others are sent to another.       *)
LEMMA OneAlong ==
  ASSUME Typed, NEW taken, NEW b \in Links, NEW msgs, Transmit(taken, Along(b, msgs)), taken # b,
         taken \in Links => link[taken] # <<>>
  PROVE  /\ \A l \in Links : l # b => link'[l] = IF l = taken THEN Tail(link[l]) ELSE link[l]
         /\ link'[b] = link[b] \o msgs
         /\ \A x : msgs = <<x>> => link'[b] = Append(link[b], x)
<1>0. PICK out : out = Along(b, msgs)
  OBVIOUS
<1>1. DOMAIN out = {b} /\ out[b] = msgs
  BY <1>0, NoDomain
<1>2. Transmit(taken, out)
  BY <1>0
<1>3. \A l \in Links : l \notin DOMAIN out => link'[l] = IF l = taken THEN Tail(link[l]) ELSE link[l]
  BY <1>2, NotSent
<1>4. link'[b] = link[b] \o out[b] /\ \A x : out[b] = <<x>> => link'[b] = Append(link[b], x)
  BY <1>1, <1>2, Sent
<1>5. \A l \in Links : l # b => l \notin DOMAIN out
  BY <1>1
<1> QED BY <1>1, <1>3, <1>4, <1>5

(* With one rank at each hub there is one manager, which gets its messages *)
(* from the hub and broadcasts nothing.                                    *)
LEMMA OneManager ==
  ASSUME OneRank
  PROVE  /\ \A g \in Managers : g[2] = 0 /\ g[1] \in Hubs /\ g = <<g[1], 0>> /\ Source(g) = ToManager(g[1])
         /\ \A p \in Procs : /\ p[2] = 0 /\ p[1] \in Modules /\ p = <<p[1], 0>>
                             /\ ManagerOf(p) = <<HubOf[p[1]], 0>>
         /\ \A g \in Managers : \A msgs : DOMAIN Ranked(g, msgs) = {}
         /\ \A g \in Managers : \A x : ToHub(g, x) = Along(FromManager(g[1]), <<x>>)
         /\ \A g \in Managers : \A x, msgs : Both(ToHub(g, x), Ranked(g, msgs)) = Along(FromManager(g[1]), <<x>>)
<1>1. \A h \in Hubs : Ranks(h) = {0}
  BY DEF OneRank, Ranks
<1>2. \A g \in Managers : g[2] = 0 /\ g[1] \in Hubs /\ g = <<g[1], 0>> /\ Source(g) = ToManager(g[1])
  BY <1>1, Constants DEF Source
<1>3. \A p \in Procs : /\ p[2] = 0 /\ p[1] \in Modules /\ p = <<p[1], 0>>
                       /\ ManagerOf(p) = <<HubOf[p[1]], 0>>
  <2>1. \A p \in Procs : p[1] \in Modules /\ p[2] \in Ranks(HubOf[p[1]]) /\ p = <<p[1], p[2]>>
    BY Constants
  <2>2. \A p \in Procs : p[2] = 0
    BY <1>1, <2>1, Constants
  <2> QED BY <2>1, <2>2 DEF ManagerOf
<1>4. {f \in Managers : f[2] # 0} = {}
  BY <1>2
<1>5. \A g \in Managers : \A msgs : DOMAIN Ranked(g, msgs) = {}
  BY <1>2, <1>4 DEF Ranked
<1>6. \A g \in Managers : \A x : ToHub(g, x) = Along(FromManager(g[1]), <<x>>)
  BY <1>2 DEF ToHub
<1>7. \A g \in Managers : \A x, msgs : Both(ToHub(g, x), Ranked(g, msgs)) = Along(FromManager(g[1]), <<x>>)
  BY <1>5, <1>6 DEF Both, Along
<1> QED BY <1>2, <1>3, <1>5, <1>6, <1>7

(* The links of the queues of a hub exist.                                 *)
LEMMA QueueLinks ==
  /\ \A h \in Hubs : h # Master => h \in Slaves
  /\ \A h \in Slaves : h \in Hubs /\ h # Master /\ Down(h) \in Links /\ Up(h) \in Links
  /\ \A h \in Hubs : ToManager(h) \in Links /\ FromManager(h) \in Links
BY LinksTwoWays, Constants DEF Slaves

(* Downwards.                                                              *)
LEMMA AllGet ==
  ASSUME Typed, NEW taken, taken \in Links => link[taken] # <<>>, taken \notin DownLinks,
         NEW x, Transmit(taken, ToAll(x))
  PROVE  \A h \in Hubs :
           /\ DownQ(h)' = IF h = Master THEN DownQ(h) ELSE Append(DownQ(h), x)
           /\ ToMgrQ(h)' = IF h = Master THEN Append(ToMgrQ(h), x) ELSE ToMgrQ(h)
<1> SUFFICES ASSUME NEW h \in Hubs
             PROVE  /\ DownQ(h)' = IF h = Master THEN DownQ(h) ELSE Append(DownQ(h), x)
                    /\ ToMgrQ(h)' = IF h = Master THEN Append(ToMgrQ(h), x) ELSE ToMgrQ(h)
  OBVIOUS
<1>00. PICK out : out = ToAll(x)
  OBVIOUS
<1>0. DOMAIN out = {Down(k) : k \in Slaves} \cup {ToManager(Master)} /\ \A l \in DOMAIN out : out[l] = <<x>>
  BY <1>00, NoDomain
<1>1. /\ \A l \in Links : l \notin DOMAIN out => link'[l] = IF l = taken THEN Tail(link[l]) ELSE link[l]
      /\ \A l \in Links : l \in DOMAIN out /\ l # taken => link'[l] = Append(link[l], x)
  <2>1. Transmit(taken, out)
    BY <1>00
  <2>2. \A l \in Links : l \notin DOMAIN out => link'[l] = IF l = taken THEN Tail(link[l]) ELSE link[l]
    BY <2>1, NotSent
  <2>3. ASSUME NEW l \in Links, l \in DOMAIN out, l # taken PROVE link'[l] = Append(link[l], x)
    <3>1. out[l] = <<x>>
      BY <1>0, <2>3
    <3>2. \A y : out[l] = <<y>> => link'[l] = Append(link[l], y)
      BY <2>1, <2>3, Sent
    <3> QED BY <3>1, <3>2
  <2> QED BY <2>2, <2>3
<1>2. h # Master => link'[Down(h)] = Append(link[Down(h)], x)
  <2>1. h # Master => Down(h) \in Links /\ h \in Slaves /\ Down(h) # taken
    BY QueueLinks, LinksTwoWays
  <2> QED BY <1>0, <1>1, <2>1
<1>5. ToManager(h) \in Links /\ ToManager(h) # taken
  BY QueueLinks, LinksTwoWays
<1>3. h = Master => link'[ToManager(h)] = Append(link[ToManager(h)], x)
  BY <1>0, <1>1, <1>5
<1>4. h # Master => link'[ToManager(h)] = link[ToManager(h)]
  <2>1. h # Master => ToManager(h) \notin DOMAIN out
    BY <1>0, LinksDiffer
  <2> QED BY <1>1, <1>5, <2>1
<1> QED BY <1>2, <1>3, <1>4 DEF DownQ, ToMgrQ

(* What the master hub routes to a module arrives on the way to its hub    *)
(* only.                                                                   *)
LEMMA RouteGets ==
  ASSUME Typed, NEW m \in Modules, NEW x, Deliver(Route(m, x))
  PROVE  \A h \in Hubs :
           /\ DownQ(h)' = IF h = HubOf[m] /\ h # Master THEN Append(DownQ(h), x) ELSE DownQ(h)
           /\ ToMgrQ(h)' = IF h = HubOf[m] /\ h = Master THEN Append(ToMgrQ(h), x) ELSE ToMgrQ(h)
           /\ FromMgrQ(h)' = FromMgrQ(h) /\ UpQ(h)' = UpQ(h)
<1> DEFINE l == IF HubOf[m] = Master THEN ToManager(Master) ELSE Down(HubOf[m])
<1>1. Transmit(<<>>, Along(l, <<x>>)) /\ <<>> \notin Links
  BY LinksTwoWays DEF Deliver, Route, Nothing
<1>2. l \in Links
  BY QueueLinks, Constants
<1> HIDE DEF l
<1>3. /\ link'[l] = Append(link[l], x)
      /\ \A k \in Links : k # l => link'[k] = link[k]
  BY <1>1, <1>2, OneAlong
<1> USE DEF l
<1>4. ASSUME NEW h \in Hubs
      PROVE  /\ DownQ(h)' = IF h = HubOf[m] /\ h # Master THEN Append(DownQ(h), x) ELSE DownQ(h)
             /\ ToMgrQ(h)' = IF h = HubOf[m] /\ h = Master THEN Append(ToMgrQ(h), x) ELSE ToMgrQ(h)
             /\ FromMgrQ(h)' = FromMgrQ(h) /\ UpQ(h)' = UpQ(h)
  <2>1. h # Master => Down(h) \in Links /\ Up(h) \in Links /\ Up(h) # l
    BY QueueLinks, LinksDiffer
  <2>2. ToManager(h) \in Links /\ FromManager(h) \in Links /\ FromManager(h) # l
    BY QueueLinks, LinksDiffer
  <2>3. h # Master => (Down(h) = l <=> h = HubOf[m])
    BY LinksDiffer
  <2>4. ToManager(h) = l <=> h = HubOf[m] /\ h = Master
    BY LinksDiffer
  <2> HIDE DEF l
  <2>5. h # Master => link'[Down(h)] = IF h = HubOf[m] THEN Append(link[Down(h)], x) ELSE link[Down(h)]
    BY <1>3, <2>1, <2>3
  <2>6. link'[ToManager(h)] = IF h = HubOf[m] /\ h = Master THEN Append(link[ToManager(h)], x) ELSE link[ToManager(h)]
    BY <1>3, <2>2, <2>4
  <2>7. link'[FromManager(h)] = link[FromManager(h)] /\ (h # Master => link'[Up(h)] = link[Up(h)])
    BY <1>3, <2>1, <2>2
  <2> QED BY <2>5, <2>6, <2>7 DEF DownQ, ToMgrQ, FromMgrQ, UpQ
<1> QED BY <1>4

(* A slave passes a message on to its manager.                             *)
LEMMA SlavePassesDown ==
  ASSUME Typed, NEW s \in Slaves, NEW x, link[Down(s)] # <<>>, Transmit(Down(s), Along(ToManager(s), <<x>>))
  PROVE  \A h \in Hubs :
           /\ DownQ(h)' = IF h = s THEN Tail(DownQ(h)) ELSE DownQ(h)
           /\ ToMgrQ(h)' = IF h = s THEN Append(ToMgrQ(h), x) ELSE ToMgrQ(h)
           /\ FromMgrQ(h)' = FromMgrQ(h) /\ UpQ(h)' = UpQ(h)
<1> SUFFICES ASSUME NEW h \in Hubs
             PROVE  /\ DownQ(h)' = IF h = s THEN Tail(DownQ(h)) ELSE DownQ(h)
                    /\ ToMgrQ(h)' = IF h = s THEN Append(ToMgrQ(h), x) ELSE ToMgrQ(h)
                    /\ FromMgrQ(h)' = FromMgrQ(h) /\ UpQ(h)' = UpQ(h)
  OBVIOUS
<1>1. s # Master /\ Down(s) \in Links /\ ToManager(s) \in Links
  BY QueueLinks
<1>2. \A l \in Links : /\ l # ToManager(s) => link'[l] = IF l = Down(s) THEN Tail(link[l]) ELSE link[l]
                       /\ l = ToManager(s) => link'[l] = Append(link[l], x)
  BY <1>1, OneAlong, LinksDiffer
<1>3. h # Master => Down(h) \in Links /\ Up(h) \in Links /\ Up(h) # Down(s) /\ Up(h) # ToManager(s)
                    /\ Down(h) # ToManager(s) /\ (Down(h) = Down(s) <=> h = s)
  BY QueueLinks, LinksDiffer
<1>4. /\ ToManager(h) \in Links /\ FromManager(h) \in Links /\ FromManager(h) # Down(s)
      /\ FromManager(h) # ToManager(s) /\ ToManager(h) # Down(s)
      /\ (ToManager(h) = ToManager(s) <=> h = s)
  BY QueueLinks, LinksDiffer
<1>5. h # Master => link'[Down(h)] = (IF h = s THEN Tail(link[Down(h)]) ELSE link[Down(h)])
                    /\ link'[Up(h)] = link[Up(h)]
  BY <1>2, <1>3
<1>6. /\ link'[ToManager(h)] = IF h = s THEN Append(link[ToManager(h)], x) ELSE link[ToManager(h)]
      /\ link'[FromManager(h)] = link[FromManager(h)]
  BY <1>2, <1>4
<1> QED BY <1>1, <1>5, <1>6 DEF DownQ, ToMgrQ, FromMgrQ, UpQ

(* A manager takes a message and sends its hub some or none.               *)
LEMMA ManagerTakes ==
  ASSUME Typed, NEW k \in Hubs, NEW out, link[ToManager(k)] # <<>>, Transmit(ToManager(k), out),
         DOMAIN out \subseteq {FromManager(k)}
  PROVE  \A h \in Hubs :
           /\ DownQ(h)' = DownQ(h) /\ UpQ(h)' = UpQ(h)
           /\ ToMgrQ(h)' = IF h = k THEN Tail(ToMgrQ(h)) ELSE ToMgrQ(h)
           /\ DOMAIN out = {} => FromMgrQ(h)' = FromMgrQ(h)
<1> SUFFICES ASSUME NEW h \in Hubs
             PROVE  /\ DownQ(h)' = DownQ(h) /\ UpQ(h)' = UpQ(h)
                    /\ ToMgrQ(h)' = IF h = k THEN Tail(ToMgrQ(h)) ELSE ToMgrQ(h)
                    /\ DOMAIN out = {} => FromMgrQ(h)' = FromMgrQ(h)
  OBVIOUS
<1>1. \A l \in Links : l \notin DOMAIN out => link'[l] = IF l = ToManager(k) THEN Tail(link[l]) ELSE link[l]
  BY NotSent
<1>2. h # Master => Down(h) \in Links /\ Up(h) \in Links /\ Up(h) # ToManager(k) /\ Down(h) # ToManager(k)
                    /\ Up(h) # FromManager(k) /\ Down(h) # FromManager(k)
  BY QueueLinks, LinksDiffer
<1>3. /\ ToManager(h) \in Links /\ FromManager(h) \in Links /\ FromManager(h) # ToManager(k)
      /\ ToManager(h) # FromManager(k)
      /\ (ToManager(h) = ToManager(k) <=> h = k)
  BY QueueLinks, LinksDiffer
<1>4. h # Master => link'[Down(h)] = link[Down(h)] /\ link'[Up(h)] = link[Up(h)]
  BY <1>1, <1>2
<1>5. /\ link'[ToManager(h)] = IF h = k THEN Tail(link[ToManager(h)]) ELSE link[ToManager(h)]
      /\ DOMAIN out = {} => link'[FromManager(h)] = link[FromManager(h)]
  BY <1>1, <1>3
<1> QED BY <1>4, <1>5 DEF DownQ, ToMgrQ, FromMgrQ, UpQ

(* Upwards.                                                                *)
LEMMA HubGets ==
  ASSUME Typed, NEW k \in Hubs, NEW x, Deliver(Along(FromManager(k), <<x>>))
  PROVE  \A h \in Hubs :
           /\ DownQ(h)' = DownQ(h) /\ ToMgrQ(h)' = ToMgrQ(h) /\ UpQ(h)' = UpQ(h)
           /\ FromMgrQ(h)' = IF h = k THEN Append(FromMgrQ(h), x) ELSE FromMgrQ(h)
<1> SUFFICES ASSUME NEW h \in Hubs
             PROVE  /\ DownQ(h)' = DownQ(h) /\ ToMgrQ(h)' = ToMgrQ(h) /\ UpQ(h)' = UpQ(h)
                    /\ FromMgrQ(h)' = IF h = k THEN Append(FromMgrQ(h), x) ELSE FromMgrQ(h)
  OBVIOUS
<1>1. Transmit(<<>>, Along(FromManager(k), <<x>>)) /\ <<>> \notin Links
  BY LinksTwoWays DEF Deliver, Nothing
<1>2. \A l \in Links : /\ l # FromManager(k) => link'[l] = link[l]
                       /\ l = FromManager(k) => link'[l] = Append(link[l], x)
  BY <1>1, QueueLinks, OneAlong
<1>3. h # Master => Down(h) \in Links /\ Up(h) \in Links /\ Up(h) # FromManager(k) /\ Down(h) # FromManager(k)
  BY QueueLinks, LinksDiffer
<1>4. /\ ToManager(h) \in Links /\ FromManager(h) \in Links /\ ToManager(h) # FromManager(k)
      /\ (FromManager(h) = FromManager(k) <=> h = k)
  BY QueueLinks, LinksDiffer
<1>5. h # Master => link'[Down(h)] = link[Down(h)] /\ link'[Up(h)] = link[Up(h)]
  BY <1>2, <1>3
<1>6. /\ link'[FromManager(h)] = IF h = k THEN Append(link[FromManager(h)], x) ELSE link[FromManager(h)]
      /\ link'[ToManager(h)] = link[ToManager(h)]
  BY <1>2, <1>4
<1> QED BY <1>5, <1>6 DEF DownQ, ToMgrQ, FromMgrQ, UpQ

(* A slave passes messages of its manager on to the master.                *)
LEMMA SlavePassesUp ==
  ASSUME Typed, NEW s \in Slaves, NEW msgs, link[FromManager(s)] # <<>>,
         Transmit(FromManager(s), Along(Up(s), msgs))
  PROVE  \A h \in Hubs :
           /\ DownQ(h)' = DownQ(h) /\ ToMgrQ(h)' = ToMgrQ(h)
           /\ FromMgrQ(h)' = IF h = s THEN Tail(FromMgrQ(h)) ELSE FromMgrQ(h)
           /\ UpQ(h)' = IF h = s THEN UpQ(h) \o msgs ELSE UpQ(h)
<1> SUFFICES ASSUME NEW h \in Hubs
             PROVE  /\ DownQ(h)' = DownQ(h) /\ ToMgrQ(h)' = ToMgrQ(h)
                    /\ FromMgrQ(h)' = IF h = s THEN Tail(FromMgrQ(h)) ELSE FromMgrQ(h)
                    /\ UpQ(h)' = IF h = s THEN UpQ(h) \o msgs ELSE UpQ(h)
  OBVIOUS
<1>1. s # Master /\ Up(s) \in Links /\ FromManager(s) \in Links /\ s \in Hubs
  BY QueueLinks
<1>2. \A l \in Links : /\ l # Up(s) => link'[l] = IF l = FromManager(s) THEN Tail(link[l]) ELSE link[l]
                       /\ l = Up(s) => link'[l] = link[l] \o msgs
  BY <1>1, OneAlong, LinksDiffer
<1>3. h # Master => Down(h) \in Links /\ Up(h) \in Links /\ Up(h) # FromManager(s) /\ Down(h) # FromManager(s)
                    /\ Down(h) # Up(s) /\ (Up(h) = Up(s) <=> h = s)
  BY QueueLinks, LinksDiffer
<1>4. /\ ToManager(h) \in Links /\ FromManager(h) \in Links /\ ToManager(h) # Up(s)
      /\ FromManager(h) # Up(s) /\ ToManager(h) # FromManager(s)
      /\ (FromManager(h) = FromManager(s) <=> h = s)
  BY QueueLinks, LinksDiffer
<1>5. h # Master => /\ link'[Down(h)] = link[Down(h)]
                    /\ link'[Up(h)] = IF h = s THEN link[Up(h)] \o msgs ELSE link[Up(h)]
  BY <1>2, <1>3
<1>6. /\ link'[ToManager(h)] = link[ToManager(h)]
      /\ link'[FromManager(h)] = IF h = s THEN Tail(link[FromManager(h)]) ELSE link[FromManager(h)]
  BY <1>2, <1>4
<1> QED BY <1>1, <1>5, <1>6 DEF DownQ, ToMgrQ, FromMgrQ, UpQ

(* The master takes a message of hub k.                                    *)
Arriving(k) == IF k = Master THEN FromManager(k) ELSE Up(k)
ArrivingQ(k) == IF k = Master THEN FromMgrQ(k) ELSE UpQ(k)

(* Each link from which the master hub reads belongs to one hub.           *)
LEMMA IncomingOf ==
  ASSUME NEW l \in Incoming
  PROVE  \E k \in Hubs : l = Arriving(k) /\ link[l] = ArrivingQ(k) /\ l \in Links /\ l \notin DownLinks
<1>1. l \in Links /\ l \notin DownLinks
  BY LinksTwoWays
<1>2. CASE l = FromManager(Master)
  BY <1>1, <1>2, Constants DEF Arriving, ArrivingQ, FromMgrQ
<1>3. CASE \E k \in Slaves : l = Up(k)
  BY <1>1, <1>3, Constants DEF Arriving, ArrivingQ, UpQ, Slaves
<1> QED BY <1>2, <1>3 DEF Incoming

(* The master hub takes a message of hub k.                                *)
LEMMA MasterTakes ==
  ASSUME Typed, NEW k \in Hubs, NEW out, link[Arriving(k)] # <<>>, Transmit(Arriving(k), out),
         \A l \in UpLinks : l \notin DOMAIN out
  PROVE  \A h \in Hubs :
           /\ FromMgrQ(h)' = IF h = k /\ h = Master THEN Tail(FromMgrQ(h)) ELSE FromMgrQ(h)
           /\ UpQ(h)' = IF h = k /\ h # Master THEN Tail(UpQ(h)) ELSE UpQ(h)
           /\ DOMAIN out = {} => DownQ(h)' = DownQ(h) /\ ToMgrQ(h)' = ToMgrQ(h)
<1> SUFFICES ASSUME NEW h \in Hubs
             PROVE  /\ FromMgrQ(h)' = IF h = k /\ h = Master THEN Tail(FromMgrQ(h)) ELSE FromMgrQ(h)
                    /\ UpQ(h)' = IF h = k /\ h # Master THEN Tail(UpQ(h)) ELSE UpQ(h)
                    /\ DOMAIN out = {} => DownQ(h)' = DownQ(h) /\ ToMgrQ(h)' = ToMgrQ(h)
  OBVIOUS
<1>1. \A l \in Links : l \notin DOMAIN out => link'[l] = IF l = Arriving(k) THEN Tail(link[l]) ELSE link[l]
  BY NotSent
<1>2. h # Master => /\ Down(h) \in Links /\ Up(h) \in Links /\ Up(h) \in UpLinks
                    /\ Down(h) # Arriving(k) /\ (Up(h) = Arriving(k) <=> h = k)
  BY QueueLinks, LinksDiffer, LinksTwoWays DEF Arriving
<1>3. /\ ToManager(h) \in Links /\ FromManager(h) \in Links /\ FromManager(h) \in UpLinks
      /\ ToManager(h) # Arriving(k) /\ (FromManager(h) = Arriving(k) <=> h = k /\ h = Master)
  BY QueueLinks, LinksDiffer, LinksTwoWays DEF Arriving
<1>4. h # Master => /\ DOMAIN out = {} => link'[Down(h)] = link[Down(h)]
                    /\ link'[Up(h)] = IF h = k THEN Tail(link[Up(h)]) ELSE link[Up(h)]
  BY <1>1, <1>2
<1>5. /\ DOMAIN out = {} => link'[ToManager(h)] = link[ToManager(h)]
      /\ link'[FromManager(h)] = IF h = k /\ h = Master THEN Tail(link[FromManager(h)]) ELSE link[FromManager(h)]
  BY <1>1, <1>3
<1> QED BY <1>4, <1>5 DEF DownQ, ToMgrQ, FromMgrQ, UpQ

(* The queues are as they were when the links are.                         *)
LEMMA LinkSame ==
  ASSUME link' = link
  PROVE  \A h \in Hubs : /\ DownQ(h)' = DownQ(h) /\ ToMgrQ(h)' = ToMgrQ(h)
                         /\ FromMgrQ(h)' = FromMgrQ(h) /\ UpQ(h)' = UpQ(h)
BY DEF DownQ, ToMgrQ, FromMgrQ, UpQ

(* A hub sends a message to its manager.                                   *)
LEMMA ManagerGets ==
  ASSUME Typed, NEW k \in Hubs, NEW x, Deliver(Along(ToManager(k), <<x>>))
  PROVE  \A h \in Hubs :
           /\ DownQ(h)' = DownQ(h)
           /\ ToMgrQ(h)' = IF h = k THEN Append(ToMgrQ(h), x) ELSE ToMgrQ(h)
<1> SUFFICES ASSUME NEW h \in Hubs
             PROVE  /\ DownQ(h)' = DownQ(h)
                    /\ ToMgrQ(h)' = IF h = k THEN Append(ToMgrQ(h), x) ELSE ToMgrQ(h)
  OBVIOUS
<1>1. Transmit(<<>>, Along(ToManager(k), <<x>>)) /\ <<>> \notin Links
  BY LinksTwoWays DEF Deliver, Nothing
<1>2. \A l \in Links : /\ l # ToManager(k) => link'[l] = link[l]
                       /\ l = ToManager(k) => link'[l] = Append(link[l], x)
  BY <1>1, QueueLinks, OneAlong
<1>3. h # Master => Down(h) \in Links /\ Down(h) # ToManager(k)
  BY QueueLinks, LinksDiffer
<1>4. ToManager(h) \in Links /\ (ToManager(h) = ToManager(k) <=> h = k)
  BY QueueLinks, LinksDiffer
<1>5. h # Master => link'[Down(h)] = link[Down(h)]
  BY <1>2, <1>3
<1>6. link'[ToManager(h)] = IF h = k THEN Append(link[ToManager(h)], x) ELSE link[ToManager(h)]
  BY <1>2, <1>4
<1> QED BY <1>5, <1>6 DEF DownQ, ToMgrQ

(* The master hub sends a message to everybody without having taken one.   *)
LEMMA AllGetOnly ==
  ASSUME Typed, NEW x, Deliver(ToAll(x))
  PROVE  \A h \in Hubs :
           /\ DownQ(h)' = IF h = Master THEN DownQ(h) ELSE Append(DownQ(h), x)
           /\ ToMgrQ(h)' = IF h = Master THEN Append(ToMgrQ(h), x) ELSE ToMgrQ(h)
           /\ FromMgrQ(h)' = FromMgrQ(h) /\ UpQ(h)' = UpQ(h)
<1>1. Transmit(<<>>, ToAll(x)) /\ <<>> \notin Links /\ <<>> \notin DownLinks
  BY LinksTwoWays DEF Deliver, Nothing
<1>2. \A h \in Hubs : /\ DownQ(h)' = IF h = Master THEN DownQ(h) ELSE Append(DownQ(h), x)
                      /\ ToMgrQ(h)' = IF h = Master THEN Append(ToMgrQ(h), x) ELSE ToMgrQ(h)
  BY <1>1, AllGet
<1>3. \A l \in UpLinks : link'[l] = link[l]
  <2>1. PICK out : out = ToAll(x)
    OBVIOUS
  <2>2. Transmit(<<>>, out)
    BY <1>1, <2>1
  <2>3. \A l \in UpLinks : l \in Links /\ l \notin DOMAIN out
    <3>1. DOMAIN out = {Down(h) : h \in Slaves} \cup {ToManager(Master)}
      BY <2>1, NoDomain
    <3>2. DOMAIN out \subseteq DownLinks
      BY <3>1, LinksTwoWays, Constants
    <3> QED BY <3>2, LinksTwoWays
  <2>4. \A l \in Links : l \notin DOMAIN out => link'[l] = IF l = <<>> THEN Tail(link[l]) ELSE link[l]
    BY <1>1, <2>2, NotSent
  <2> QED BY <1>1, <2>3, <2>4
<1>4. \A h \in Hubs : FromManager(h) \in UpLinks /\ (h # Master => Up(h) \in UpLinks)
  BY LinksTwoWays, QueueLinks
<1> QED BY <1>2, <1>3, <1>4 DEF FromMgrQ, UpQ

-----------------------------------------------------------------------------
(* A module is started once                                                *)

(* Which messages start a module, tell of its exit, are answers, barriers, *)
(* or work.                                                                *)
LEMMA OfTypes ==
  /\ \A m, x : x \in SpawnOf(m) <=> x = To("Spawn", m)
  /\ \A m, x : x \in SpawnOf(m) => x.type = "Spawn" /\ x.module = m
  /\ \A m, x : x \in ExitOf(m) <=> x = Exit(m, FALSE)
  /\ \A m, x : x \in ExitOf(m) => x.type = "ModuleExit" /\ x.module = m
  /\ \A m, x : x \in ReachedBy(m) => x.type = "BarrierReached" /\ x.from = m
  /\ \A m : \A b \in Nat : Reached(b, m) \in ReachedBy(m)
  /\ \A x : x \in Barriers => x.type = "Barrier"
  /\ \A b \in Nat : BarrierMsg(b) \in Barriers
  /\ \A b, x : x \in OldWork(b) => x.type = "Work" /\ x.id \in 0..(b - 1)
  /\ \A b : \A c \in 0..(b - 1) : Work(c) \in OldWork(b)
BY DEF SpawnOf, ExitOf, ReachedBy, Barriers, OldWork, To, Exit, Reached, BarrierMsg, Work

(* How often a module is about to be started is a natural number.          *)
LEMMA SpawnsNat ==
  ASSUME Typed, NEW h \in Hubs, NEW m \in Modules
  PROVE  /\ Count(DownQ(h), SpawnOf(m)) \in Nat /\ Count(ToMgrQ(h), SpawnOf(m)) \in Nat
         /\ SpawnsAt(h, m) \in Nat
<1>1. Count(DownQ(h), SpawnOf(m)) \in Nat /\ Count(ToMgrQ(h), SpawnOf(m)) \in Nat
  BY QueuesTyped, CountNat
<1> QED BY <1>1 DEF SpawnsAt

(* What else is sent or taken does not count.                              *)
LEMMA SpawnsSame ==
  ASSUME Typed, NEW h \in Hubs, NEW m \in Modules,
         \/ DownQ(h)' = DownQ(h)
         \/ \E x : DownQ(h)' = Append(DownQ(h), x) /\ x \notin SpawnOf(m),
         \/ ToMgrQ(h)' = ToMgrQ(h)
         \/ \E x : ToMgrQ(h)' = Append(ToMgrQ(h), x) /\ x \notin SpawnOf(m)
         \/ ToMgrQ(h) # <<>> /\ ToMgrQ(h)' = Tail(ToMgrQ(h)) /\ Head(ToMgrQ(h)) \notin SpawnOf(m)
  PROVE  SpawnsAt(h, m)' = SpawnsAt(h, m)
<1>1. DownQ(h) \in Seq(DownMsgs(requested)) /\ ToMgrQ(h) \in Seq(DownMsgs(requested))
  BY QueuesTyped
<1>2. \A x : x \notin SpawnOf(m) => One(x \in SpawnOf(m)) = 0
  BY DEF One
<1>3. \A q \in Seq(DownMsgs(requested)) : \A x : x \notin SpawnOf(m) => Count(Append(q, x), SpawnOf(m)) = Count(q, SpawnOf(m))
  BY <1>2, CountAppend
<1>4. \A q \in Seq(DownMsgs(requested)) : q # <<>> /\ Head(q) \notin SpawnOf(m) => Count(Tail(q), SpawnOf(m)) = Count(q, SpawnOf(m))
  BY <1>2, CountTail
<1>5. Count(DownQ(h)', SpawnOf(m)) = Count(DownQ(h), SpawnOf(m))
  BY <1>1, <1>3
<1>6. Count(ToMgrQ(h)', SpawnOf(m)) = Count(ToMgrQ(h), SpawnOf(m))
  BY <1>1, <1>3, <1>4
<1> QED BY <1>5, <1>6 DEF SpawnsAt, SpawnOf

(* A slave that passes a message on starts nothing more.                   *)
LEMMA SpawnsPassed ==
  ASSUME Typed, NEW s \in Slaves, link[Down(s)] # <<>>,
         Transmit(Down(s), Along(ToManager(s), <<Head(link[Down(s)])>>)), NEW h \in Hubs, NEW m \in Modules
  PROVE  SpawnsAt(h, m)' = SpawnsAt(h, m)
<1> DEFINE x == Head(link[Down(s)])
<1>1. /\ DownQ(h)' = IF h = s THEN Tail(DownQ(h)) ELSE DownQ(h)
      /\ ToMgrQ(h)' = IF h = s THEN Append(ToMgrQ(h), x) ELSE ToMgrQ(h)
  BY SlavePassesDown
<1>2. CASE h # s
  BY <1>1, <1>2, SpawnsSame
<1>3. CASE h = s
  <2>1. DownQ(h) = link[Down(s)]
    BY <1>3, QueueLinks DEF DownQ
  <2>2. DownQ(h) \in Seq(DownMsgs(requested)) /\ ToMgrQ(h) \in Seq(DownMsgs(requested))
    BY QueuesTyped
  <2>3. /\ Count(Tail(DownQ(h)), SpawnOf(m)) = Count(DownQ(h), SpawnOf(m)) - One(x \in SpawnOf(m))
        /\ Count(DownQ(h), SpawnOf(m)) \in Nat
    BY <2>1, <2>2, CountTail
  <2>4. /\ Count(Append(ToMgrQ(h), x), SpawnOf(m)) = Count(ToMgrQ(h), SpawnOf(m)) + One(x \in SpawnOf(m))
        /\ Count(ToMgrQ(h), SpawnOf(m)) \in Nat
    BY <2>2, CountAppend
  <2>5. /\ Count(DownQ(h)', SpawnOf(m)) = Count(Tail(DownQ(h)), SpawnOf(m))
        /\ Count(ToMgrQ(h)', SpawnOf(m)) = Count(Append(ToMgrQ(h), x), SpawnOf(m))
    BY <1>1, <1>3
  <2>6. One(x \in SpawnOf(m)) \in Nat
    BY DEF One
  <2>7. SpawnsAt(h, m)' = Count(DownQ(h)', SpawnOf(m)) + Count(ToMgrQ(h)', SpawnOf(m))
    BY DEF SpawnsAt, SpawnOf
  <2>8. SpawnsAt(h, m) = Count(DownQ(h), SpawnOf(m)) + Count(ToMgrQ(h), SpawnOf(m))
    BY DEF SpawnsAt
  <2> HIDE DEF x
  <2> QED BY <2>3, <2>4, <2>5, <2>6, <2>7, <2>8
<1> QED BY <1>2, <1>3

(* What goes to everybody starts no module, unless it says so.             *)
LEMMA SentDownSpawns ==
  ASSUME Typed, NEW taken, taken \in Links => link[taken] # <<>>, taken \notin DownLinks,
         NEW x, x.type # "Spawn", Transmit(taken, ToAll(x)), NEW h \in Hubs, NEW m \in Modules
  PROVE  SpawnsAt(h, m)' = SpawnsAt(h, m)
<1>1. /\ DownQ(h)' = IF h = Master THEN DownQ(h) ELSE Append(DownQ(h), x)
      /\ ToMgrQ(h)' = IF h = Master THEN Append(ToMgrQ(h), x) ELSE ToMgrQ(h)
  BY AllGet
<1>2. x \notin SpawnOf(m)
  BY OfTypes
<1> QED BY <1>1, <1>2, SpawnsSame

(* What is routed to a module starts it, if it says so.                    *)
LEMMA RoutedSpawns ==
  ASSUME Typed, NEW k \in Modules, NEW x, Deliver(Route(k, x)), NEW h \in Hubs, NEW m \in Modules
  PROVE  SpawnsAt(h, m)' = SpawnsAt(h, m) + (IF h = HubOf[k] THEN One(x \in SpawnOf(m)) ELSE 0)
<1>1. /\ DownQ(h)' = IF h = HubOf[k] /\ h # Master THEN Append(DownQ(h), x) ELSE DownQ(h)
      /\ ToMgrQ(h)' = IF h = HubOf[k] /\ h = Master THEN Append(ToMgrQ(h), x) ELSE ToMgrQ(h)
  BY RouteGets
<1>2. DownQ(h) \in Seq(DownMsgs(requested)) /\ ToMgrQ(h) \in Seq(DownMsgs(requested))
  BY QueuesTyped
<1>3. /\ Count(DownQ(h), SpawnOf(m)) \in Nat /\ Count(ToMgrQ(h), SpawnOf(m)) \in Nat
      /\ Count(Append(DownQ(h), x), SpawnOf(m)) = Count(DownQ(h), SpawnOf(m)) + One(x \in SpawnOf(m))
      /\ Count(Append(ToMgrQ(h), x), SpawnOf(m)) = Count(ToMgrQ(h), SpawnOf(m)) + One(x \in SpawnOf(m))
  BY <1>2, CountAppend
<1>4. SpawnsAt(h, m)' = Count(DownQ(h)', SpawnOf(m)) + Count(ToMgrQ(h)', SpawnOf(m))
  BY DEF SpawnsAt, SpawnOf
<1>5. SpawnsAt(h, m) = Count(DownQ(h), SpawnOf(m)) + Count(ToMgrQ(h), SpawnOf(m))
  BY DEF SpawnsAt
<1>6. One(x \in SpawnOf(m)) \in Nat
  BY DEF One
<1>7. CASE h = HubOf[k] /\ h # Master
  BY <1>1, <1>3, <1>4, <1>5, <1>6, <1>7
<1>8. CASE h = HubOf[k] /\ h = Master
  BY <1>1, <1>3, <1>4, <1>5, <1>6, <1>8
<1>9. CASE h # HubOf[k]
  BY <1>1, <1>3, <1>4, <1>5, <1>9
<1> QED BY <1>7, <1>8, <1>9

(* A manager that takes a message that starts a module leaves one fewer.   *)
LEMMA TakenSpawns ==
  ASSUME Typed, NEW k \in Hubs, NEW out, link[ToManager(k)] # <<>>, Transmit(ToManager(k), out),
         DOMAIN out \subseteq {FromManager(k)}, NEW h \in Hubs, NEW m \in Modules
  PROVE  SpawnsAt(h, m)' = SpawnsAt(h, m) - (IF h = k THEN One(Head(link[ToManager(k)]) \in SpawnOf(m)) ELSE 0)
<1> DEFINE x == Head(link[ToManager(k)])
<1>1. DownQ(h)' = DownQ(h) /\ ToMgrQ(h)' = IF h = k THEN Tail(ToMgrQ(h)) ELSE ToMgrQ(h)
  BY ManagerTakes
<1>2. CASE h # k
  <2>1. SpawnsAt(h, m)' = SpawnsAt(h, m) /\ SpawnsAt(h, m) \in Nat
    BY <1>1, <1>2, SpawnsSame, SpawnsNat
  <2> QED BY <1>2, <2>1
<1>3. CASE h = k
  <2>1. ToMgrQ(h) = link[ToManager(k)] /\ ToMgrQ(h) \in Seq(DownMsgs(requested))
    BY <1>3, QueuesTyped DEF ToMgrQ
  <2>2. Count(Tail(ToMgrQ(h)), SpawnOf(m)) = Count(ToMgrQ(h), SpawnOf(m)) - One(x \in SpawnOf(m))
    BY <2>1, CountTail
  <2>3. /\ Count(DownQ(h)', SpawnOf(m)) = Count(DownQ(h), SpawnOf(m))
        /\ Count(ToMgrQ(h)', SpawnOf(m)) = Count(Tail(ToMgrQ(h)), SpawnOf(m))
    BY <1>1, <1>3
  <2>4. One(x \in SpawnOf(m)) \in Nat
    BY DEF One
  <2>5. SpawnsAt(h, m)' = Count(DownQ(h)', SpawnOf(m)) + Count(ToMgrQ(h)', SpawnOf(m))
    BY DEF SpawnsAt, SpawnOf
  <2>6. SpawnsAt(h, m) = Count(DownQ(h), SpawnOf(m)) + Count(ToMgrQ(h), SpawnOf(m))
    BY DEF SpawnsAt
  <2>7. Count(DownQ(h), SpawnOf(m)) \in Nat /\ Count(ToMgrQ(h), SpawnOf(m)) \in Nat
    BY SpawnsNat
  <2> HIDE DEF x
  <2>8. SpawnsAt(h, m)' = SpawnsAt(h, m) - One(x \in SpawnOf(m))
    BY <2>2, <2>3, <2>4, <2>5, <2>6, <2>7
  <2> QED BY <1>3, <2>8 DEF x
<1> QED BY <1>2, <1>3

(* An answer that arrives at the master hub starts nothing.                *)
LEMMA ArrivesSpawns ==
  ASSUME Typed, NEW l \in Incoming, link[l] # <<>>, NEW n \in Modules, NEW b, Arrives(l, n, b),
         NEW h \in Hubs, NEW m \in Modules
  PROVE  SpawnsAt(h, m)' = SpawnsAt(h, m)
<1>1. PICK k \in Hubs : l = Arriving(k) /\ l \in Links /\ l \notin DownLinks
  BY IncomingOf
<1>2. Transmit(l, ToAll(Reached(b, HubId))) \/ Transmit(l, Nothing)
  BY DEF Arrives
<1>3. CASE Transmit(l, ToAll(Reached(b, HubId)))
  BY <1>1, <1>3, SentDownSpawns DEF Reached
<1>4. CASE Transmit(l, Nothing)
  <2>1. DOMAIN Nothing = {}
    BY NoDomain
  <2>2. DownQ(h)' = DownQ(h) /\ ToMgrQ(h)' = ToMgrQ(h)
    BY <1>1, <1>4, <2>1, MasterTakes
  <2> QED BY <2>2, SpawnsSame
<1> QED BY <1>2, <1>3, <1>4

(* All steps but two.                                                      *)
StartsNothing ==
  \/ RequestBarrier \/ MasterHub
  \/ \E m \in Modules : Kill(m) \/ Execute(m) \/ Quit(m) \/ Crash(m) \/ CheckChildProcesses(m)
  \/ \E h \in Slaves : SlaveHub(h)
  \/ \E g \in Managers : MgrBarrier(g) \/ MgrBarrierReached(g) \/ MgrToModule(g) \/ MgrModuleExit(g)
  \/ \E p \in Procs : FromProc(p) \/ Proc(p) \/ SendWork(p)

(* Only Spawn and MgrSpawn change which modules are about to be started.   *)
LEMMA SpawnsKept ==
  ASSUME Typed, OneRank, StartsNothing, NEW h \in Hubs, NEW m \in Modules
  PROVE  SpawnsAt(h, m)' = SpawnsAt(h, m)
<1>1. \A x : x.type # "Spawn" => x \notin SpawnOf(m)
  BY OfTypes
<1>2. ASSUME link' = link PROVE SpawnsAt(h, m)' = SpawnsAt(h, m)
  BY <1>2, LinkSame, SpawnsSame
<1>3. CASE RequestBarrier
  <2>1. <<>> \notin Links /\ <<>> \notin DownLinks
    BY LinksTwoWays DEF Nothing
  <2>2. \/ Transmit(<<>>, ToAll(Reached(requested', HubId)))
        \/ Transmit(<<>>, ToAll(BarrierMsg(requested')))
    BY <1>3 DEF RequestBarrier, Deliver
  <2>3. Reached(requested', HubId).type # "Spawn" /\ BarrierMsg(requested').type # "Spawn"
    BY DEF Reached, BarrierMsg
  <2> QED BY <2>1, <2>2, <2>3, SentDownSpawns
<1>4. CASE MasterHub
  <2>1. PICK l \in Incoming : MasterBarrierReached(l) \/ MasterModuleExit(l)
    BY <1>4 DEF MasterHub
  <2>2. link[l] # <<>> /\ l \in UpLinks
    BY <2>1, LinksTwoWays DEF MasterBarrierReached, MasterModuleExit, AtHead
  <2>3. Head(link[l]) \in UpMsgs(requested) /\ requested \in Nat
    BY <2>2, HeadUp
  <2>4. CASE MasterBarrierReached(l)
    <3>1. Head(link[l]).from \in Modules /\ Arrives(l, Head(link[l]).from, Head(link[l]).id)
      BY <2>3, <2>4, UpMsgRead DEF MasterBarrierReached, AtHead
    <3> QED BY <2>2, <3>1, ArrivesSpawns
  <2>5. CASE MasterModuleExit(l)
    <3>1. Head(link[l]).module \in Modules
      BY <2>3, <2>5, UpMsgRead DEF MasterModuleExit, AtHead
    <3>2. CASE Arrives(l, Head(link[l]).module, uuid[Master])
      BY <2>2, <3>1, <3>2, ArrivesSpawns
    <3>3. CASE Transmit(l, Nothing)
      <4>1. PICK k \in Hubs : l = Arriving(k)
        BY IncomingOf
      <4>2. DOMAIN Nothing = {}
        BY NoDomain
      <4>3. DownQ(h)' = DownQ(h) /\ ToMgrQ(h)' = ToMgrQ(h)
        BY <2>2, <3>3, <4>1, <4>2, MasterTakes
      <4> QED BY <4>3, SpawnsSame
    <3> QED BY <2>5, <3>2, <3>3 DEF MasterModuleExit
  <2> QED BY <2>1, <2>4, <2>5
<1>5. CASE \E n \in Modules : Kill(n) \/ Execute(n) \/ Quit(n) \/ Crash(n) \/ CheckChildProcesses(n)
  <2>1. PICK n \in Modules : Kill(n) \/ Execute(n) \/ Quit(n) \/ Crash(n) \/ CheckChildProcesses(n)
    BY <1>5
  <2>2. /\ To("Kill", n) \notin SpawnOf(m) /\ To("Upstream", n) \notin SpawnOf(m)
        /\ Exit(n, FALSE) \notin SpawnOf(m) /\ Exit(n, TRUE) \notin SpawnOf(m)
    BY <1>1 DEF To, Exit
  <2>3. ASSUME NEW x, x \notin SpawnOf(m), Deliver(Route(n, x)) PROVE SpawnsAt(h, m)' = SpawnsAt(h, m)
    <3>1. SpawnsAt(h, m)' = SpawnsAt(h, m) + (IF h = HubOf[n] THEN One(x \in SpawnOf(m)) ELSE 0)
      BY <2>3, RoutedSpawns
    <3>2. One(x \in SpawnOf(m)) = 0 /\ SpawnsAt(h, m) \in Nat
      BY <2>3, SpawnsNat DEF One
    <3> QED BY <3>1, <3>2
  <2>4. ASSUME NEW k \in Hubs, NEW x, x \notin SpawnOf(m), Deliver(Along(ToManager(k), <<x>>))
        PROVE  SpawnsAt(h, m)' = SpawnsAt(h, m)
    <3>1. /\ DownQ(h)' = DownQ(h)
          /\ ToMgrQ(h)' = IF h = k THEN Append(ToMgrQ(h), x) ELSE ToMgrQ(h)
      BY <2>4, ManagerGets
    <3> QED BY <2>4, <3>1, SpawnsSame
  <2>5. CASE Kill(n)
    <3>1. Deliver(Along(ToManager(Master), <<Exit(n, FALSE)>>)) \/ Deliver(Route(n, To("Kill", n)))
      BY <2>5 DEF Kill, ToMaster
    <3> QED BY <2>2, <2>3, <2>4, <3>1, Constants
  <2>6. CASE Execute(n)
    BY <2>2, <2>3, <2>6 DEF Execute
  <2>7. CASE Quit(n) \/ Crash(n)
    BY <1>2, <2>7 DEF Quit, Crash
  <2>8. CASE CheckChildProcesses(n)
    BY <2>2, <2>4, <2>8, Constants DEF CheckChildProcesses
  <2> QED BY <2>1, <2>5, <2>6, <2>7, <2>8
<1>6. CASE \E s \in Slaves : SlaveHub(s)
  <2>1. PICK s \in Slaves : SlaveHub(s)
    BY <1>6
  <2>2. CASE SlaveBarrier(s) \/ SlaveBarrierReached(s) \/ RelayDown(s)
    <3>1. link[Down(s)] # <<>> /\ Transmit(Down(s), Along(ToManager(s), <<Head(link[Down(s)])>>))
      BY <2>2 DEF SlaveBarrier, SlaveBarrierReached, RelayDown, AtHead
    <3> QED BY <3>1, SpawnsPassed
  <2>3. CASE RelayUp(s) \/ SlaveModuleExit(s)
    <3>1. link[FromManager(s)] # <<>> /\ \E msgs : Transmit(FromManager(s), Along(Up(s), msgs))
      BY <2>3 DEF RelayUp, SlaveModuleExit, AtHead
    <3>2. DownQ(h)' = DownQ(h) /\ ToMgrQ(h)' = ToMgrQ(h)
      BY <3>1, SlavePassesUp
    <3> QED BY <3>2, SpawnsSame
  <2> QED BY <2>1, <2>2, <2>3 DEF SlaveHub
<1>7. CASE \E g \in Managers : MgrBarrier(g) \/ MgrBarrierReached(g) \/ MgrToModule(g) \/ MgrModuleExit(g)
  <2>1. PICK g \in Managers : MgrBarrier(g) \/ MgrBarrierReached(g) \/ MgrToModule(g) \/ MgrModuleExit(g)
    BY <1>7
  <2>2. /\ g[1] \in Hubs /\ Source(g) = ToManager(g[1])
        /\ \A msgs : DOMAIN Ranked(g, msgs) = {}
        /\ \A x, msgs : DOMAIN Both(ToHub(g, x), Ranked(g, msgs)) = {FromManager(g[1])}
    <3>1. g[1] \in Hubs /\ Source(g) = ToManager(g[1]) /\ \A msgs : DOMAIN Ranked(g, msgs) = {}
      BY OneManager
    <3>2. \A x, msgs : Both(ToHub(g, x), Ranked(g, msgs)) = Along(FromManager(g[1]), <<x>>)
      BY OneManager
    <3>3. \A x : DOMAIN Along(FromManager(g[1]), <<x>>) = {FromManager(g[1])}
      BY NoDomain
    <3> QED BY <3>1, <3>2, <3>3
  <2>3. link[Source(g)] # <<>> /\ Head(link[Source(g)]).type # "Spawn"
    BY <2>1 DEF MgrBarrier, MgrBarrierReached, MgrToModule, MgrModuleExit, Arrived, AtHead
  <2>4. \E out : Transmit(Source(g), out) /\ DOMAIN out \subseteq {FromManager(g[1])}
    <3>1. CASE \E msgs : Transmit(Source(g), Ranked(g, msgs))
      BY <2>2, <3>1
    <3>2. CASE \E x, msgs : Transmit(Source(g), Both(ToHub(g, x), Ranked(g, msgs)))
      BY <2>2, <3>2
    <3>3. CASE MgrBarrier(g) \/ MgrBarrierReached(g) \/ MgrToModule(g)
      BY <3>1, <3>3 DEF MgrBarrier, MgrBarrierReached, MgrToModule
    <3>4. CASE MgrModuleExit(g)
      BY <3>1, <3>2, <3>4 DEF MgrModuleExit
    <3> QED BY <2>1, <3>3, <3>4
  <2>5. PICK out : Transmit(Source(g), out) /\ DOMAIN out \subseteq {FromManager(g[1])}
    BY <2>4
  <2>6. SpawnsAt(h, m)' = SpawnsAt(h, m) - (IF h = g[1] THEN One(Head(link[ToManager(g[1])]) \in SpawnOf(m)) ELSE 0)
    BY <2>2, <2>3, <2>5, TakenSpawns
  <2>7. One(Head(link[ToManager(g[1])]) \in SpawnOf(m)) = 0 /\ SpawnsAt(h, m) \in Nat
    BY <1>1, <2>2, <2>3, SpawnsNat DEF One
  <2> QED BY <2>6, <2>7
<1>8. CASE \E p \in Procs : FromProc(p) \/ Proc(p) \/ SendWork(p)
  <2>1. PICK p \in Procs : FromProc(p) \/ Proc(p) \/ SendWork(p)
    BY <1>8
  <2>2. link' = link \/ \E k \in Hubs : \E x : Deliver(Along(FromManager(k), <<x>>))
    <3>1. ManagerOf(p) \in Managers /\ ManagerOf(p)[1] \in Hubs
      BY Constants
    <3>2. /\ \A x : ToHub(ManagerOf(p), x) = Along(FromManager(ManagerOf(p)[1]), <<x>>)
          /\ \A x, msgs : Both(ToHub(ManagerOf(p), x), Ranked(ManagerOf(p), msgs)) = Along(FromManager(ManagerOf(p)[1]), <<x>>)
      BY <3>1, OneManager
    <3>3. CASE DropHeld(p) \/ TakeWork(p) \/ Proc(p) \/ SendWork(p)
      BY <3>3 DEF DropHeld, TakeWork, Proc, OnBarrier, OnUpstream, FinishExecution, SendWork
    <3>4. CASE TakeBarrierReached(p)
      BY <3>1, <3>2, <3>4 DEF TakeBarrierReached
    <3>5. CASE TakeModuleExit(p)
      <4>1. CASE runningMap[ManagerOf(p)][p[1]] = "unknown"
        BY <3>5, <4>1 DEF TakeModuleExit
      <4>2. CASE runningMap[ManagerOf(p)][p[1]] # "unknown"
        <5>1. Deliver(Both(ToHub(ManagerOf(p), Exit(p[1], FALSE)),
                           Ranked(ManagerOf(p), <<Forwarded(p[1], FALSE)>>)))
          BY <3>5, <4>2 DEF TakeModuleExit
        <5>2. Deliver(Along(FromManager(ManagerOf(p)[1]), <<Exit(p[1], FALSE)>>))
          BY <3>2, <5>1
        <5> QED BY <3>1, <5>2
      <4> QED BY <4>1, <4>2
    <3> QED BY <2>1, <3>3, <3>4, <3>5 DEF FromProc
  <2>3. CASE \E k \in Hubs : \E x : Deliver(Along(FromManager(k), <<x>>))
    <3>1. DownQ(h)' = DownQ(h) /\ ToMgrQ(h)' = ToMgrQ(h)
      BY <2>3, HubGets
    <3> QED BY <3>1, SpawnsSame
  <2> QED BY <1>2, <2>2, <2>3
<1> QED BY <1>3, <1>4, <1>5, <1>6, <1>7, <1>8 DEF StartsNothing

(* What keeps a module from being started twice: no start is added or      *)
(* taken, and who is known stays known.                                    *)
LEMMA OnceKept ==
  ASSUME Typed, Typed', StartedOnce,
         \A h \in Hubs, m \in Modules : SpawnsAt(h, m)' = SpawnsAt(h, m),
         \A m \in Modules : Unknown(m)' => Unknown(m),
         \A m \in Modules : NotYet(m) => NotYet(m)',
         \A m \in killed' : m \in killed \/ (m \in Killable /\ ~Unknown(m))
  PROVE  StartedOnce'
<1>1. ASSUME NEW m \in Modules
      PROVE  /\ Spawns(m)' <= 1
             /\ Unknown(m)' => Spawns(m)' = 0 /\ m \notin killed'
             /\ Spawns(m)' > 0 \/ Unknown(m)' => NotYet(m)'
  <2>1. Spawns(m)' = Spawns(m)
    BY Constants DEF Spawns
  <2>3. /\ Spawns(m) <= 1
        /\ Unknown(m) => Spawns(m) = 0 /\ m \notin killed
        /\ Spawns(m) > 0 \/ Unknown(m) => NotYet(m)
    BY DEF StartedOnce
  <2> QED BY <2>1, <2>3
<1>2. \A h \in Hubs, m \in Modules : HubOf[m] # h => SpawnsAt(h, m)' = 0
  BY DEF StartedOnce
<1>3. killed' \subseteq Killable
  BY DEF StartedOnce
<1> QED BY <1>1, <1>2, <1>3 DEF StartedOnce

(* What the steps of each part leave as it is.                             *)
LEMMA PartsLeave ==
  /\ RequestBarrier => UNCHANGED <<alive, tracked, killed, joined>>
  /\ MasterHub => UNCHANGED <<alive, killed, joined>>
  /\ \A l \in Incoming : MasterBarrierReached(l) => UNCHANGED tracked
  /\ \A m \in Modules : /\ Kill(m) => UNCHANGED <<alive, tracked, joined>>
                        /\ Spawn(m) => UNCHANGED <<alive, killed>>
                        /\ Execute(m) => UNCHANGED <<alive, tracked, killed, joined>>
                        /\ Quit(m) \/ Crash(m) \/ CheckChildProcesses(m) => UNCHANGED <<tracked, killed, joined>>
  /\ \A h \in Slaves : SlaveHub(h) => UNCHANGED <<alive, tracked, killed, joined>>
  /\ \A g \in Managers : /\ Manager(g) => UNCHANGED <<tracked, killed, joined>>
                         /\ MgrBarrier(g) \/ MgrBarrierReached(g) \/ MgrToModule(g) \/ MgrModuleExit(g)
                              => UNCHANGED alive /\ Manager(g)
  /\ \A p \in Procs : FromProc(p) \/ Proc(p) \/ SendWork(p) => UNCHANGED <<alive, tracked, killed, joined>>
<1>1. RequestBarrier => UNCHANGED <<alive, tracked, killed, joined>>
  BY DEF RequestBarrier, process
<1>2. MasterHub => UNCHANGED <<alive, killed, joined>>
  BY DEF MasterHub, MasterBarrierReached, MasterModuleExit, process
<1>3. \A l \in Incoming : MasterBarrierReached(l) => UNCHANGED tracked
  BY DEF MasterBarrierReached
<1>4. \A m \in Modules :
        /\ Kill(m) => UNCHANGED <<alive, tracked, joined>>
        /\ Spawn(m) => UNCHANGED <<alive, killed>>
        /\ Execute(m) => UNCHANGED <<alive, tracked, killed, joined>>
        /\ Quit(m) \/ Crash(m) \/ CheckChildProcesses(m) => UNCHANGED <<tracked, killed, joined>>
  BY DEF Kill, Spawn, Execute, Quit, Crash, CheckChildProcesses, hub, process, script
<1>5. \A h \in Slaves : SlaveHub(h) => UNCHANGED <<alive, tracked, killed, joined>>
  BY DEF SlaveHub, SlaveBarrier, SlaveBarrierReached, RelayDown, RelayUp, SlaveModuleExit, hub, process, script
<1>6. \A g \in Managers :
        /\ Manager(g) => UNCHANGED <<tracked, killed, joined>>
        /\ MgrBarrier(g) \/ MgrBarrierReached(g) \/ MgrToModule(g) \/ MgrModuleExit(g)
             => UNCHANGED alive /\ Manager(g)
  <2> TAKE g \in Managers
  <2>1. MgrBarrier(g) \/ MgrBarrierReached(g) => UNCHANGED <<alive, tracked, killed, joined>>
    BY DEF MgrBarrier, MgrBarrierReached, hub, process, script
  <2>2. MgrToModule(g) \/ MgrModuleExit(g) => UNCHANGED <<alive, tracked, killed, joined>>
    BY DEF MgrToModule, MgrModuleExit, hub, process, script
  <2>3. MgrSpawn(g) => UNCHANGED <<tracked, killed, joined>>
    BY DEF MgrSpawn, hub, script
  <2> QED BY <2>1, <2>2, <2>3 DEF Manager
<1>7. \A p \in Procs : FromProc(p) \/ Proc(p) \/ SendWork(p) => UNCHANGED <<alive, tracked, killed, joined>>
  <2> TAKE p \in Procs
  <2>1. DropHeld(p) \/ TakeWork(p) \/ TakeBarrierReached(p) => UNCHANGED <<alive, tracked, killed, joined>>
    BY DEF DropHeld, TakeWork, TakeBarrierReached, hub, process, script
  <2>2. TakeModuleExit(p) => UNCHANGED <<alive, tracked, killed, joined>>
    BY DEF TakeModuleExit, hub, process, script
  <2>3. Proc(p) \/ SendWork(p) => UNCHANGED <<alive, tracked, killed, joined>>
    BY DEF Proc, OnBarrier, OnUpstream, FinishExecution, SendWork, hub, process, script
  <2> QED BY <2>1, <2>2, <2>3 DEF FromProc
<1> QED BY ONLY <1>1, <1>2, <1>3, <1>4, <1>5, <1>6, <1>7

(* A step that starts no module keeps StartedOnce.                         *)
LEMMA StartsNothingOnce ==
  ASSUME Typed, Typed', OneRank, StartedOnce, StartsNothing
  PROVE  StartedOnce'
<1>1. \A h \in Hubs, m \in Modules : SpawnsAt(h, m)' = SpawnsAt(h, m)
  BY SpawnsKept
<1>2. \A m \in Modules : NotYet(m) => NotYet(m)'
  <2>1. CASE \E m \in Modules : Quit(m) \/ Crash(m) \/ CheckChildProcesses(m)
    <3>1. PICK n \in Modules : alive[n] # "not yet" /\ \E x : alive' = [alive EXCEPT ![n] = x]
      BY <2>1 DEF Quit, Crash, CheckChildProcesses
    <3>2. alive \in [Modules -> {"not yet", "up", "exited", "crashed", "reported"}]
      BY DEF Typed, ProcTyped
    <3> QED BY <3>1, <3>2 DEF NotYet
  <2>2. alive' = alive \/ \E m \in Modules : Quit(m) \/ Crash(m) \/ CheckChildProcesses(m)
    BY PartsLeave DEF StartsNothing
  <2> QED BY <2>1, <2>2 DEF NotYet
<1>3. \A m \in killed' : m \in killed \/ (m \in Killable /\ ~Unknown(m))
  <2>1. CASE \E m \in Modules : Kill(m)
    BY <2>1 DEF Kill, Unknown
  <2>2. killed' = killed \/ \E m \in Modules : Kill(m)
    BY PartsLeave DEF StartsNothing
  <2> QED BY <2>1, <2>2
<1>4. \A m \in Modules : Unknown(m)' => Unknown(m)
  <2>1. CASE \E l \in Incoming : MasterModuleExit(l)
    <3>1. PICK l \in Incoming : MasterModuleExit(l)
      BY <2>1
    <3>2. tracked' = [tracked EXCEPT ![Head(link[l]).module] = IF Head(link[l]).crashed THEN "crashed" ELSE "quit"]
      BY <3>1 DEF MasterModuleExit
    <3>3. tracked \in [Modules -> {"unknown", "running", "crashed", "quit"}]
      BY DEF Typed, HubTyped
    <3> QED BY <3>2, <3>3 DEF Unknown
  <2>2. tracked' = tracked \/ \E l \in Incoming : MasterModuleExit(l)
    BY PartsLeave DEF StartsNothing, MasterHub
  <2> QED BY <2>1, <2>2 DEF Unknown
<1> QED BY <1>1, <1>2, <1>3, <1>4, OnceKept

(* Spawn adds one start, of its module at its hub.                         *)
LEMMA SpawnSpawns ==
  ASSUME Typed, NEW n \in Modules, Spawn(n), NEW h \in Hubs, NEW m \in Modules
  PROVE  SpawnsAt(h, m)' = SpawnsAt(h, m) + (IF h = HubOf[n] /\ m = n THEN 1 ELSE 0)
<1>1. SpawnsAt(h, m)' = SpawnsAt(h, m) + (IF h = HubOf[n] THEN One(To("Spawn", n) \in SpawnOf(m)) ELSE 0)
  BY RoutedSpawns DEF Spawn
<1>2. To("Spawn", n) \in SpawnOf(m) <=> m = n
  BY DEF SpawnOf, To
<1>3. SpawnsAt(h, m) \in Nat
  BY SpawnsNat
<1> QED BY <1>1, <1>2, <1>3 DEF One

(* Spawn keeps StartedOnce: it starts only what the master hub has never   *)
(* known.                                                                  *)
LEMMA SpawnOnce ==
  ASSUME Typed, Typed', StartedOnce, NEW n \in Modules, Spawn(n)
  PROVE  StartedOnce'
<1>1. \A h \in Hubs, m \in Modules :
        SpawnsAt(h, m)' = SpawnsAt(h, m) + (IF h = HubOf[n] /\ m = n THEN 1 ELSE 0)
  BY SpawnSpawns
<1>2. /\ tracked[n] = "unknown" /\ tracked' = [tracked EXCEPT ![n] = "running"]
      /\ alive' = alive /\ killed' = killed
  BY DEF Spawn, process
<1>3. tracked \in [Modules -> {"unknown", "running", "crashed", "quit"}]
  BY DEF Typed, HubTyped
<1>4. ASSUME NEW m \in Modules
      PROVE  /\ Spawns(m)' <= 1
             /\ Unknown(m)' => Spawns(m)' = 0 /\ m \notin killed'
             /\ Spawns(m)' > 0 \/ Unknown(m)' => NotYet(m)'
  <2>1. Spawns(m)' = Spawns(m) + (IF m = n THEN 1 ELSE 0) /\ Spawns(m) \in Nat
    BY <1>1, SpawnsNat, Constants DEF Spawns
  <2>2. /\ Spawns(m) <= 1
        /\ Unknown(m) => Spawns(m) = 0 /\ m \notin killed
        /\ Spawns(m) > 0 \/ Unknown(m) => NotYet(m)
    BY DEF StartedOnce
  <2>3. /\ NotYet(m)' <=> NotYet(m)
        /\ m = n => ~Unknown(m)' /\ Unknown(m)
        /\ m # n => (Unknown(m)' <=> Unknown(m))
    BY <1>2, <1>3 DEF NotYet, Unknown
  <2> QED BY <1>2, <2>1, <2>2, <2>3
<1>5. \A h \in Hubs, m \in Modules : HubOf[m] # h => SpawnsAt(h, m)' = 0
  <2> SUFFICES ASSUME NEW h \in Hubs, NEW m \in Modules, HubOf[m] # h PROVE SpawnsAt(h, m)' = 0
    OBVIOUS
  <2>1. SpawnsAt(h, m) = 0
    BY DEF StartedOnce
  <2>2. SpawnsAt(h, m)' = SpawnsAt(h, m) + (IF h = HubOf[n] /\ m = n THEN 1 ELSE 0)
    BY <1>1
  <2> QED BY <2>1, <2>2
<1> QED BY <1>2, <1>4, <1>5 DEF StartedOnce

(* Where a Spawn is taken, the module belongs and is not there yet.        *)
LEMMA MgrSpawnSpawns ==
  ASSUME Typed, OneRank, StartedOnce, NEW g \in Managers, MgrSpawn(g)
  PROVE  LET n == Head(link[Source(g)]).module IN
         /\ n \in Modules /\ g = <<HubOf[n], 0>> /\ Source(g) = ToManager(HubOf[n])
         /\ Head(link[Source(g)]) = To("Spawn", n) /\ link[Source(g)] # <<>>
         /\ Spawns(n) = 1 /\ ~Unknown(n) /\ NotYet(n)
         /\ \A h \in Hubs, m \in Modules :
              SpawnsAt(h, m)' = SpawnsAt(h, m) - (IF h = HubOf[n] /\ m = n THEN 1 ELSE 0)
<1> DEFINE n == Head(link[Source(g)]).module
<1>1. /\ g[1] \in Hubs /\ Source(g) = ToManager(g[1]) /\ g = <<g[1], 0>>
      /\ \A msgs : DOMAIN Ranked(g, msgs) = {}
  BY OneManager
<1>2. AtHead(link[Source(g)], "Spawn") /\ Transmit(Source(g), Ranked(g, <<Head(link[Source(g)])>>))
  BY DEF MgrSpawn, Arrived
<1>3. link[Source(g)] # <<>> /\ n \in Modules /\ Head(link[Source(g)]) = To("Spawn", n)
  <2>1. link[Source(g)] # <<>> /\ Head(link[Source(g)]).type = "Spawn"
    BY <1>2 DEF AtHead
  <2>2. Head(link[Source(g)]) \in DownMsgs(requested) /\ requested \in Nat
    BY <2>1, HeadDown, LinksTwoWays
  <2> QED BY <2>1, <2>2, DownMsgRead DEF ToModule
<1> HIDE DEF n
<1>4. \A m \in Modules : One(Head(link[ToManager(g[1])]) \in SpawnOf(m)) = IF m = n THEN 1 ELSE 0
  BY <1>1, <1>3 DEF One, SpawnOf, To
<1>5. \A h \in Hubs, m \in Modules :
        SpawnsAt(h, m)' = SpawnsAt(h, m) - (IF h = g[1] THEN One(Head(link[ToManager(g[1])]) \in SpawnOf(m)) ELSE 0)
  BY <1>1, <1>2, <1>3, TakenSpawns
<1>6. SpawnsAt(g[1], n) > 0
  <2>1. ToMgrQ(g[1]) = link[ToManager(g[1])] /\ ToMgrQ(g[1]) \in Seq(DownMsgs(requested))
    BY <1>1, QueuesTyped DEF ToMgrQ
  <2>2. /\ Count(ToMgrQ(g[1]), SpawnOf(n)) = Count(Tail(ToMgrQ(g[1])), SpawnOf(n)) + One(Head(ToMgrQ(g[1])) \in SpawnOf(n))
        /\ Count(Tail(ToMgrQ(g[1])), SpawnOf(n)) \in Nat
    BY <1>1, <1>3, <2>1, CountTail
  <2>3. One(Head(ToMgrQ(g[1])) \in SpawnOf(n)) = 1
    BY <1>3, <1>4, <2>1
  <2>4. Count(DownQ(g[1]), SpawnOf(n)) \in Nat
    BY <1>1, <1>3, SpawnsNat
  <2> QED BY <2>2, <2>3, <2>4 DEF SpawnsAt
<1>7. HubOf[n] = g[1]
  <2>1. HubOf[n] # g[1] => SpawnsAt(g[1], n) = 0
    BY <1>1, <1>3 DEF StartedOnce
  <2> QED BY <1>6, <2>1
<1>8. Spawns(n) = 1 /\ ~Unknown(n) /\ NotYet(n)
  <2>1. Spawns(n) <= 1 /\ (Unknown(n) => Spawns(n) = 0) /\ (Spawns(n) > 0 => NotYet(n))
    BY <1>3 DEF StartedOnce
  <2>2. Spawns(n) > 0 /\ Spawns(n) \in Nat
    BY <1>1, <1>3, <1>6, <1>7, SpawnsNat DEF Spawns
  <2> QED BY <2>1, <2>2
<1>9. \A h \in Hubs, m \in Modules :
        SpawnsAt(h, m)' = SpawnsAt(h, m) - (IF h = HubOf[n] /\ m = n THEN 1 ELSE 0)
  <2> SUFFICES ASSUME NEW h \in Hubs, NEW m \in Modules
               PROVE  SpawnsAt(h, m)' = SpawnsAt(h, m) - (IF h = HubOf[n] /\ m = n THEN 1 ELSE 0)
    OBVIOUS
  <2>1. SpawnsAt(h, m)' = SpawnsAt(h, m) - (IF h = g[1] THEN One(Head(link[ToManager(g[1])]) \in SpawnOf(m)) ELSE 0)
    BY <1>5
  <2>2. One(Head(link[ToManager(g[1])]) \in SpawnOf(m)) = IF m = n THEN 1 ELSE 0
    BY <1>4
  <2> QED BY <1>7, <2>1, <2>2
<1> QED BY <1>1, <1>3, <1>7, <1>8, <1>9 DEF n

(* MgrSpawn keeps StartedOnce.                                             *)
LEMMA MgrSpawnOnce ==
  ASSUME Typed, Typed', OneRank, StartedOnce, NEW g \in Managers, MgrSpawn(g)
  PROVE  StartedOnce'
<1> DEFINE n == Head(link[Source(g)]).module
<1>1. /\ n \in Modules /\ Spawns(n) = 1 /\ ~Unknown(n)
      /\ \A h \in Hubs, m \in Modules :
           SpawnsAt(h, m)' = SpawnsAt(h, m) - (IF h = HubOf[n] /\ m = n THEN 1 ELSE 0)
  BY MgrSpawnSpawns
<1>2. tracked' = tracked /\ killed' = killed /\ (alive' = alive \/ alive' = [alive EXCEPT ![n] = "up"])
  BY DEF MgrSpawn, hub, script
<1> HIDE DEF n
<1>3. ASSUME NEW m \in Modules
      PROVE  /\ Spawns(m)' <= 1
             /\ Unknown(m)' => Spawns(m)' = 0 /\ m \notin killed'
             /\ Spawns(m)' > 0 \/ Unknown(m)' => NotYet(m)'
  <2>1. Spawns(m)' = Spawns(m) - (IF m = n THEN 1 ELSE 0) /\ Spawns(m) \in Nat
    BY <1>1, SpawnsNat, Constants DEF Spawns
  <2>2. /\ Spawns(m) <= 1
        /\ Unknown(m) => Spawns(m) = 0 /\ m \notin killed
        /\ Spawns(m) > 0 \/ Unknown(m) => NotYet(m)
    BY DEF StartedOnce
  <2>3. (Unknown(m)' <=> Unknown(m)) /\ (m # n => (NotYet(m)' <=> NotYet(m)))
    BY <1>2 DEF Typed, ProcTyped, NotYet, Unknown
  <2> QED BY <1>1, <1>2, <2>1, <2>2, <2>3
<1>4. \A h \in Hubs, m \in Modules : HubOf[m] # h => SpawnsAt(h, m)' = 0
  <2> SUFFICES ASSUME NEW h \in Hubs, NEW m \in Modules, HubOf[m] # h PROVE SpawnsAt(h, m)' = 0
    OBVIOUS
  <2>1. SpawnsAt(h, m) = 0
    BY DEF StartedOnce
  <2>2. ~(h = HubOf[n] /\ m = n)
    OBVIOUS
  <2> QED BY <1>1, <2>1, <2>2
<1> QED BY <1>2, <1>3, <1>4 DEF StartedOnce

(* Every step keeps StartedOnce.                                           *)
LEMMA NextOnce ==
  ASSUME Typed, Typed', OneRank, StartedOnce, Next
  PROVE  StartedOnce'
<1>1. \/ StartsNothing
      \/ \E m \in Modules : Spawn(m)
      \/ \E g \in Managers : MgrSpawn(g)
  BY DEF Next, StartsNothing, Manager
<1> QED BY <1>1, StartsNothingOnce, SpawnOnce, MgrSpawnOnce

(* Who has crashed or was reported stays so.                               *)
LEMMA GoodBefore ==
  ASSUME Typed, Typed', OneRank, StartedOnce, Next, Good'
  PROVE  Good
<1>1. ASSUME NEW m \in Modules PROVE alive[m] \notin {"crashed", "reported"}
  <2> SUFFICES ASSUME alive[m] \in {"crashed", "reported"} PROVE alive'[m] \in {"crashed", "reported"}
    BY DEF Good
  <2>1. alive \in [Modules -> {"not yet", "up", "exited", "crashed", "reported"}]
    BY DEF Typed, ProcTyped
  <2>2. CASE \E g \in Managers : MgrSpawn(g)
    <3>1. PICK g \in Managers : MgrSpawn(g)
      BY <2>2
    <3>2. alive[Head(link[Source(g)]).module] = "not yet"
      BY <3>1, MgrSpawnSpawns DEF NotYet
    <3>3. alive' = alive \/ alive' = [alive EXCEPT ![Head(link[Source(g)]).module] = "up"]
      BY <3>1 DEF MgrSpawn
    <3> QED BY <2>1, <3>2, <3>3
  <2>3. CASE \E n \in Modules : Quit(n) \/ Crash(n) \/ CheckChildProcesses(n)
    BY <2>1, <2>3 DEF Quit, Crash, CheckChildProcesses
  <2>4. alive' = alive \/ (\E n \in Modules : Quit(n) \/ Crash(n) \/ CheckChildProcesses(n)) \/ \E g \in Managers : MgrSpawn(g)
    BY PartsLeave DEF Next, Manager
  <2> QED BY <2>2, <2>3, <2>4
<1>2. ASSUME NEW m \in killed PROVE m \in Modules /\ m \in killed' /\ joined'[m] = joined[m]
  <2>1. killed \subseteq Modules /\ joined \in [Modules -> 0..requested]
    BY DEF Typed, ScriptTyped
  <2>2. CASE \E n \in Modules : Spawn(n)
    BY <2>1, <2>2 DEF Spawn, StartedOnce, Unknown
  <2>3. CASE \E n \in Modules : Kill(n)
    BY <2>1, <2>3 DEF Kill
  <2>4. \/ killed' = killed /\ joined' = joined
        \/ \E n \in Modules : Spawn(n)
        \/ \E n \in Modules : Kill(n)
    BY PartsLeave DEF Next
  <2> QED BY <2>1, <2>2, <2>3, <2>4
<1>3. \A m \in Modules : m \in killed => joined[m] = 0
  BY <1>2 DEF Good
<1> QED BY <1>1, <1>3 DEF Good

-----------------------------------------------------------------------------
(* What a state is described by                                            *)

Atoms(m) ==
  /\ Spawns(m) \in Nat /\ ExitsF(m) \in Nat /\ ExitsU(m) \in Nat
  /\ AnswersF(m) \in Nat /\ AnswersU(m) \in Nat /\ Late(m) \in Nat
  /\ Asked(m) \in Nat /\ Answers(m) \in Nat /\ Exits(m) \in Nat /\ Early(m) \in Nat
  /\ \A b : Old(m, b) \in Nat
  /\ joined[m] \in 0..requested /\ Deferred(m) \in 0..requested /\ Last(m) \in 0..requested
  /\ ~(Unknown(m) /\ Tracked(m)) /\ ~(Unknown(m) /\ Gone(m)) /\ ~(Tracked(m) /\ Gone(m))
  /\ ~(NotYet(m) /\ IsUp(m)) /\ ~(NotYet(m) /\ Exited(m)) /\ ~(IsUp(m) /\ Exited(m))
  /\ ~(Running(m) /\ Broken(m))

(* The counts and numbers of a module have their types.                    *)
LEMMA AtomsTyped ==
  ASSUME Typed, NEW m \in Modules
  PROVE  Atoms(m) /\ requested \in Nat /\ HubOf[m] \in Hubs
<1>1. HubOf[m] \in Hubs
  BY Constants
<1>2. Spawns(m) \in Nat
  BY <1>1, SpawnsNat DEF Spawns
<1>3. ExitsF(m) \in Nat /\ ExitsU(m) \in Nat /\ AnswersF(m) \in Nat /\ AnswersU(m) \in Nat
  BY <1>1, QueuesTyped, CountNat DEF ExitsF, ExitsU, AnswersF, AnswersU
<1>4. Asked(m) \in Nat /\ Answers(m) \in Nat /\ Exits(m) \in Nat /\ \A b : Old(m, b) \in Nat
  BY QueuesTyped, CountNat DEF Asked, Answers, Exits, Old
<1>5. Late(m) \in Nat /\ Early(m) \in Nat
  BY <1>3, <1>4 DEF Late, Early, One
<1>6. /\ joined[m] \in 0..requested /\ Deferred(m) \in 0..requested /\ Last(m) \in 0..requested
      /\ requested \in Nat
  BY Constants, RequestedTyped DEF Typed, ScriptTyped, ProcTyped, Deferred, Last
<1>7. /\ ~(Unknown(m) /\ Tracked(m)) /\ ~(Unknown(m) /\ Gone(m)) /\ ~(Tracked(m) /\ Gone(m))
      /\ ~(NotYet(m) /\ IsUp(m)) /\ ~(NotYet(m) /\ Exited(m)) /\ ~(IsUp(m) /\ Exited(m))
      /\ ~(Running(m) /\ Broken(m))
  BY DEF Unknown, Tracked, Gone, NotYet, IsUp, Exited, Running, Broken
<1> QED BY <1>1, <1>2, <1>3, <1>4, <1>5, <1>6, <1>7 DEF Atoms

(* Managers know no more than their hubs, and these no more than the       *)
(* master hub, which knows of everything.                                  *)
Chain ==
  /\ requested \in Nat /\ (active[Master] => requested > 0)
  /\ HubAt(Master) = IF active[Master] THEN 2 * requested - 1 ELSE 2 * requested
  /\ \A h \in Hubs : /\ HubAt(h) \in Nat /\ MgrAt(h) \in Nat
                     /\ MgrAt(h) <= HubAt(h) /\ HubAt(h) <= HubAt(Master)

(* Who is further away from the master hub knows fewer events: manager,    *)
(* then hub, then master.                                                  *)
LEMMA ChainHolds ==
  ASSUME Typed, MasterRight, Ways
  PROVE  Chain
<1>1. requested \in Nat /\ (active[Master] => requested > 0)
  BY RequestedTyped, Constants DEF MasterRight, Typed, HubTyped
<1>2. HubAt(Master) = IF active[Master] THEN 2 * requested - 1 ELSE 2 * requested
  BY DEF HubAt, Number, MasterRight
<1>3. ASSUME NEW h \in Hubs
      PROVE  /\ HubAt(h) \in Nat /\ MgrAt(h) \in Nat
             /\ MgrAt(h) <= HubAt(h) /\ HubAt(h) <= HubAt(Master)
  <2>1. Brings(DownQ(h), HubAt(h), HubAt(Master), joined) /\ Brings(ToMgrQ(h), MgrAt(h), HubAt(h), joined)
    BY DEF Ways
  <2>2. DownQ(h) \in Seq(DownMsgs(requested)) /\ ToMgrQ(h) \in Seq(DownMsgs(requested))
    BY QueuesTyped
  <2>3. HubAt(h) \in Nat /\ HubAt(h) <= HubAt(Master)
    BY <2>1, <2>2, BringsBounds
  <2>4. MgrAt(h) \in Nat /\ MgrAt(h) <= HubAt(h)
    BY <2>1, <2>2, BringsBounds
  <2> QED BY <2>3, <2>4
<1> QED BY <1>1, <1>2, <1>3 DEF Chain

-----------------------------------------------------------------------------
(* What a step leaves as it is                                             *)

(* The queues between the module's manager and the master hub.             *)
QueuesKept(m) ==
  /\ Spawns(m)' = Spawns(m) /\ ExitsF(m)' = ExitsF(m) /\ ExitsU(m)' = ExitsU(m)
  /\ AnswersF(m)' = AnswersF(m) /\ AnswersU(m)' = AnswersU(m)
  /\ UpOrder(m) => UpOrder(m)'
(* The module's manager.                                                   *)
ManagerKept(m) ==
  /\ Running(m)' = Running(m) /\ Broken(m)' = Broken(m) /\ MgrOn(m)' = MgrOn(m)
  /\ HeldBack(m)' = HeldBack(m) /\ MgrAt(HubOf[m])' = MgrAt(HubOf[m])
(* The module's process.                                                   *)
StatusKept(m) == NotYet(m)' = NotYet(m) /\ IsUp(m)' = IsUp(m) /\ Exited(m)' = Exited(m)
OutKept(m) ==
  /\ Out(m)' = Out(m) /\ Answers(m)' = Answers(m) /\ Exits(m)' = Exits(m)
  /\ ExitLast(m)' = ExitLast(m) /\ \A b : Old(m, b)' = Old(m, b) /\ OldFirst(m, b)' = OldFirst(m, b)
InKept(m) == In(m)' = In(m) /\ Asked(m)' = Asked(m)
OwnKept(m) == Deferred(m)' = Deferred(m) /\ Last(m)' = Last(m)
ProcKept(m) == StatusKept(m) /\ OutKept(m) /\ InKept(m) /\ OwnKept(m)
(* What the master hub knows of the module, and of the barrier.            *)
TrackedKept(m) ==
  /\ Unknown(m)' = Unknown(m) /\ Tracked(m)' = Tracked(m) /\ Gone(m)' = Gone(m)
  /\ joined'[m] = joined[m] /\ (m \in killed => m \in killed')
BarrierKept(m) ==
  /\ requested' = requested /\ active'[Master] = active[Master] /\ HubAt(Master)' = HubAt(Master)
  /\ (m \in reached)' = (m \in reached)
  /\ HubAt(HubOf[m])' \in Int /\ HubAt(HubOf[m])' >= HubAt(HubOf[m])
HubKept(m) == TrackedKept(m) /\ BarrierKept(m)

(* Staged holds for a module of which nothing changes.                     *)
LEMMA StagedFrame ==
  ASSUME NEW m \in Modules, Staged(m), QueuesKept(m), ManagerKept(m), ProcKept(m), TrackedKept(m)
  PROVE  Staged(m)'
BY DEF Staged, QueuesKept, ManagerKept, ProcKept, StatusKept, OutKept, InKept, OwnKept, TrackedKept, One

(* So does Tokens.                                                         *)
LEMMA TokensFrame ==
  ASSUME NEW m \in Modules, Tokens(m), QueuesKept(m), ManagerKept(m), ProcKept(m), HubKept(m)
  PROVE  Tokens(m)'
<1>1. Waits(m)' = Waits(m) /\ Early(m)' = Early(m) /\ Late(m)' = Late(m)
  BY DEF Waits, Early, Late, QueuesKept, ProcKept, StatusKept, OutKept, InKept, OwnKept, One
<1>2. (m \in Expected \ reached)' = (m \in Expected \ reached)
  BY DEF Expected, HubKept, TrackedKept, BarrierKept
<1> QED BY <1>1, <1>2 DEF Tokens, ManagerKept, HubKept, BarrierKept, ProcKept, OwnKept

(* So does ExitOrder.                                                      *)
LEMMA ExitOrderFrame ==
  ASSUME NEW m \in Modules, ExitOrder(m), QueuesKept(m)
  PROVE  ExitOrder(m)'
BY DEF ExitOrder, QueuesKept

(* So does PastRight.                                                      *)
LEMMA PastRightFrame ==
  ASSUME Chain, NEW m \in Modules, PastRight(m), QueuesKept(m), ManagerKept(m), HubKept(m)
  PROVE  PastRight(m)'
<1>1. \A b : Passed(m, b)' = Passed(m, b)
  BY DEF Passed, Late, QueuesKept, HubKept, BarrierKept
<1>2. \A b : Answered(m, b)' = Answered(m, b)
  BY DEF Answered, ManagerKept
<1>3. HubAt(HubOf[m]) \in Int /\ HubAt(HubOf[m])' \in Int /\ HubAt(HubOf[m])' >= HubAt(HubOf[m])
  BY Constants DEF Chain, HubKept, BarrierKept
<1> QED BY <1>1, <1>2, <1>3 DEF PastRight, QueuesKept, ManagerKept, HubKept, TrackedKept, BarrierKept

(* So does Works.                                                          *)
LEMMA WorksFrame ==
  ASSUME NEW m \in Modules, Works(m), ManagerKept(m), OutKept(m), OwnKept(m), joined'[m] = joined[m],
         requested' = requested
  PROVE  Works(m)'
<1>1. \A b : Answered(m, b)' = Answered(m, b)
  BY DEF Answered, ManagerKept
<1> QED BY <1>1 DEF Works, ManagerKept, OutKept, OwnKept

Mod(m) == Staged(m) /\ Tokens(m) /\ ExitOrder(m) /\ PastRight(m) /\ Works(m)
Before == Typed /\ Typed' /\ Sound /\ Good /\ Good' /\ StartedOnce /\ StartedOnce' /\ Core

(* What is known before a step.                                            *)
LEMMA BeforeHas ==
  ASSUME Before
  PROVE  /\ Typed /\ OneRank /\ MasterRight /\ Kinds /\ Ways /\ Chain /\ requested \in Nat
         /\ \A m \in Modules : /\ Atoms(m) /\ Staged(m) /\ Tokens(m) /\ ExitOrder(m) /\ PastRight(m)
                               /\ Works(m) /\ Mod(m)
         /\ \A m \in Modules : HubOf[m] \in Hubs /\ (m \in killed => joined[m] = 0)
         /\ \A m \in Modules : NotYet(m) \/ IsUp(m) \/ Exited(m)
<1>1. Typed /\ MasterRight /\ Kinds /\ Ways /\ OneRank
  BY DEF Before, Core, Sound
<1>2. Chain /\ requested \in Nat
  BY <1>1, ChainHolds DEF Chain
<1>3. \A m \in Modules : Atoms(m) /\ HubOf[m] \in Hubs
  BY <1>1, AtomsTyped
<1>4. \A m \in Modules : Mod(m)
  BY DEF Mod, Before, Core
<1>5. \A m \in Modules : m \in killed => joined[m] = 0
  BY DEF Before, Good
<1>6. \A m \in Modules : NotYet(m) \/ IsUp(m) \/ Exited(m)
  BY <1>1 DEF Before, Good, Typed, ProcTyped, NotYet, IsUp, Exited
<1> QED BY <1>1, <1>2, <1>3, <1>4, <1>5, <1>6 DEF Mod

AllAtoms == \A m \in Modules : Atoms(m)
(* The counts of all modules have their types.                             *)
LEMMA AllAtomsTyped == Typed => AllAtoms
BY AtomsTyped DEF AllAtoms

(* Also after the step.                                                    *)
LEMMA AtomsThen ==
  ASSUME Before
  PROVE  \A m \in Modules : Atoms(m)'
<1>1. Typed' => AllAtoms'
  BY AllAtomsTyped, PTL
<1> QED BY <1>1 DEF Before, AllAtoms

(* The parts of the invariant that a step has to keep.                     *)
LEMMA CoreNext ==
  ASSUME MasterRight', Kinds', Ways', \A m \in Modules : Mod(m)'
  PROVE  Core'
<1>1. \A m \in Modules : Staged(m)' /\ Tokens(m)' /\ ExitOrder(m)' /\ PastRight(m)' /\ Works(m)'
  BY DEF Mod
<1> QED BY <1>1 DEF Core

(* For a step that leaves the hubs alone, their knowledge is as before.    *)
LEMMA HubUntouched ==
  ASSUME Chain, UNCHANGED <<active, uuid, tracked, reached, requested, joined>>, killed \subseteq killed'
  PROVE  /\ \A h \in Hubs : HubAt(h)' = HubAt(h)
         /\ \A m \in Modules : HubKept(m)
<1>1. \A h \in Hubs : HubAt(h)' = HubAt(h)
  BY DEF HubAt
<1>2. \A h \in Hubs : HubAt(h) \in Nat
  BY DEF Chain
<1>3. \A m \in Modules : HubOf[m] \in Hubs /\ Master \in Hubs
  BY Constants
<1>4. \A m \in Modules : TrackedKept(m)
  BY DEF TrackedKept, Unknown, Tracked, Gone
<1>5. \A m \in Modules : BarrierKept(m)
  BY <1>1, <1>2, <1>3 DEF BarrierKept
<1> QED BY <1>1, <1>4, <1>5 DEF HubKept

(* For a step that leaves the barrier of the master hub alone, MasterRight *)
(* holds as before.                                                        *)
LEMMA MasterUntouched ==
  ASSUME MasterRight, UNCHANGED <<participants, pending, requested>>, active'[Master] = active[Master],
         uuid'[Master] = uuid[Master], reached' = reached,
         \A m \in Modules : Tracked(m)' = Tracked(m) /\ joined'[m] = joined[m]
  PROVE  MasterRight'
<1>1. Expected' = Expected
  BY DEF Expected
<1> QED BY <1>1 DEF MasterRight

(* For a step that leaves the managers alone, their knowledge is as        *)
(* before.                                                                 *)
LEMMA ManagerUntouched ==
  ASSUME UNCHANGED manager
  PROVE  /\ \A h \in Hubs : MgrAt(h)' = MgrAt(h)
         /\ \A m \in Modules : ManagerKept(m)
<1>1. \A h : MgrAt(h)' = MgrAt(h)
  BY DEF MgrAt, manager
<1> QED BY <1>1 DEF ManagerKept, Running, Broken, MgrOn, HeldBack, manager

(* From queues to what is counted.                                         *)
LEMMA QueuesUntouched ==
  ASSUME NEW m \in Modules, Spawns(m)' = Spawns(m),
         FromMgrQ(HubOf[m])' = FromMgrQ(HubOf[m]), UpQ(HubOf[m])' = UpQ(HubOf[m])
  PROVE  QueuesKept(m)
BY DEF QueuesKept, ExitsF, ExitsU, AnswersF, AnswersU, UpOrder

(* Its starts are as before, if the ways down are.                         *)
LEMMA SpawnsUntouched ==
  ASSUME NEW m \in Modules, DownQ(HubOf[m])' = DownQ(HubOf[m]), ToMgrQ(HubOf[m])' = ToMgrQ(HubOf[m])
  PROVE  Spawns(m)' = Spawns(m)
BY DEF Spawns, SpawnsAt

(* The queues of all modules are as before, if the links are.              *)
LEMMA LinkUntouched ==
  ASSUME link' = link
  PROVE  /\ \A h \in Hubs : /\ DownQ(h)' = DownQ(h) /\ ToMgrQ(h)' = ToMgrQ(h)
                            /\ FromMgrQ(h)' = FromMgrQ(h) /\ UpQ(h)' = UpQ(h)
         /\ \A m \in Modules : QueuesKept(m)
<1>1. \A m \in Modules : HubOf[m] \in Hubs
  BY Constants
<1> QED BY <1>1, LinkSame, SpawnsUntouched, QueuesUntouched

(* The counts of what a process has sent are as before, if its messages    *)
(* are.                                                                    *)
LEMMA OutUntouched ==
  ASSUME NEW m \in Modules, Out(m)' = Out(m)
  PROVE  OutKept(m)
BY DEF OutKept, Answers, Exits, ExitLast, Old, OldFirst

(* So are those of what it is sent.                                        *)
LEMMA InUntouched ==
  ASSUME NEW m \in Modules, In(m)' = In(m)
  PROVE  InKept(m)
BY DEF InKept, Asked

(* The status of a module is as before.                                    *)
LEMMA StatusUntouched ==
  ASSUME NEW m \in Modules, alive'[m] = alive[m]
  PROVE  StatusKept(m)
BY DEF StatusKept, NotYet, IsUp, Exited

(* So is what its process has put off and answered.                        *)
LEMMA OwnUntouched ==
  ASSUME UNCHANGED <<delayed, answered>>
  PROVE  \A m \in Modules : OwnKept(m)
BY DEF OwnKept, Deferred, Last

(* Ways holds for a step that touches neither the queues down nor what is  *)
(* known.                                                                  *)
LEMMA WaysUntouched ==
  ASSUME Ways, joined' = joined,
         \A h \in Hubs : DownQ(h)' = DownQ(h) /\ ToMgrQ(h)' = ToMgrQ(h) /\ HubAt(h)' = HubAt(h)
                         /\ MgrAt(h)' = MgrAt(h)
  PROVE  Ways'
<1>1. Master \in Hubs
  BY Constants
<1> QED BY <1>1 DEF Ways

ModSame(m) == QueuesKept(m) /\ ManagerKept(m) /\ ProcKept(m) /\ HubKept(m)
(* All parts of the invariant about a module hold as before, if nothing of *)
(* it changes.                                                             *)
LEMMA ModFrame ==
  ASSUME Chain, NEW m \in Modules, Mod(m), ModSame(m)
  PROVE  Mod(m)'
<1>1. ProcKept(m) /\ OutKept(m) /\ OwnKept(m) /\ TrackedKept(m) /\ joined'[m] = joined[m] /\ requested' = requested
  BY DEF ModSame, ProcKept, HubKept, TrackedKept, BarrierKept
<1> QED BY <1>1, StagedFrame, TokensFrame, ExitOrderFrame, PastRightFrame, WorksFrame DEF Mod, ModSame

-----------------------------------------------------------------------------
(* Processes                                                               *)

(* What only the process of a module n does.                               *)
OnlyProcess(n) ==
  /\ UNCHANGED <<hub, manager, link, requested, pending, joined, killed>>
  /\ \A m \in Modules \ {n} : ProcKept(m)

(* A step of the process of n only has to keep what concerns n.            *)
LEMMA ProcessStep ==
  ASSUME Before, NEW n \in Modules, OnlyProcess(n), In(n)' \in Seq(InKind(n, requested, killed)),
         Out(n)' \in Seq(OutKind(n, requested)), Staged(n)', Tokens(n)', Works(n)'
  PROVE  Core'
<1>0. /\ UNCHANGED <<active, uuid, participants, reached, tracked, requested, pending, joined, killed, link>>
      /\ UNCHANGED manager /\ \A m \in Modules \ {n} : ProcKept(m)
  BY DEF OnlyProcess, hub
<1>1. /\ Typed /\ OneRank /\ MasterRight /\ Kinds /\ Ways /\ Chain
      /\ \A m \in Modules : Mod(m) /\ ExitOrder(m) /\ PastRight(m)
  BY BeforeHas
<1>2. /\ \A h \in Hubs : HubAt(h)' = HubAt(h)
      /\ \A m \in Modules : HubKept(m)
  BY <1>0, <1>1, HubUntouched
<1>3. /\ \A h \in Hubs : MgrAt(h)' = MgrAt(h)
      /\ \A m \in Modules : ManagerKept(m)
  BY <1>0, ManagerUntouched
<1>4. /\ \A h \in Hubs : /\ DownQ(h)' = DownQ(h) /\ ToMgrQ(h)' = ToMgrQ(h)
                         /\ FromMgrQ(h)' = FromMgrQ(h) /\ UpQ(h)' = UpQ(h)
      /\ \A m \in Modules : QueuesKept(m)
  BY <1>0, LinkUntouched
<1>5. MasterRight'
  BY <1>0, <1>1, <1>2, MasterUntouched DEF HubKept, TrackedKept
<1>6. Ways'
  BY <1>0, <1>1, <1>2, <1>3, <1>4, WaysUntouched
<1>7. Kinds'
  <2>1. \A m \in Modules : In(m)' \in Seq(InKind(m, requested, killed)) /\ Out(m)' \in Seq(OutKind(m, requested))
    <3>1. \A m \in Modules \ {n} : In(m)' = In(m) /\ Out(m)' = Out(m)
      BY <1>0 DEF ProcKept, InKept, OutKept
    <3> QED BY <1>1, <3>1 DEF Kinds
  <2> QED BY <1>0, <1>1, <1>4, <2>1 DEF Kinds
<1>8. ASSUME NEW m \in Modules
      PROVE  Mod(m)'
  <2>1. CASE m = n
    <3>1. ExitOrder(m)'
      BY <1>1, <1>4, ExitOrderFrame
    <3>2. PastRight(m)'
      BY <1>1, <1>2, <1>3, <1>4, PastRightFrame
    <3> QED BY <2>1, <3>1, <3>2 DEF Mod
  <2>2. CASE m # n
    <3>1. ModSame(m)
      BY <1>0, <1>2, <1>3, <1>4, <2>2 DEF ModSame
    <3> QED BY <1>1, <3>1, ModFrame
  <2> QED BY <2>1, <2>2
<1> QED BY <1>5, <1>6, <1>7, <1>8, CoreNext

(* A message of process <<n, 0>> is taken, or added.                       *)
LEMMA OutTail ==
  ASSUME Typed, NEW n \in Modules, Out(n) # <<>>, Out(n)' = Tail(Out(n)), Out(n) \in Seq(OutKind(n, requested))
  PROVE  /\ Head(Out(n)) \in OutKind(n, requested) /\ Out(n)' \in Seq(OutKind(n, requested))
         /\ Answers(n)' = Answers(n) - One(Head(Out(n)) \in ReachedBy(n))
         /\ Exits(n)' = Exits(n) - One(Head(Out(n)) \in ExitOf(n))
         /\ \A b : Old(n, b)' = Old(n, b) - One(Head(Out(n)) \in OldWork(b))
         /\ ExitLast(n) => ExitLast(n)' /\ (Head(Out(n)) \in ExitOf(n) => Count(Out(n)', AnyOf(n)) = 0)
         /\ \A b : OldFirst(n, b) => OldFirst(n, b)' /\ (Head(Out(n)) \in ReachedBy(n) => Old(n, b)' = 0)
<1>1. Head(Out(n)) \in OutKind(n, requested) /\ Out(n)' \in Seq(OutKind(n, requested))
  BY HeadTyped
<1>2. \A S : Count(Out(n)', S) = Count(Out(n), S) - One(Head(Out(n)) \in S)
  BY CountTail
<1>3. \A X, Y : NoneAfter(Out(n), X, Y) => /\ NoneAfter(Out(n)', X, Y)
                                           /\ Head(Out(n)) \in X => Count(Out(n)', Y) = 0
  BY NoneAfterTail
<1> QED BY <1>1, <1>2, <1>3 DEF Answers, Exits, Old, ExitLast, OldFirst

(* A process sends a message: the counts, and when the orders stay.        *)
LEMMA OutAppend ==
  ASSUME Typed, NEW n \in Modules, NEW x \in OutKind(n, requested), Out(n)' = Append(Out(n), x),
         Out(n) \in Seq(OutKind(n, requested))
  PROVE  /\ Out(n)' \in Seq(OutKind(n, requested)) /\ Out(n)' # <<>>
         /\ Answers(n)' = Answers(n) + One(x \in ReachedBy(n))
         /\ Exits(n)' = Exits(n) + One(x \in ExitOf(n))
         /\ \A b : Old(n, b)' = Old(n, b) + One(x \in OldWork(b))
         /\ Exits(n) = 0 => ExitLast(n)'
         /\ \A b : OldFirst(n, b) /\ (x \in OldWork(b) => Answers(n) = 0) => OldFirst(n, b)'
<1>1. Out(n)' \in Seq(OutKind(n, requested)) /\ Out(n)' # <<>>
  OBVIOUS
<1>2. \A S : Count(Out(n)', S) = Count(Out(n), S) + One(x \in S)
  BY CountAppend
<1>3. \A X, Y : NoneAfter(Out(n), X, Y) /\ (x \in Y => Count(Out(n), X) = 0) => NoneAfter(Out(n)', X, Y)
  BY NoneAfterAppend
<1>4. \A X, Y : Count(Out(n), X) = 0 => NoneAfter(Out(n), X, Y)
  BY NoneAfterNone
<1> QED BY <1>1, <1>2, <1>3, <1>4 DEF Answers, Exits, Old, ExitLast, OldFirst

(* A process takes a message.                                              *)
LEMMA InTail ==
  ASSUME Typed, NEW n \in Modules, In(n) # <<>>, In(n)' = Tail(In(n)), In(n) \in Seq(InKind(n, requested, killed))
  PROVE  /\ Head(In(n)) \in InKind(n, requested, killed) /\ In(n)' \in Seq(InKind(n, requested, killed))
         /\ Asked(n)' = Asked(n) - One(Head(In(n)) \in Barriers)
<1>1. Head(In(n)) \in InKind(n, requested, killed) /\ In(n)' \in Seq(InKind(n, requested, killed))
  BY HeadTyped
<1>2. \A S : Count(In(n)', S) = Count(In(n), S) - One(Head(In(n)) \in S)
  BY CountTail
<1> QED BY <1>1, <1>2 DEF Asked

(* Which message is which.                                                 *)
LEMMA Kinded ==
  ASSUME Typed, NEW n \in Modules
  PROVE  /\ \A x \in OutKind(n, requested) :
              /\ x.type \in {"BarrierReached", "ModuleExit", "Work"}
              /\ x.type = "BarrierReached" <=> x \in ReachedBy(n)
              /\ x.type = "BarrierReached" => x = Reached(requested, n)
              /\ x.type = "ModuleExit" <=> x \in ExitOf(n)
              /\ \A b : x \in OldWork(b) <=> x.type = "Work" /\ x.id \in 0..(b - 1)
              /\ x \in AnyOf(n)
         /\ \A x \in InKind(n, requested, killed) :
              /\ x.type = "Barrier" <=> x \in Barriers
              /\ x.type = "Barrier" => x.id = requested
              /\ x.type = "Kill" => n \in killed
         /\ Reached(requested, n) \in OutKind(n, requested) /\ Exit(n, FALSE) \in OutKind(n, requested)
         /\ \A b \in 0..requested : Work(b) \in OutKind(n, requested)
<1>1. requested \in Nat
  BY RequestedTyped
<1>2. ASSUME NEW x \in OutKind(n, requested)
      PROVE  /\ x.type \in {"BarrierReached", "ModuleExit", "Work"}
             /\ x.type = "BarrierReached" <=> x \in ReachedBy(n)
             /\ x.type = "BarrierReached" => x = Reached(requested, n)
             /\ x.type = "ModuleExit" <=> x \in ExitOf(n)
             /\ \A b : x \in OldWork(b) <=> x.type = "Work" /\ x.id \in 0..(b - 1)
             /\ x \in AnyOf(n)
  <2>1. CASE x = Reached(requested, n)
    BY <1>1, <2>1 DEF Reached, ReachedBy, ExitOf, Exit, OldWork, Work, AnyOf
  <2>2. CASE x = Exit(n, FALSE)
    BY <1>1, <2>2 DEF Reached, ReachedBy, ExitOf, Exit, OldWork, Work, AnyOf
  <2>3. CASE x \in {Work(c) : c \in 0..requested}
    BY <1>1, <2>3 DEF Reached, ReachedBy, ExitOf, Exit, OldWork, Work, AnyOf
  <2> QED BY <2>1, <2>2, <2>3 DEF OutKind
<1>3. ASSUME NEW x \in InKind(n, requested, killed)
      PROVE  /\ x.type = "Barrier" <=> x \in Barriers
             /\ x.type = "Barrier" => x.id = requested
             /\ x.type = "Kill" => n \in killed
  BY <1>1 DEF InKind, BarrierMsg, To, Barriers
<1>4. /\ Reached(requested, n) \in OutKind(n, requested) /\ Exit(n, FALSE) \in OutKind(n, requested)
      /\ \A b \in 0..requested : Work(b) \in OutKind(n, requested)
  BY DEF OutKind
<1> QED BY <1>2, <1>3, <1>4

(* With one rank, a step of process p changes the queues and memory of no  *)
(* other module.                                                           *)
LEMMA BoxChanged ==
  ASSUME Typed, OneRank, NEW p \in Procs
  PROVE  /\ p = <<p[1], 0>> /\ p[1] \in Modules /\ In(p[1]) = inbox[p] /\ Out(p[1]) = outbox[p]
         /\ Deferred(p[1]) = delayed[p] /\ Last(p[1]) = answered[p]
         /\ \A v : inbox' = [inbox EXCEPT ![p] = v] =>
              In(p[1])' = v /\ \A m \in Modules \ {p[1]} : InKept(m)
         /\ \A v : outbox' = [outbox EXCEPT ![p] = v] =>
              Out(p[1])' = v /\ \A m \in Modules \ {p[1]} : OutKept(m)
         /\ \A v : delayed' = [delayed EXCEPT ![p] = v] =>
              Deferred(p[1])' = v /\ \A m \in Modules \ {p[1]} : Deferred(m)' = Deferred(m)
         /\ \A v : answered' = [answered EXCEPT ![p] = v] =>
              Last(p[1])' = v /\ \A m \in Modules \ {p[1]} : Last(m)' = Last(m)
<1>1. p = <<p[1], 0>> /\ p[1] \in Modules
  BY OneManager
<1>2. \A m \in Modules : <<m, 0>> \in Procs /\ (m # p[1] => <<m, 0>> # p)
  BY <1>1, Constants
<1>3. /\ DOMAIN inbox = Procs /\ DOMAIN outbox = Procs /\ DOMAIN delayed = Procs /\ DOMAIN answered = Procs
  BY DEF Typed, BoxTyped, ProcTyped
<1>4. /\ In(p[1]) = inbox[p] /\ Out(p[1]) = outbox[p] /\ Deferred(p[1]) = delayed[p] /\ Last(p[1]) = answered[p]
  BY <1>1 DEF In, Out, Deferred, Last
<1>5. ASSUME NEW v, inbox' = [inbox EXCEPT ![p] = v]
      PROVE  In(p[1])' = v /\ \A m \in Modules \ {p[1]} : InKept(m)
  <2>1. In(p[1])' = v /\ \A m \in Modules \ {p[1]} : In(m)' = In(m)
    BY <1>1, <1>2, <1>3, <1>5 DEF In
  <2> QED BY <2>1, InUntouched
<1>6. ASSUME NEW v, outbox' = [outbox EXCEPT ![p] = v]
      PROVE  Out(p[1])' = v /\ \A m \in Modules \ {p[1]} : OutKept(m)
  <2>1. Out(p[1])' = v /\ \A m \in Modules \ {p[1]} : Out(m)' = Out(m)
    BY <1>1, <1>2, <1>3, <1>6 DEF Out
  <2> QED BY <2>1, OutUntouched
<1>7. ASSUME NEW v, delayed' = [delayed EXCEPT ![p] = v]
      PROVE  Deferred(p[1])' = v /\ \A m \in Modules \ {p[1]} : Deferred(m)' = Deferred(m)
  BY <1>1, <1>2, <1>3, <1>7 DEF Deferred
<1>8. ASSUME NEW v, answered' = [answered EXCEPT ![p] = v]
      PROVE  Last(p[1])' = v /\ \A m \in Modules \ {p[1]} : Last(m)' = Last(m)
  BY <1>1, <1>2, <1>3, <1>8 DEF Last
<1> QED BY <1>1, <1>4, <1>5, <1>6, <1>7, <1>8

(* No process is sent anything.                                            *)
LEMMA InSame ==
  ASSUME UNCHANGED inbox
  PROVE  \A m \in Modules : InKept(m) /\ In(m)' = In(m)
BY InUntouched DEF In

(* No process sends anything.                                              *)
LEMMA OutSame ==
  ASSUME UNCHANGED outbox
  PROVE  \A m \in Modules : OutKept(m) /\ Out(m)' = Out(m)
BY OutUntouched DEF Out

(* No process starts, exits or crashes.                                    *)
LEMMA StatusSame ==
  ASSUME UNCHANGED alive
  PROVE  \A m \in Modules : StatusKept(m)
BY StatusUntouched

(* What the answer of a process to the barrier does: it goes to the outbox *)
(* in place of the request.                                                *)
LEMMA AnswerIsRight ==
  ASSUME Before, NEW n \in Modules, OnlyProcess(n), IsUp(n), StatusKept(n), In(n)' \in Seq(InKind(n, requested, killed)),
         Out(n)' = Append(Out(n), Reached(requested, n)), Last(n)' = requested,
         Asked(n) + One(Waits(n)) = 1, Asked(n)' = 0, ~Waits(n)'
  PROVE  Core'
<1>1. /\ Typed /\ Atoms(n) /\ Staged(n) /\ Tokens(n) /\ Works(n) /\ Out(n) \in Seq(OutKind(n, requested)) /\ requested \in Nat
  BY BeforeHas DEF Kinds
<1> DEFINE x == Reached(requested, n)
<1>2. x \in OutKind(n, requested) /\ x \in ReachedBy(n) /\ x \notin ExitOf(n) /\ \A b : x \notin OldWork(b)
  <2>1. x.type = "BarrierReached"
    BY DEF Reached
  <2> QED BY <1>1, <2>1, Kinded
<1> HIDE DEF x
<1>3. /\ Out(n)' \in Seq(OutKind(n, requested)) /\ Out(n)' # <<>>
      /\ Answers(n)' = Answers(n) + One(x \in ReachedBy(n))
      /\ Exits(n)' = Exits(n) + One(x \in ExitOf(n))
      /\ \A b : Old(n, b)' = Old(n, b) + One(x \in OldWork(b))
      /\ Exits(n) = 0 => ExitLast(n)'
      /\ \A b : OldFirst(n, b) /\ (x \in OldWork(b) => Answers(n) = 0) => OldFirst(n, b)'
  BY <1>1, <1>2, OutAppend DEF x
<1>31. One(x \in ReachedBy(n)) = 1 /\ One(x \in ExitOf(n)) = 0 /\ \A b : One(x \in OldWork(b)) = 0
  BY <1>2 DEF One
<1>32. Exits(n) \in Nat /\ \A b : Old(n, b) \in Nat
  BY <1>1 DEF Atoms
<1>4. /\ Answers(n)' = Answers(n) + 1 /\ Exits(n)' = Exits(n) /\ \A b : Old(n, b)' = Old(n, b)
      /\ Exits(n) = 0 => ExitLast(n)'
      /\ \A b : OldFirst(n, b) => OldFirst(n, b)'
  BY ONLY <1>2, <1>3, <1>31, <1>32
<1>5. /\ UNCHANGED <<hub, link, manager, requested, joined, killed, active, tracked, reached, uuid>>
  BY DEF OnlyProcess, hub
<1>6. ManagerKept(n) /\ QueuesKept(n) /\ TrackedKept(n) /\ HubAt(Master)' = HubAt(Master) /\ (n \in Expected \ reached)' = (n \in Expected \ reached)
  <2>1. Chain
    BY BeforeHas
  <2>2. HubKept(n) /\ ManagerKept(n) /\ QueuesKept(n)
    BY <1>5, <2>1, HubUntouched, ManagerUntouched, LinkUntouched
  <2> QED BY <1>5, <2>2 DEF HubKept, TrackedKept, BarrierKept, Expected
<1>7. ~NotYet(n) /\ ~Exited(n) /\ ~NotYet(n)' /\ ~Exited(n)' /\ IsUp(n)' /\ Running(n) /\ Exits(n) = 0
  BY <1>1 DEF Atoms, Staged, StatusKept
<1>8. Staged(n)'
  BY <1>1, <1>4, <1>6, <1>7, <1>5 DEF Staged, ManagerKept, QueuesKept, TrackedKept
<1>9. Answers(n) = 0 /\ Late(n) = 0 /\ Answers(n)' = 1 /\ Early(n) = 1
  <2>1. One(Waits(n)) \in Nat
    BY DEF One
  <2>2. Answers(n) \in Nat /\ Late(n) \in Nat /\ Asked(n) \in Nat
    BY <1>1 DEF Atoms
  <2>3. Early(n) + Late(n) <= 1
    BY <1>1 DEF Tokens
  <2> QED BY <1>4, <2>1, <2>2, <2>3 DEF Early
<1>10. Tokens(n)'
  <2>1. Early(n)' = 1 /\ Late(n)' = 0 /\ ~Waits(n)'
    <3>1. One(Waits(n)') = 0
      BY DEF One
    <3> QED BY <1>6, <1>9, <3>1 DEF Early, Late, QueuesKept
  <2>2. active[Master] /\ (n \in Expected \ reached) /\ Running(n) /\ MgrAt(HubOf[n]) = HubAt(Master)
    BY <1>1, <1>9 DEF Tokens
  <2> QED BY <1>5, <1>6, <2>1, <2>2 DEF Tokens, ManagerKept
<1>11. Works(n)'
  <2>1. \A b : Answered(n, b)' = Answered(n, b)
    BY <1>6 DEF Answered, ManagerKept
  <2>2. \A b \in 1..requested : Last(n)' >= b
    BY <1>1
  <2> QED BY <1>1, <1>4, <1>5, <1>6, <2>1, <2>2 DEF Works, ManagerKept
<1> QED BY <1>3, <1>8, <1>10, <1>11, ProcessStep

(* Other modules than that of process p.                                   *)
LEMMA OnlyThisProcess ==
  ASSUME Typed, NEW n \in Modules, UNCHANGED <<hub, manager, link, script>>,
         \A m \in Modules \ {n} : InKept(m) /\ OutKept(m) /\ OwnKept(m) /\ StatusKept(m)
  PROVE  OnlyProcess(n)
BY DEF OnlyProcess, ProcKept, script

(* OnBarrier keeps the invariant: a process answers the barrier, or puts   *)
(* its answer off.                                                         *)
LEMMA OnBarrierRight ==
  ASSUME Before, NEW p \in Procs, OnBarrier(p)
  PROVE  Core'
<1>0. PICK n : n = p[1]
  OBVIOUS
<1>1. /\ n \in Modules /\ In(n) = inbox[p] /\ Out(n) = outbox[p] /\ Typed /\ p \in Procs
      /\ Deferred(n) = delayed[p] /\ Last(n) = answered[p]
  BY <1>0, BeforeHas, BoxChanged
<1>2. /\ Atoms(n) /\ Staged(n) /\ Tokens(n) /\ Works(n) /\ requested \in Nat
      /\ In(n) \in Seq(InKind(n, requested, killed)) /\ Out(n) \in Seq(OutKind(n, requested))
      /\ active[Master] => requested > 0
  BY <1>1, BeforeHas DEF Kinds, Chain
<1>3. /\ IsUp(n) /\ In(n) # <<>> /\ Head(In(n)).type = "Barrier"
      /\ UNCHANGED <<hub, manager, link, upstream, alive, script>>
  BY <1>0, <1>1 DEF OnBarrier, Receive, AtHead, IsUp
<1>4. In(n)' = Tail(In(n)) /\ \A m \in Modules \ {n} : InKept(m)
  <2>1. inbox' = [inbox EXCEPT ![p] = Tail(inbox[p])]
    BY DEF OnBarrier, Receive
  <2> QED BY <1>0, <1>1, <2>1, BeforeHas, BoxChanged
<1>5. /\ In(n)' \in Seq(InKind(n, requested, killed)) /\ Head(In(n)).id = requested
      /\ Asked(n)' = Asked(n) - One(Head(In(n)) \in Barriers) /\ Head(In(n)) \in Barriers
  BY <1>1, <1>2, <1>3, <1>4, InTail, Kinded
<1>6. Asked(n)' = Asked(n) - 1 /\ Asked(n) \in Nat /\ Asked(n)' \in Nat
  <2>1. Asked(n)' \in Nat
    BY <1>1, AtomsThen DEF Atoms
  <2> QED BY <1>2, <1>5, <2>1 DEF One, Atoms
<1>7. Asked(n) = 1 /\ ~Waits(n) /\ Answers(n) = 0 /\ Late(n) = 0 /\ Early(n) = 1
  <2>1. Answers(n) \in Nat /\ Late(n) \in Nat /\ Early(n) + Late(n) <= 1
    BY <1>2 DEF Atoms, Tokens
  <2>2. One(Waits(n)) \in Nat /\ (One(Waits(n)) = 0 => ~Waits(n))
    BY DEF One
  <2>3. Early(n) = Asked(n) + One(Waits(n)) + Answers(n)
    BY DEF Early
  <2> QED BY ONLY <1>6, <2>1, <2>2, <2>3
<1>8. \A m \in Modules : StatusKept(m)
  BY <1>3, StatusSame
<1>9. Respond(p, requested)
  BY <1>1, <1>5 DEF OnBarrier
<1>10. CASE upstream[p]
  <2>1. delayed' = [delayed EXCEPT ![p] = requested] /\ UNCHANGED <<outbox, answered>>
    BY <1>9, <1>10 DEF Respond
  <2>2. /\ Deferred(n)' = requested /\ \A m \in Modules \ {n} : Deferred(m)' = Deferred(m)
        /\ \A m \in Modules : OutKept(m) /\ Last(m)' = Last(m)
    BY <1>0, <1>1, <2>1, BeforeHas, BoxChanged, OutSame DEF Last
  <2>3. \A m \in Modules \ {n} : OwnKept(m)
    BY <2>2 DEF OwnKept
  <2>4. OnlyProcess(n)
    BY <1>1, <1>3, <1>4, <1>8, <2>2, <2>3, OnlyThisProcess
  <2>5. ManagerKept(n) /\ QueuesKept(n) /\ HubKept(n) /\ OutKept(n) /\ StatusKept(n)
    <3>1. Chain /\ UNCHANGED <<active, uuid, tracked, reached, requested, joined, killed, manager, link>>
      BY <1>3, BeforeHas DEF hub, script
    <3> QED BY <1>1, <1>8, <2>2, <3>1, HubUntouched, ManagerUntouched, LinkUntouched
  <2>6. IsUp(n)' /\ ~NotYet(n)' /\ ~Exited(n)' /\ ~NotYet(n) /\ ~Exited(n)
    BY <1>2, <1>3, <2>5 DEF StatusKept, Atoms
  <2>7. Staged(n)'
    BY <1>2, <1>3, <2>5, <2>6 DEF Staged, ManagerKept, QueuesKept, HubKept, TrackedKept, OutKept
  <2>8. Tokens(n)'
    <3>0. active[Master] /\ (n \in Expected \ reached) /\ Running(n) /\ MgrAt(HubOf[n]) = HubAt(Master) /\ requested > 0
      BY <1>2, <1>7 DEF Tokens
    <3>1. Waits(n)'
      BY <2>2, <2>6, <3>0 DEF Waits
    <3>2. One(Waits(n)') = 1
      BY <3>1 DEF One
    <3>3. Early(n)' = 1 /\ Late(n)' = 0
      BY <1>6, <1>7, <2>5, <3>2 DEF Early, Late, OutKept, QueuesKept
    <3>4. (n \in Expected \ reached)' = (n \in Expected \ reached)
      BY <1>3, <2>5 DEF HubKept, TrackedKept, BarrierKept, Expected
    <3> QED BY <2>2, <2>5, <3>0, <3>3, <3>4 DEF Tokens, ManagerKept, HubKept, BarrierKept
  <2>9. Works(n)'
    <3>1. Last(n)' = Last(n) /\ requested' = requested /\ joined' = joined
      BY <1>1, <1>3, <2>2 DEF script
    <3>2. Answers(n)' = 0 /\ (\A b : OldFirst(n, b)' = OldFirst(n, b) /\ Old(n, b)' = Old(n, b)) /\ Running(n)' = Running(n)
      BY <1>7, <2>5 DEF OutKept, ManagerKept
    <3>3. \A b : Answered(n, b)' = Answered(n, b)
      BY <2>5 DEF Answered, ManagerKept
    <3> QED BY <1>2, <3>1, <3>2, <3>3 DEF Works
  <2>10. Out(n)' \in Seq(OutKind(n, requested))
    BY <1>2, <2>5 DEF OutKept
  <2> QED BY <1>1, <1>5, <2>4, <2>7, <2>8, <2>9, <2>10, ProcessStep
<1>11. CASE ~upstream[p]
  <2>1. /\ delayed' = delayed /\ outbox' = [outbox EXCEPT ![p] = Append(@, Reached(requested, n))]
        /\ answered' = [answered EXCEPT ![p] = requested]
    BY <1>0, <1>9, <1>11 DEF Respond, Answer
  <2>2. outbox' = [outbox EXCEPT ![p] = Append(outbox[p], Reached(requested, n))]
    BY <2>1
  <2>3. /\ Out(n)' = Append(Out(n), Reached(requested, n)) /\ Last(n)' = requested
        /\ \A m \in Modules \ {n} : OutKept(m) /\ Last(m)' = Last(m)
        /\ \A m \in Modules : Deferred(m)' = Deferred(m)
    BY <1>0, <1>1, <2>1, <2>2, BeforeHas, BoxChanged DEF Deferred
  <2>4. \A m \in Modules \ {n} : OwnKept(m)
    BY <2>3 DEF OwnKept
  <2>5. OnlyProcess(n)
    BY <1>1, <1>3, <1>4, <1>8, <2>3, <2>4, OnlyThisProcess
  <2>6. ~Waits(n)'
    BY <1>1, <1>3, <1>7, <1>8, <2>3 DEF Waits, StatusKept
  <2>7. Asked(n) + One(Waits(n)) = 1 /\ Asked(n)' = 0
    BY <1>6, <1>7 DEF One
  <2> QED BY <1>1, <1>3, <1>5, <1>8, <2>3, <2>5, <2>6, <2>7, AnswerIsRight
<1> QED BY <1>10, <1>11

(* What is the same about module n when only its process changes.          *)
LEMMA KeptAround ==
  ASSUME Before, NEW n \in Modules, UNCHANGED <<hub, manager, link, script>>
  PROVE  /\ ManagerKept(n) /\ QueuesKept(n) /\ HubKept(n)
         /\ requested' = requested /\ joined' = joined /\ killed' = killed
         /\ (n \in Expected \ reached)' = (n \in Expected \ reached)
         /\ \A b : Answered(n, b)' = Answered(n, b)
<1>1. Chain /\ UNCHANGED <<active, uuid, tracked, reached, requested, joined, killed, manager, link>>
  BY BeforeHas DEF hub, script
<1>2. ManagerKept(n) /\ QueuesKept(n) /\ HubKept(n)
  BY <1>1, HubUntouched, ManagerUntouched, LinkUntouched
<1>3. (n \in Expected \ reached)' = (n \in Expected \ reached)
  BY <1>1, <1>2 DEF HubKept, TrackedKept, Expected
<1>4. \A b : Answered(n, b)' = Answered(n, b)
  BY <1>2 DEF Answered, ManagerKept
<1> QED BY <1>1, <1>2, <1>3, <1>4

(* OnUpstream keeps the invariant: a renderer learns that a module         *)
(* upstream executes.                                                      *)
LEMMA OnUpstreamRight ==
  ASSUME Before, NEW p \in Procs, OnUpstream(p)
  PROVE  Core'
<1>0. PICK n : n = p[1]
  OBVIOUS
<1>1. /\ n \in Modules /\ In(n) = inbox[p] /\ Typed
  BY <1>0, BeforeHas, BoxChanged
<1>2. /\ Atoms(n) /\ Staged(n) /\ Tokens(n) /\ Works(n) /\ requested \in Nat
      /\ In(n) \in Seq(InKind(n, requested, killed)) /\ Out(n) \in Seq(OutKind(n, requested))
  BY <1>1, BeforeHas DEF Kinds
<1>3. /\ IsUp(n) /\ In(n) # <<>> /\ Head(In(n)).type = "Upstream"
      /\ UNCHANGED <<hub, manager, link, outbox, delayed, answered, alive, script>>
  BY <1>0, <1>1 DEF OnUpstream, Receive, AtHead, IsUp
<1>4. In(n)' = Tail(In(n)) /\ \A m \in Modules \ {n} : InKept(m)
  <2>1. inbox' = [inbox EXCEPT ![p] = Tail(inbox[p])]
    BY DEF OnUpstream, Receive
  <2> QED BY <1>0, <1>1, <2>1, BeforeHas, BoxChanged
<1>5. /\ In(n)' \in Seq(InKind(n, requested, killed)) /\ Head(In(n)) \notin Barriers
      /\ Asked(n)' = Asked(n) - One(Head(In(n)) \in Barriers)
  BY <1>1, <1>2, <1>3, <1>4, InTail, Kinded
<1>6. Asked(n)' = Asked(n)
  BY <1>2, <1>5 DEF One, Atoms
<1>7. \A m \in Modules : StatusKept(m) /\ OutKept(m) /\ OwnKept(m) /\ Out(m)' = Out(m)
  BY <1>3, StatusSame, OutSame, OwnUntouched
<1>8. OnlyProcess(n)
  BY <1>1, <1>3, <1>4, <1>7, OnlyThisProcess
<1>9. /\ ManagerKept(n) /\ QueuesKept(n) /\ HubKept(n) /\ StatusKept(n) /\ OutKept(n) /\ OwnKept(n)
      /\ TrackedKept(n) /\ BarrierKept(n)
      /\ requested' = requested /\ joined' = joined
      /\ (n \in Expected \ reached)' = (n \in Expected \ reached)
  BY <1>1, <1>3, <1>7, KeptAround DEF HubKept
<1>10. ~NotYet(n) /\ ~Exited(n)
  BY <1>2, <1>3 DEF Atoms
<1>11. Staged(n)'
  BY <1>2, <1>9, <1>10 DEF Staged, ManagerKept, QueuesKept, TrackedKept, OutKept, StatusKept
<1>12. Tokens(n)'
  <2>1. Waits(n)' = Waits(n)
    BY <1>9 DEF Waits, StatusKept, OwnKept
  <2>2. Early(n)' = Early(n) /\ Late(n)' = Late(n)
    BY <1>6, <1>9, <2>1 DEF Early, Late, OutKept, QueuesKept
  <2> QED BY <1>2, <1>9, <2>1, <2>2 DEF Tokens, ManagerKept, BarrierKept, OwnKept
<1>13. Works(n)'
  BY <1>2, <1>9, WorksFrame, <1>1
<1>14. Out(n)' \in Seq(OutKind(n, requested))
  BY <1>1, <1>2, <1>7
<1> QED BY <1>1, <1>5, <1>8, <1>11, <1>12, <1>13, <1>14, ProcessStep

(* FinishExecution keeps the invariant: a renderer that has put off its    *)
(* answer gives it.                                                        *)
LEMMA FinishExecutionRight ==
  ASSUME Before, NEW p \in Procs, FinishExecution(p)
  PROVE  Core'
<1>0. PICK n : n = p[1]
  OBVIOUS
<1>1. /\ n \in Modules /\ In(n) = inbox[p] /\ Typed /\ Out(n) = outbox[p] /\ Deferred(n) = delayed[p]
  BY <1>0, BeforeHas, BoxChanged
<1>2. /\ Atoms(n) /\ Staged(n) /\ Tokens(n) /\ Works(n) /\ requested \in Nat
      /\ In(n) \in Seq(InKind(n, requested, killed)) /\ Out(n) \in Seq(OutKind(n, requested))
      /\ \A m \in Modules : Mod(m)
  BY <1>1, BeforeHas DEF Kinds
<1>3. /\ IsUp(n)
      /\ UNCHANGED <<hub, manager, link, inbox, alive, script>>
  BY <1>0, <1>1 DEF FinishExecution, IsUp
<1>4. \A m \in Modules : StatusKept(m) /\ InKept(m) /\ In(m)' = In(m)
  BY <1>3, StatusSame, InSame
<1>5. CASE delayed[p] = 0
  <2>1. UNCHANGED <<outbox, answered, delayed>>
    BY <1>5 DEF FinishExecution, RespondDelayed
  <2>2. \A m \in Modules : OutKept(m) /\ OwnKept(m) /\ Out(m)' = Out(m)
    BY <2>1, OutSame, OwnUntouched
  <2>3. \A m \in Modules : ModSame(m)
    BY <1>3, <1>4, <2>2, KeptAround DEF ModSame, ProcKept
  <2>4. Mod(n)'
    BY <1>1, <1>2, <2>3, ModFrame, BeforeHas
  <2>5. OnlyProcess(n)
    BY <1>1, <1>3, <1>4, <2>2, OnlyThisProcess
  <2>6. In(n)' \in Seq(InKind(n, requested, killed)) /\ Out(n)' \in Seq(OutKind(n, requested))
    BY <1>1, <1>2, <1>4, <2>2
  <2>7. Staged(n)' /\ Tokens(n)' /\ Works(n)'
    BY <2>4 DEF Mod
  <2> QED BY <1>1, <2>5, <2>6, <2>7, ProcessStep
<1>6. CASE delayed[p] # 0
  <2>1. Waits(n)
    BY <1>1, <1>3, <1>6 DEF Waits
  <2>2. Deferred(n) = requested /\ requested # 0
    BY <1>1, <1>2, <1>6, <2>1 DEF Tokens
  <2>3. /\ outbox' = [outbox EXCEPT ![p] = Append(@, Reached(requested, n))]
        /\ answered' = [answered EXCEPT ![p] = requested] /\ delayed' = [delayed EXCEPT ![p] = 0]
    BY <1>0, <1>1, <1>6, <2>2 DEF FinishExecution, RespondDelayed, Answer
  <2>4. outbox' = [outbox EXCEPT ![p] = Append(outbox[p], Reached(requested, n))]
    BY <2>3
  <2>5. /\ Out(n)' = Append(Out(n), Reached(requested, n)) /\ Last(n)' = requested /\ Deferred(n)' = 0
        /\ \A m \in Modules \ {n} : OutKept(m) /\ Last(m)' = Last(m) /\ Deferred(m)' = Deferred(m)
    BY <1>0, <1>1, <2>3, <2>4, BeforeHas, BoxChanged
  <2>6. \A m \in Modules \ {n} : OwnKept(m)
    BY <2>5 DEF OwnKept
  <2>7. OnlyProcess(n)
    BY <1>1, <1>3, <1>4, <2>5, <2>6, OnlyThisProcess
  <2>8. ~Waits(n)'
    BY <2>5 DEF Waits
  <2>9. Asked(n) + One(Waits(n)) = 1 /\ Asked(n)' = 0
    <3>1. One(Waits(n)) = 1
      BY <2>1 DEF One
    <3>2. Answers(n) \in Nat /\ Late(n) \in Nat /\ Early(n) + Late(n) <= 1 /\ Asked(n) \in Nat
      BY <1>2 DEF Atoms, Tokens
    <3>3. Early(n) = Asked(n) + One(Waits(n)) + Answers(n)
      BY DEF Early
    <3>4. Asked(n)' = Asked(n)
      BY <1>1, <1>4 DEF InKept
    <3> QED BY ONLY <3>1, <3>2, <3>3, <3>4
  <2>10. In(n)' \in Seq(InKind(n, requested, killed)) /\ StatusKept(n)
    BY <1>1, <1>2, <1>4
  <2> QED BY <1>1, <1>3, <2>5, <2>7, <2>8, <2>9, <2>10, AnswerIsRight
<1> QED BY <1>5, <1>6

(* SendWork keeps the invariant: what is sent after an answer carries its  *)
(* number.                                                                 *)
LEMMA SendWorkRight ==
  ASSUME Before, NEW p \in Procs, SendWork(p)
  PROVE  Core'
<1>0. PICK n : n = p[1]
  OBVIOUS
<1>1. /\ n \in Modules /\ Typed /\ Out(n) = outbox[p] /\ Last(n) = answered[p]
  BY <1>0, BeforeHas, BoxChanged
<1>2. /\ Atoms(n) /\ Staged(n) /\ Tokens(n) /\ Works(n) /\ requested \in Nat
      /\ In(n) \in Seq(InKind(n, requested, killed)) /\ Out(n) \in Seq(OutKind(n, requested))
  BY <1>1, BeforeHas DEF Kinds
<1>3. PICK x : x = Work(Last(n))
  OBVIOUS
<1>4. IsUp(n) /\ UNCHANGED <<hub, manager, link, inbox, upstream, delayed, answered, alive, script>>
  BY <1>0 DEF SendWork, IsUp, process
<1>5. Out(n)' = Append(Out(n), x) /\ \A m \in Modules \ {n} : OutKept(m)
  <2>1. outbox' = [outbox EXCEPT ![p] = Append(outbox[p], x)]
    BY <1>1, <1>3 DEF SendWork
  <2> QED BY <1>0, <1>1, <2>1, BeforeHas, BoxChanged
<1>6. x \in OutKind(n, requested) /\ x.type = "Work" /\ x.id = Last(n)
  <2>1. x \in OutKind(n, requested)
    BY <1>1, <1>2, <1>3, Kinded DEF Atoms
  <2> QED BY <1>3, <2>1 DEF Work
<1>7. /\ x \notin ReachedBy(n) /\ x \notin ExitOf(n)
      /\ \A b \in Nat : x \in OldWork(b) => Last(n) < b
  <2>1. x \notin ReachedBy(n) /\ x \notin ExitOf(n) /\ \A b : x \in OldWork(b) => Last(n) \in 0..(b - 1)
    BY <1>1, <1>6, Kinded
  <2>2. Last(n) \in Nat
    BY <1>2 DEF Atoms
  <2>3. \A b \in Nat : Last(n) \in 0..(b - 1) => Last(n) < b
    BY <2>2
  <2> QED BY <2>1, <2>3
<1>8. /\ Out(n)' \in Seq(OutKind(n, requested))
      /\ Answers(n)' = Answers(n) + One(x \in ReachedBy(n))
      /\ Exits(n)' = Exits(n) + One(x \in ExitOf(n))
      /\ \A b : Old(n, b)' = Old(n, b) + One(x \in OldWork(b))
      /\ Exits(n) = 0 => ExitLast(n)'
      /\ \A b : OldFirst(n, b) /\ (x \in OldWork(b) => Answers(n) = 0) => OldFirst(n, b)'
  BY <1>1, <1>2, <1>5, <1>6, OutAppend
<1>9. /\ Answers(n)' = Answers(n) /\ Exits(n)' = Exits(n)
      /\ \A b \in Nat : Last(n) >= b /\ Old(n, b) = 0 => Old(n, b)' = 0
  <2>1. One(x \in ReachedBy(n)) = 0 /\ One(x \in ExitOf(n)) = 0
    BY <1>7 DEF One
  <2>2. Answers(n) \in Nat /\ Exits(n) \in Nat /\ Last(n) \in Nat
    BY <1>2 DEF Atoms
  <2>3. ASSUME NEW b \in Nat, Last(n) >= b, Old(n, b) = 0
        PROVE  Old(n, b)' = 0
    <3>1. One(x \in OldWork(b)) = 0
      BY <1>7, <2>2, <2>3 DEF One
    <3>2. Old(n, b)' = Old(n, b) + One(x \in OldWork(b))
      BY <1>8
    <3> QED BY ONLY <2>3, <3>1, <3>2
  <2> QED BY <1>8, <2>1, <2>2, <2>3
<1>10. \A m \in Modules : StatusKept(m) /\ InKept(m) /\ OwnKept(m) /\ In(m)' = In(m)
  BY <1>4, StatusSame, InSame, OwnUntouched
<1>11. OnlyProcess(n)
  BY <1>1, <1>4, <1>5, <1>10, OnlyThisProcess
<1>12. /\ ManagerKept(n) /\ QueuesKept(n) /\ HubKept(n) /\ StatusKept(n) /\ InKept(n) /\ OwnKept(n)
       /\ TrackedKept(n) /\ BarrierKept(n)
       /\ requested' = requested /\ joined' = joined
       /\ (n \in Expected \ reached)' = (n \in Expected \ reached)
       /\ \A b : Answered(n, b)' = Answered(n, b)
  BY <1>1, <1>4, <1>10, KeptAround DEF HubKept
<1>13. ~NotYet(n) /\ ~Exited(n) /\ Exits(n) = 0
  BY <1>2, <1>4 DEF Atoms, Staged
<1>14. Staged(n)'
  BY <1>2, <1>8, <1>9, <1>12, <1>13 DEF Staged, ManagerKept, QueuesKept, TrackedKept, InKept, StatusKept
<1>15. Tokens(n)'
  <2>1. Waits(n)' = Waits(n)
    BY <1>12 DEF Waits, StatusKept, OwnKept
  <2>2. Early(n)' = Early(n) /\ Late(n)' = Late(n)
    BY <1>9, <1>12, <2>1 DEF Early, Late, InKept, QueuesKept
  <2> QED BY <1>2, <1>12, <2>1, <2>2 DEF Tokens, ManagerKept, BarrierKept, OwnKept
<1>16. Works(n)'
  <2>1. OldFirst(n, requested)'
    <3>1. x \in OldWork(requested) => Answers(n) = 0
      BY <1>2, <1>7 DEF Works, Atoms
    <3> QED BY <1>2, <1>8, <1>12, <3>1 DEF Works
  <2>2. Last(n)' = Last(n) /\ Answers(n)' = Answers(n) /\ Running(n)' = Running(n)
    BY <1>9, <1>12 DEF OwnKept, ManagerKept
  <2>3. ASSUME NEW b \in 1..requested, Running(n), joined[n] < b, Answered(n, b)
        PROVE  Last(n) >= b /\ Old(n, b)' = 0
    <3>1. Last(n) >= b /\ Old(n, b) = 0
      BY <1>2, <2>3 DEF Works
    <3> QED BY <1>2, <1>9, <3>1
  <2> QED BY <1>2, <1>12, <2>1, <2>2, <2>3 DEF Works
<1>17. In(n)' \in Seq(InKind(n, requested, killed))
  BY <1>1, <1>2, <1>10
<1> QED BY <1>1, <1>8, <1>11, <1>14, <1>15, <1>16, <1>17, ProcessStep

(* TakeWork keeps the invariant: the manager takes what is not held back.  *)
LEMMA TakeWorkRight ==
  ASSUME Before, NEW p \in Procs, TakeWork(p)
  PROVE  Core'
<1>0. PICK n : n = p[1]
  OBVIOUS
<1>1. /\ n \in Modules /\ Typed /\ Out(n) = outbox[p]
  BY <1>0, BeforeHas, BoxChanged
<1>2. /\ Atoms(n) /\ Staged(n) /\ Tokens(n) /\ Works(n) /\ requested \in Nat
      /\ In(n) \in Seq(InKind(n, requested, killed)) /\ Out(n) \in Seq(OutKind(n, requested))
  BY <1>1, BeforeHas DEF Kinds
<1>4. /\ Out(n) # <<>> /\ Head(Out(n)).type = "Work"
      /\ UNCHANGED <<hub, manager, link, inbox, upstream, delayed, answered, alive, script>>
  BY <1>0, <1>1 DEF TakeWork, Take, AtHead, process
<1>5. Out(n)' = Tail(Out(n)) /\ \A m \in Modules \ {n} : OutKept(m)
  <2>1. outbox' = [outbox EXCEPT ![p] = Tail(outbox[p])]
    BY DEF TakeWork, Take
  <2> QED BY <1>0, <1>1, <2>1, BeforeHas, BoxChanged
<1>6. PICK x : x = Head(Out(n))
  OBVIOUS
<1>7. /\ x \in OutKind(n, requested) /\ Out(n)' \in Seq(OutKind(n, requested))
      /\ Answers(n)' = Answers(n) - One(x \in ReachedBy(n))
      /\ Exits(n)' = Exits(n) - One(x \in ExitOf(n))
      /\ \A b : Old(n, b)' = Old(n, b) - One(x \in OldWork(b))
      /\ ExitLast(n) => ExitLast(n)'
      /\ \A b : OldFirst(n, b) => OldFirst(n, b)'
  BY <1>1, <1>2, <1>4, <1>5, <1>6, OutTail
<1>8. x \notin ReachedBy(n) /\ x \notin ExitOf(n)
  BY <1>1, <1>4, <1>6, <1>7, Kinded
<1>9. Answers(n)' = Answers(n) /\ Exits(n)' = Exits(n) /\ \A b : Old(n, b) = 0 => Old(n, b)' = 0
  <2>1. One(x \in ReachedBy(n)) = 0 /\ One(x \in ExitOf(n)) = 0
    BY <1>8 DEF One
  <2>2. Answers(n) \in Nat /\ Exits(n) \in Nat
    BY <1>2 DEF Atoms
  <2>3. ASSUME NEW b, Old(n, b) = 0 PROVE Old(n, b)' = 0
    <3>1. One(x \in OldWork(b)) \in Nat /\ Old(n, b)' = Old(n, b) - One(x \in OldWork(b))
      BY <1>7 DEF One
    <3>2. Old(n, b)' \in Nat
      BY <1>1, AtomsThen DEF Atoms
    <3> QED BY ONLY <2>3, <3>1, <3>2
  <2> QED BY <1>7, <2>1, <2>2, <2>3
<1>10. \A m \in Modules : StatusKept(m) /\ InKept(m) /\ OwnKept(m) /\ In(m)' = In(m)
  BY <1>4, StatusSame, InSame, OwnUntouched
<1>11. OnlyProcess(n)
  BY <1>1, <1>4, <1>5, <1>10, OnlyThisProcess
<1>12. /\ ManagerKept(n) /\ QueuesKept(n) /\ HubKept(n) /\ StatusKept(n) /\ InKept(n) /\ OwnKept(n)
       /\ TrackedKept(n) /\ BarrierKept(n)
       /\ requested' = requested /\ joined' = joined
       /\ (n \in Expected \ reached)' = (n \in Expected \ reached)
       /\ \A b : Answered(n, b)' = Answered(n, b)
  BY <1>1, <1>4, <1>10, KeptAround DEF HubKept
<1>13. Running(n) /\ ~NotYet(n)
  BY <1>2, <1>1, <1>4, BeforeHas DEF Staged
<1>14. Staged(n)'
  BY <1>2, <1>7, <1>9, <1>12, <1>13 DEF Staged, ManagerKept, QueuesKept, TrackedKept, InKept, StatusKept
<1>15. Tokens(n)'
  <2>1. Waits(n)' = Waits(n)
    BY <1>12 DEF Waits, StatusKept, OwnKept
  <2>2. Early(n)' = Early(n) /\ Late(n)' = Late(n)
    BY <1>9, <1>12, <2>1 DEF Early, Late, InKept, QueuesKept
  <2> QED BY <1>2, <1>12, <2>1, <2>2 DEF Tokens, ManagerKept, BarrierKept, OwnKept
<1>16. Works(n)'
  <2>2. Last(n)' = Last(n) /\ Running(n)' = Running(n)
    BY <1>12 DEF OwnKept, ManagerKept
  <2> QED BY <1>2, <1>7, <1>9, <1>12, <2>2 DEF Works
<1>17. In(n)' \in Seq(InKind(n, requested, killed))
  BY <1>1, <1>2, <1>10
<1> QED BY <1>1, <1>7, <1>11, <1>14, <1>15, <1>16, <1>17, ProcessStep

(* Quit keeps the invariant: a module that was asked to exit drops what it *)
(* was sent, its answer, too, and its exit stands for it.                  *)
LEMMA QuitRight ==
  ASSUME Before, NEW n \in Modules, Quit(n)
  PROVE  Core'
<1>1. Typed /\ OneRank /\ <<n, 0>> \in Procs /\ \A m \in Modules : <<m, 0>> \in Procs
  BY BeforeHas, Constants
<1>2. /\ Atoms(n) /\ Staged(n) /\ Tokens(n) /\ Works(n) /\ requested \in Nat
      /\ In(n) \in Seq(InKind(n, requested, killed)) /\ Out(n) \in Seq(OutKind(n, requested))
  BY <1>1, BeforeHas DEF Kinds
<1>3. In(n) # <<>> /\ Head(In(n)).type = "Kill"
  <2>1. 0 \in Ranks(HubOf[n])
    BY Constants
  <2> QED BY <2>1 DEF Quit, AtHead, In
<1>4. IsUp(n) /\ UNCHANGED <<hub, manager, link, upstream, delayed, answered, script>>
  BY DEF Quit, IsUp
<1>5. n \in killed
  BY <1>1, <1>2, <1>3, Kinded, HeadTyped
<1>6. In(n)' = <<>> /\ \A m \in Modules \ {n} : InKept(m)
  <2>1. In(n)' = <<>> /\ \A m \in Modules \ {n} : In(m)' = In(m)
    BY <1>1 DEF Quit, In
  <2> QED BY <2>1, InUntouched
<1>7. PICK x : x = Exit(n, FALSE)
  OBVIOUS
<1>8. Out(n)' = Append(Out(n), x) /\ \A m \in Modules \ {n} : OutKept(m)
  <2>1. outbox' = [outbox EXCEPT ![<<n, 0>>] = Append(outbox[<<n, 0>>], x)]
    BY <1>7 DEF Quit
  <2>2. <<n, 0>>[1] = n
    OBVIOUS
  <2> QED BY <1>1, <2>1, <2>2, BoxChanged
<1>9. /\ Exited(n)' /\ ~IsUp(n)' /\ ~NotYet(n)' /\ \A m \in Modules \ {n} : StatusKept(m)
  <2>1. DOMAIN alive = Modules /\ alive' = [alive EXCEPT ![n] = "exited"]
    BY <1>1 DEF Quit, Typed, ProcTyped
  <2>2. alive'[n] = "exited" /\ \A m \in Modules \ {n} : alive'[m] = alive[m]
    BY <2>1
  <2> QED BY <2>2, StatusUntouched DEF Exited, IsUp, NotYet
<1>10. x \in OutKind(n, requested) /\ x \notin ReachedBy(n) /\ x \in ExitOf(n) /\ \A b : x \notin OldWork(b)
  <2>1. x \in OutKind(n, requested) /\ x.type = "ModuleExit"
    BY <1>1, <1>7, Kinded DEF Exit
  <2> QED BY <1>1, <2>1, Kinded
<1>11. /\ Out(n)' \in Seq(OutKind(n, requested))
       /\ Answers(n)' = Answers(n) + One(x \in ReachedBy(n))
       /\ Exits(n)' = Exits(n) + One(x \in ExitOf(n))
       /\ \A b : Old(n, b)' = Old(n, b) + One(x \in OldWork(b))
       /\ Exits(n) = 0 => ExitLast(n)'
       /\ \A b : OldFirst(n, b) /\ (x \in OldWork(b) => Answers(n) = 0) => OldFirst(n, b)'
  BY <1>1, <1>2, <1>8, <1>10, OutAppend
<1>12. Running(n) /\ Exits(n) = 0
  BY <1>2, <1>4 DEF Staged
<1>13. /\ Answers(n)' = Answers(n) /\ Exits(n)' = 1 /\ \A b : Old(n, b)' = Old(n, b)
       /\ ExitLast(n)' /\ \A b : OldFirst(n, b) => OldFirst(n, b)'
  <2>1. One(x \in ReachedBy(n)) = 0 /\ One(x \in ExitOf(n)) = 1 /\ \A b : One(x \in OldWork(b)) = 0
    BY <1>10 DEF One
  <2>2. Answers(n) \in Nat /\ \A b : Old(n, b) \in Nat
    BY <1>2 DEF Atoms
  <2> QED BY ONLY <1>10, <1>11, <1>12, <2>1, <2>2
<1>14. \A m \in Modules : OwnKept(m)
  BY <1>4, OwnUntouched
<1>15. OnlyProcess(n)
  BY <1>1, <1>4, <1>6, <1>8, <1>9, <1>14, OnlyThisProcess
<1>16. /\ ManagerKept(n) /\ QueuesKept(n) /\ HubKept(n) /\ OwnKept(n)
       /\ TrackedKept(n) /\ BarrierKept(n)
       /\ requested' = requested /\ joined' = joined /\ killed' = killed
       /\ (n \in Expected \ reached)' = (n \in Expected \ reached)
       /\ \A b : Answered(n, b)' = Answered(n, b)
  BY <1>4, <1>14, KeptAround DEF HubKept
<1>17. Staged(n)'
  <2>1. One(Running(n)) = 1
    BY <1>12 DEF One
  <2> QED BY <1>2, <1>5, <1>6, <1>9, <1>12, <1>13, <1>16, <2>1 DEF Staged, ManagerKept, QueuesKept, TrackedKept
<1>18. Tokens(n)'
  <2>1. ~Waits(n)'
    BY <1>9 DEF Waits
  <2>2. Asked(n)' = 0
    BY <1>6, CountSingle DEF Asked
  <2>3. One(Waits(n)') = 0 /\ One(Waits(n)) \in Nat
    BY <2>1 DEF One
  <2>4. Early(n)' = Answers(n) /\ Late(n)' = Late(n)
    BY <1>2, <1>13, <1>16, <2>2, <2>3 DEF Early, Late, QueuesKept, Atoms
  <2>5. Early(n)' <= Early(n) /\ Early(n)' \in Nat /\ Early(n) \in Nat /\ Late(n) \in Nat
    BY <1>2, <2>3, <2>4 DEF Early, Atoms
  <2>6. Early(n) + Late(n) <= 1
    BY <1>2 DEF Tokens
  <2>7. /\ Early(n)' + Late(n)' <= 1
        /\ Early(n)' + Late(n)' = 1 => Early(n) + Late(n) = 1
        /\ Early(n)' = 1 => Early(n) = 1
    BY ONLY <2>4, <2>5, <2>6
  <2>8. Early(n)' + Late(n)' = 1 => active'[Master] /\ n \in (Expected \ reached)'
    BY <1>2, <1>16, <2>7 DEF Tokens, BarrierKept
  <2>9. Early(n)' = 1 => Running(n)' /\ MgrAt(HubOf[n])' = HubAt(Master)'
    BY <1>2, <1>16, <2>7 DEF Tokens, ManagerKept, BarrierKept
  <2> QED BY <2>1, <2>7, <2>8, <2>9 DEF Tokens
<1>19. Works(n)'
  <2>2. Last(n)' = Last(n) /\ Running(n)' = Running(n)
    BY <1>16 DEF OwnKept, ManagerKept
  <2> QED BY <1>2, <1>13, <1>16, <2>2 DEF Works
<1>20. In(n)' \in Seq(InKind(n, requested, killed))
  BY <1>6
<1> QED BY <1>11, <1>15, <1>17, <1>18, <1>19, <1>20, ProcessStep

-----------------------------------------------------------------------------
(* A manager takes from a process                                          *)

(* A message about module n is added to the queue from its manager.        *)
LEMMA FromGets ==
  ASSUME Typed, NEW n \in Modules, NEW x, x.type = "BarrierReached" => x \in ReachedBy(n),
         \A m \in Modules : x \in ReachedBy(m) \/ x \in ExitOf(m) => m = n,
         Deliver(Along(FromManager(HubOf[n]), <<x>>))
  PROVE  /\ \A m \in Modules \ {n} : QueuesKept(m)
         /\ Spawns(n)' = Spawns(n) /\ ExitsU(n)' = ExitsU(n) /\ AnswersU(n)' = AnswersU(n)
         /\ UpOrder(n)' = UpOrder(n)
         /\ ExitsF(n)' = ExitsF(n) + One(x \in ExitOf(n))
         /\ AnswersF(n)' = AnswersF(n) + One(x \in ReachedBy(n))
         /\ \A h \in Hubs :
              /\ DownQ(h)' = DownQ(h) /\ ToMgrQ(h)' = ToMgrQ(h) /\ UpQ(h)' = UpQ(h)
              /\ FromMgrQ(h)' = IF h = HubOf[n] THEN Append(FromMgrQ(h), x) ELSE FromMgrQ(h)
<1>1. \A m \in Modules : HubOf[m] \in Hubs
  BY Constants
<1>2. \A h \in Hubs :
        /\ DownQ(h)' = DownQ(h) /\ ToMgrQ(h)' = ToMgrQ(h) /\ UpQ(h)' = UpQ(h)
        /\ FromMgrQ(h)' = IF h = HubOf[n] THEN Append(FromMgrQ(h), x) ELSE FromMgrQ(h)
  BY <1>1, HubGets
<1>3. \A h \in Hubs : FromMgrQ(h) \in Seq(UpMsgs(requested))
  BY QueuesTyped
<1>4. PICK q : q = FromMgrQ(HubOf[n])
  OBVIOUS
<1>40. PICK s : s = Append(q, x)
  OBVIOUS
<1>41. \A S : Count(s, S) = Count(q, S) + One(x \in S)
  BY <1>1, <1>3, <1>4, <1>40, CountAppend
<1>5. \A m \in Modules : Spawns(m)' = Spawns(m)
  BY <1>1, <1>2, SpawnsUntouched
<1>6. \A m \in Modules : /\ ExitsU(m)' = ExitsU(m) /\ AnswersU(m)' = AnswersU(m) /\ UpOrder(m)' = UpOrder(m)
  BY <1>1, <1>2 DEF ExitsU, AnswersU, UpOrder
<1>7. ASSUME NEW m \in Modules
      PROVE  /\ HubOf[m] = HubOf[n] => /\ ExitsF(m)' = ExitsF(m) + One(x \in ExitOf(m))
                                       /\ AnswersF(m)' = AnswersF(m) + One(x \in ReachedBy(m))
             /\ HubOf[m] # HubOf[n] => ExitsF(m)' = ExitsF(m) /\ AnswersF(m)' = AnswersF(m)
  <2>1. HubOf[m] = HubOf[n] => FromMgrQ(HubOf[m])' = s /\ FromMgrQ(HubOf[m]) = q
    BY <1>1, <1>2, <1>4, <1>40
  <2>2. HubOf[m] # HubOf[n] => FromMgrQ(HubOf[m])' = FromMgrQ(HubOf[m])
    BY <1>1, <1>2
  <2> QED BY <1>41, <2>1, <2>2 DEF ExitsF, AnswersF
<1>8. ASSUME NEW m \in Modules, m # n
      PROVE  ExitsF(m)' = ExitsF(m) /\ AnswersF(m)' = AnswersF(m)
  <2>1. One(x \in ExitOf(m)) = 0 /\ One(x \in ReachedBy(m)) = 0
    BY <1>8 DEF One
  <2>2. ExitsF(m) \in Nat /\ AnswersF(m) \in Nat
    BY AtomsTyped DEF Atoms
  <2> QED BY <1>7, <2>1, <2>2
<1> QED BY <1>2, <1>5, <1>6, <1>7, <1>8 DEF QueuesKept

(* A sequence with one message more.                                       *)
LEMMA SeqAppended ==
  \A X, q, x : q \in Seq(X) /\ x \in X => Append(q, x) \in Seq(X)
OBVIOUS

(* An answer and an exit are about one module.                             *)
LEMMA AboutOne ==
  ASSUME NEW n \in Modules, NEW b \in Nat
  PROVE  /\ Reached(b, n) \in ReachedBy(n) /\ Reached(b, n) \notin ExitOf(n)
         /\ Exit(n, FALSE) \in ExitOf(n) /\ Exit(n, FALSE) \notin ReachedBy(n)
         /\ \A m : /\ Reached(b, n) \in ReachedBy(m) => m = n
                   /\ Reached(b, n) \notin ExitOf(m) /\ Exit(n, FALSE) \notin ReachedBy(m)
                   /\ Exit(n, FALSE) \in ExitOf(m) => m = n
BY DEF Reached, Exit, ReachedBy, ExitOf

(* The same as for a process, when its manager changes with it.            *)
OnlyBelow(n) ==
  /\ UNCHANGED <<hub, mgrActive, mgrUuid, alive, inbox, delayed, answered, script>>
  /\ \A m \in Modules \ {n} : ManagerKept(m) /\ QueuesKept(m) /\ OutKept(m)
  /\ \A h \in Hubs : DownQ(h)' = DownQ(h) /\ ToMgrQ(h)' = ToMgrQ(h) /\ UpQ(h)' = UpQ(h)

(* A step of the manager for the process of n, upwards, only has to keep   *)
(* what concerns n.                                                        *)
LEMMA BelowStep ==
  ASSUME Before, NEW n \in Modules, OnlyBelow(n), Out(n)' \in Seq(OutKind(n, requested)),
         \A h \in Hubs : FromMgrQ(h)' \in Seq(UpKind(h, requested)), Mod(n)'
  PROVE  Core'
<1>0. /\ UNCHANGED <<active, uuid, participants, reached, tracked, requested, pending, joined, killed>>
      /\ UNCHANGED <<alive, inbox, delayed, answered>>
      /\ \A m \in Modules \ {n} : ManagerKept(m) /\ QueuesKept(m) /\ OutKept(m)
      /\ \A h \in Hubs : DownQ(h)' = DownQ(h) /\ ToMgrQ(h)' = ToMgrQ(h) /\ UpQ(h)' = UpQ(h)
  BY DEF OnlyBelow, hub, script
<1>1. /\ Typed /\ OneRank /\ MasterRight /\ Kinds /\ Ways /\ Chain
      /\ \A m \in Modules : Mod(m)
  BY BeforeHas
<1>2. /\ \A h \in Hubs : HubAt(h)' = HubAt(h)
      /\ \A m \in Modules : HubKept(m)
  BY <1>0, <1>1, HubUntouched
<1>3. \A h \in Hubs : MgrAt(h)' = MgrAt(h)
  BY DEF OnlyBelow, MgrAt
<1>5. MasterRight'
  BY <1>0, <1>1, <1>2, MasterUntouched DEF HubKept, TrackedKept
<1>6. Ways'
  BY <1>0, <1>1, <1>2, <1>3, WaysUntouched
<1>7. Kinds'
  <2>1. \A m \in Modules : In(m)' \in Seq(InKind(m, requested, killed)) /\ Out(m)' \in Seq(OutKind(m, requested))
    <3>1. \A m \in Modules \ {n} : Out(m)' = Out(m)
      BY <1>0 DEF OutKept
    <3>2. \A m \in Modules : In(m)' = In(m)
      BY <1>0, InSame
    <3> QED BY <1>1, <3>1, <3>2 DEF Kinds
  <2> QED BY <1>0, <1>1, <2>1 DEF Kinds
<1>8. ASSUME NEW m \in Modules
      PROVE  Mod(m)'
  <2>1. CASE m # n
    <3>1. InKept(m) /\ StatusKept(m) /\ OwnKept(m)
      BY <1>0, InSame, StatusSame, OwnUntouched
    <3>2. ModSame(m)
      BY <1>0, <1>2, <2>1, <3>1 DEF ModSame, ProcKept
    <3> QED BY <1>1, <3>2, ModFrame
  <2> QED BY <2>1
<1> QED BY <1>5, <1>6, <1>7, <1>8, CoreNext

(* TakeBarrierReached keeps the invariant: the manager passes the answer   *)
(* on and holds the module back from now on.                               *)
LEMMA TakeBarrierReachedRight ==
  ASSUME Before, NEW p \in Procs, TakeBarrierReached(p)
  PROVE  Core'
<1>0. PICK n : n = p[1]
  OBVIOUS
<1>1. /\ n \in Modules /\ Typed /\ OneRank /\ Out(n) = outbox[p] /\ ManagerOf(p) = <<HubOf[n], 0>>
      /\ HubOf[n] \in Hubs /\ <<HubOf[n], 0>> \in Managers /\ p = <<n, 0>>
  BY <1>0, BeforeHas, BoxChanged, OneManager, Constants
<1>2. /\ Atoms(n) /\ Staged(n) /\ Tokens(n) /\ ExitOrder(n) /\ PastRight(n) /\ Works(n) /\ requested \in Nat
      /\ Out(n) \in Seq(OutKind(n, requested)) /\ Chain
      /\ \A h \in Hubs : FromMgrQ(h) \in Seq(UpKind(h, requested))
  BY <1>1, BeforeHas DEF Kinds
<1>3. PICK g : g = <<HubOf[n], 0>>
  OBVIOUS
<1>4. /\ Out(n) # <<>> /\ Head(Out(n)).type = "BarrierReached" /\ ~HeldBack(n)
      /\ outbox' = [outbox EXCEPT ![p] = Tail(outbox[p])]
      /\ UNCHANGED <<hub, mgrActive, mgrUuid, runningMap, inbox, upstream, delayed, answered, alive, script>>
  BY <1>0, <1>1 DEF TakeBarrierReached, Take, AtHead, process, Held, HeldBack
<1>5. Out(n)' = Tail(Out(n)) /\ \A m \in Modules \ {n} : OutKept(m)
  BY <1>0, <1>1, <1>4, BoxChanged
<1>6. PICK x : x = Head(Out(n))
  OBVIOUS
<1>7. /\ x \in OutKind(n, requested) /\ Out(n)' \in Seq(OutKind(n, requested))
      /\ Answers(n)' = Answers(n) - One(x \in ReachedBy(n))
      /\ Exits(n)' = Exits(n) - One(x \in ExitOf(n))
      /\ \A b : Old(n, b)' = Old(n, b) - One(x \in OldWork(b))
      /\ ExitLast(n) => ExitLast(n)'
      /\ \A b : OldFirst(n, b) => OldFirst(n, b)' /\ (x \in ReachedBy(n) => Old(n, b)' = 0)
  BY <1>1, <1>2, <1>4, <1>5, <1>6, OutTail
<1>8. /\ x \in ReachedBy(n) /\ x \notin ExitOf(n) /\ (\A b : x \notin OldWork(b))
      /\ x = Reached(requested, n)
  BY <1>1, <1>4, <1>6, <1>7, Kinded
<1>9. /\ Answers(n)' = Answers(n) - 1 /\ Exits(n)' = Exits(n) /\ \A b : Old(n, b)' = Old(n, b)
      /\ Answers(n) \in Nat /\ Answers(n)' \in Nat
  <2>1. One(x \in ReachedBy(n)) = 1 /\ One(x \in ExitOf(n)) = 0 /\ \A b : One(x \in OldWork(b)) = 0
    BY <1>8 DEF One
  <2>2. Answers(n) \in Nat /\ Exits(n) \in Nat /\ (\A b : Old(n, b) \in Nat) /\ Answers(n)' \in Nat
    BY <1>1, <1>2, AtomsThen DEF Atoms
  <2> QED BY ONLY <1>7, <2>1, <2>2
<1>10. /\ Answers(n) = 1 /\ Answers(n)' = 0 /\ Asked(n) = 0 /\ ~Waits(n) /\ Late(n) = 0
       /\ Early(n) = 1
  <2>1. Late(n) \in Nat /\ Early(n) + Late(n) <= 1 /\ Asked(n) \in Nat
    BY <1>2 DEF Atoms, Tokens
  <2>2. One(Waits(n)) \in Nat /\ (One(Waits(n)) = 0 => ~Waits(n))
    BY DEF One
  <2>3. Early(n) = Asked(n) + One(Waits(n)) + Answers(n)
    BY DEF Early
  <2> QED BY ONLY <1>9, <2>1, <2>2, <2>3
<1>11. /\ active[Master] /\ n \in Expected \ reached /\ Running(n) /\ MgrAt(HubOf[n]) = HubAt(Master)
       /\ MgrAt(HubOf[n]) = 2 * requested - 1 /\ requested > 0
  BY <1>2, <1>10 DEF Tokens, Chain
<1>12. mgrActive[g] /\ mgrUuid[g] = requested
  <2>1. MgrAt(HubOf[n]) = Number(mgrActive[g], mgrUuid[g])
    BY <1>3 DEF MgrAt
  <2>2. mgrUuid[g] \in Nat /\ mgrActive[g] \in BOOLEAN
    BY <1>1, <1>2, <1>3 DEF Typed, ManagerTyped
  <2> QED BY <1>2, <1>11, <2>1, <2>2 DEF Number
<1>13. mgrReached' = [mgrReached EXCEPT ![g] = @ \cup {n}] /\ Deliver(ToHub(g, x))
  <2>1. Head(outbox[p]).id = requested /\ ManagerOf(p) = g
    BY <1>1, <1>3, <1>6, <1>8 DEF Reached
  <2>2. requested = mgrUuid[g]
    BY <1>12
  <2>3. mgrReached' = [mgrReached EXCEPT ![g] = @ \cup {p[1]}] /\ Deliver(ToHub(g, Reached(requested, p[1])))
    BY <2>1, <2>2 DEF TakeBarrierReached
  <2> QED BY <1>0, <1>8, <2>3
<1>14. Deliver(Along(FromManager(HubOf[n]), <<x>>))
  <2>1. g \in Managers /\ g[1] = HubOf[n]
    BY <1>1, <1>3
  <2> QED BY <1>1, <1>13, <2>1, OneManager
<1>15. /\ \A m \in Modules \ {n} : QueuesKept(m)
       /\ Spawns(n)' = Spawns(n) /\ ExitsU(n)' = ExitsU(n) /\ AnswersU(n)' = AnswersU(n)
       /\ UpOrder(n)' = UpOrder(n)
       /\ ExitsF(n)' = ExitsF(n) + One(x \in ExitOf(n))
       /\ AnswersF(n)' = AnswersF(n) + One(x \in ReachedBy(n))
       /\ \A h \in Hubs :
            /\ DownQ(h)' = DownQ(h) /\ ToMgrQ(h)' = ToMgrQ(h) /\ UpQ(h)' = UpQ(h)
            /\ FromMgrQ(h)' = IF h = HubOf[n] THEN Append(FromMgrQ(h), x) ELSE FromMgrQ(h)
  <2>1. \A m \in Modules : x \in ReachedBy(m) \/ x \in ExitOf(m) => m = n
    BY <1>1, <1>2, <1>8, AboutOne
  <2> QED BY <1>1, <1>8, <1>14, <2>1, FromGets
<1>16. ExitsF(n)' = ExitsF(n) /\ AnswersF(n)' = AnswersF(n) + 1 /\ Late(n)' = 1
  <2>1. One(x \in ReachedBy(n)) = 1 /\ One(x \in ExitOf(n)) = 0
    BY <1>8 DEF One
  <2>2. ExitsF(n) \in Nat /\ AnswersF(n) \in Nat /\ AnswersU(n) \in Nat
    BY <1>2 DEF Atoms
  <2> QED BY <1>10, <1>15, <2>1, <2>2 DEF Late
<1>17. /\ HeldBack(n)' /\ Running(n)' = Running(n) /\ Broken(n)' = Broken(n) /\ MgrOn(n)' = MgrOn(n) /\ MgrOn(n)
       /\ MgrAt(HubOf[n])' = MgrAt(HubOf[n]) /\ \A m \in Modules \ {n} : ManagerKept(m)
  <2>1. \A m \in Modules : /\ Running(m)' = Running(m) /\ Broken(m)' = Broken(m) /\ MgrOn(m)' = MgrOn(m)
                           /\ MgrAt(HubOf[m])' = MgrAt(HubOf[m])
    BY <1>4 DEF Running, Broken, MgrOn, MgrAt
  <2>2. MgrOn(n)
    BY <1>3, <1>12 DEF MgrOn
  <2>3. DOMAIN mgrReached = Managers
    BY <1>1 DEF Typed, ManagerTyped
  <2>4. HeldBack(n)' /\ \A m \in Modules \ {n} : HeldBack(m)' = HeldBack(m)
    BY <1>1, <1>3, <1>13, <2>3, Constants DEF HeldBack
  <2> QED BY <1>1, <2>1, <2>2, <2>4 DEF ManagerKept
<1>18. OnlyBelow(n)
  BY <1>4, <1>5, <1>15, <1>17 DEF OnlyBelow
<1>19. InKept(n) /\ StatusKept(n) /\ OwnKept(n) /\ HubKept(n) /\ TrackedKept(n) /\ BarrierKept(n)
  <2>1. UNCHANGED <<active, uuid, tracked, reached, requested, joined, killed>>
    BY <1>4 DEF hub, script
  <2> QED BY <1>1, <1>2, <1>4, <2>1, InSame, StatusSame, OwnUntouched, HubUntouched DEF HubKept
<1>20. Spawns(n) = 0 /\ ExitsF(n) = 0 /\ ExitsU(n) = 0 /\ Tracked(n) /\ ~NotYet(n)
  <2>1. One(Running(n)) = 1 /\ (One(Tracked(n)) = 0 \/ (One(Tracked(n)) = 1 /\ Tracked(n)))
    BY <1>11 DEF One
  <2>2. Spawns(n) + One(Running(n)) + ExitsF(n) + ExitsU(n) = One(Tracked(n)) /\ ~NotYet(n)
    BY <1>2, <1>11 DEF Staged
  <2>3. Spawns(n) \in Nat /\ ExitsF(n) \in Nat /\ ExitsU(n) \in Nat
    BY <1>2 DEF Atoms
  <2> QED BY ONLY <2>1, <2>2, <2>3
<1>21. Staged(n)'
  BY <1>2, <1>4, <1>7, <1>9, <1>11, <1>15, <1>16, <1>17, <1>19, <1>20 DEF Staged, TrackedKept, InKept, StatusKept, OwnKept
<1>22. Tokens(n)'
  <2>1. Waits(n)' = Waits(n)
    BY <1>19 DEF Waits, StatusKept, OwnKept
  <2>2. One(Waits(n)') = 0
    BY <1>10, <2>1 DEF One
  <2>3. Early(n)' = 0
    BY <1>10, <1>19, <2>2 DEF Early, InKept
  <2>4. (n \in Expected \ reached)'
    BY <1>11, <1>1, <1>19 DEF Expected, TrackedKept, BarrierKept
  <2> QED BY <1>10, <1>11, <1>16, <1>19, <2>1, <2>3, <2>4 DEF Tokens, BarrierKept
<1>23. ExitOrder(n)'
  BY <1>2, <1>15, <1>20 DEF ExitOrder
<1>24. PastRight(n)'
  <2>1. \A b : Answered(n, b) => Answered(n, b)'
    BY <1>17 DEF Answered
  <2>2. \A b : Passed(n, b)' => Passed(n, b) \/ b = requested
    BY <1>19 DEF Passed, BarrierKept
  <2>3. ASSUME NEW b, b = requested PROVE Answered(n, b)'
    BY <1>2, <1>11, <1>17, <2>3 DEF Answered
  <2>4. /\ Tracked(n)' = Tracked(n) /\ joined'[n] = joined[n] /\ Spawns(n)' = 0 /\ ExitsF(n)' = 0
        /\ requested' = requested /\ Running(n)
    BY <1>11, <1>15, <1>16, <1>19, <1>20 DEF TrackedKept, BarrierKept
  <2> QED BY <1>2, <2>1, <2>2, <2>3, <2>4 DEF PastRight
<1>25. Works(n)'
  <2>1. \A b \in Int : Answered(n, b)' => Answered(n, b) \/ b = requested
    <3>1. \A b \in Int : 2 * requested - 1 + 1 = 2 * b => b = requested
      BY <1>2
    <3> QED BY <1>2, <1>11, <1>17 DEF Answered
  <2>2. Last(n)' = Last(n) /\ requested' = requested /\ joined'[n] = joined[n] /\ Running(n)' = Running(n)
    BY <1>17, <1>19 DEF OwnKept, TrackedKept, BarrierKept
  <2>3. Last(n) = requested
    BY <1>2, <1>10 DEF Works
  <2>4. \A b \in 1..requested : requested >= b
    BY <1>2
  <2>5. (\A b : Old(n, b)' = Old(n, b)) /\ Old(n, requested) = 0
    BY <1>2, <1>7, <1>8, <1>9 DEF Works
  <2>6. Answers(n)' = 0 /\ OldFirst(n, requested)'
    BY <1>2, <1>7, <1>10, <2>2 DEF Works
  <2>7. ASSUME NEW b \in 1..requested, Running(n), joined[n] < b, Answered(n, b)'
        PROVE  Last(n)' >= b /\ Old(n, b)' = 0
    <3>1. Answered(n, b) \/ b = requested
      BY <1>2, <2>1, <2>7
    <3>2. Answered(n, b) => Old(n, b) = 0
      BY <1>2, <2>7 DEF Works
    <3> QED BY <2>2, <2>3, <2>4, <2>5, <3>1, <3>2
  <2> QED BY <2>2, <2>3, <2>6, <2>7 DEF Works
<1>26. \A h \in Hubs : FromMgrQ(h)' \in Seq(UpKind(h, requested))
  <2>1. x \in UpKind(HubOf[n], requested)
    BY <1>1, <1>8 DEF UpKind, At
  <2> QED BY <1>1, <1>2, <1>15, <2>1, SeqAppended
<1>27. Mod(n)'
  BY <1>21, <1>22, <1>23, <1>24, <1>25 DEF Mod
<1> QED BY <1>1, <1>7, <1>18, <1>26, <1>27, BelowStep

(* A sequence of messages that all count, and of which none is counted, is *)
(* empty.                                                                  *)
LEMMA NothingLeft ==
  ASSUME NEW X, NEW q \in Seq(X), NEW Y, X \subseteq Y, Count(q, Y) = 0
  PROVE  q = <<>>
<1>1. \A i \in 1..Len(q) : q[i] \notin Y
  BY CountNat
<1>2. \A i \in 1..Len(q) : q[i] \in X
  OBVIOUS
<1>3. Len(q) = 0
  BY <1>1, <1>2
<1> QED BY <1>3

(* TakeModuleExit keeps the invariant: the exit of a module that is not    *)
(* held back is passed on, behind its answer.                              *)
LEMMA TakeModuleExitRight ==
  ASSUME Before, NEW p \in Procs, TakeModuleExit(p)
  PROVE  Core'
<1>0. PICK n : n = p[1]
  OBVIOUS
<1>1. /\ n \in Modules /\ Typed /\ OneRank /\ Out(n) = outbox[p] /\ ManagerOf(p) = <<HubOf[n], 0>>
      /\ HubOf[n] \in Hubs /\ <<HubOf[n], 0>> \in Managers /\ p = <<n, 0>>
  BY <1>0, BeforeHas, BoxChanged, OneManager, Constants
<1>2. /\ Atoms(n) /\ Staged(n) /\ Tokens(n) /\ ExitOrder(n) /\ PastRight(n) /\ Works(n) /\ requested \in Nat
      /\ Out(n) \in Seq(OutKind(n, requested)) /\ Chain /\ (NotYet(n) \/ IsUp(n) \/ Exited(n))
      /\ \A h \in Hubs : FromMgrQ(h) \in Seq(UpKind(h, requested))
  BY <1>1, BeforeHas DEF Kinds
<1>3. PICK g : g = <<HubOf[n], 0>>
  OBVIOUS
<1>4. /\ Out(n) # <<>> /\ Head(Out(n)).type = "ModuleExit" /\ ~HeldBack(n)
      /\ outbox' = [outbox EXCEPT ![p] = Tail(outbox[p])]
      /\ UNCHANGED <<hub, inbox, upstream, delayed, answered, alive, script>>
  BY <1>0, <1>1 DEF TakeModuleExit, Take, AtHead, process, Held, HeldBack
<1>5. Out(n)' = Tail(Out(n)) /\ \A m \in Modules \ {n} : OutKept(m)
  BY <1>0, <1>1, <1>4, BoxChanged
<1>6. PICK x : x = Head(Out(n))
  OBVIOUS
<1>7. /\ x \in OutKind(n, requested) /\ Out(n)' \in Seq(OutKind(n, requested))
      /\ Exits(n)' = Exits(n) - One(x \in ExitOf(n))
      /\ ExitLast(n) => ExitLast(n)' /\ (x \in ExitOf(n) => Count(Out(n)', AnyOf(n)) = 0)
      /\ \A b : OldFirst(n, b) => OldFirst(n, b)'
      /\ Answers(n)' = Answers(n) - One(x \in ReachedBy(n))
  BY <1>1, <1>2, <1>4, <1>5, <1>6, OutTail
<1>8. x \notin ReachedBy(n) /\ x \in ExitOf(n) /\ x = Exit(n, FALSE)
  <2>1. x \in OutKind(n, requested) /\ x.type = "ModuleExit"
    BY <1>4, <1>6, <1>7
  <2>2. x \in ExitOf(n) /\ x \notin ReachedBy(n)
    BY <1>1, <2>1, Kinded
  <2> QED BY <2>2, OfTypes
<1>9. Out(n)' = <<>> /\ Answers(n)' = 0 /\ Exits(n)' = 0 /\ Answers(n) = 0 /\ Exits(n) = 1
  <2>1. Out(n)' = <<>>
    <3>1. Count(Out(n)', AnyOf(n)) = 0
      BY <1>2, <1>7, <1>8 DEF Staged
    <3>2. OutKind(n, requested) \subseteq AnyOf(n)
      BY <1>1, Kinded
    <3> QED BY <1>7, <3>1, <3>2, NothingLeft
  <2>2. Answers(n)' = 0 /\ Exits(n)' = 0
    BY <2>1, CountSingle DEF Answers, Exits
  <2>3. One(x \in ReachedBy(n)) = 0 /\ One(x \in ExitOf(n)) = 1
    BY <1>8 DEF One
  <2>4. Answers(n) \in Nat /\ Exits(n) \in Nat
    BY <1>2 DEF Atoms
  <2> QED BY <1>7, <2>1, <2>2, <2>3, <2>4
<1>10. Running(n) /\ Exited(n)
  BY <1>2, <1>4, <1>9 DEF Staged, Atoms
<1>11. runningMap[g][n] # "unknown"
  BY <1>3, <1>10 DEF Running
<1>12. /\ mgrReached' = Release(g, n) /\ runningMap' = Removed(g, n, FALSE) /\ mgrActive' = mgrActive /\ mgrUuid' = mgrUuid
       /\ Deliver(Both(ToHub(g, Exit(n, FALSE)), Ranked(g, <<Forwarded(n, FALSE)>>)))
  <2>1. ManagerOf(p) = g
    BY <1>1, <1>3
  <2> QED BY <1>0, <1>11, <2>1 DEF TakeModuleExit
<1>13. Deliver(Along(FromManager(HubOf[n]), <<x>>))
  <2>1. g \in Managers /\ g[1] = HubOf[n]
    BY <1>1, <1>3
  <2>2. Both(ToHub(g, Exit(n, FALSE)), Ranked(g, <<Forwarded(n, FALSE)>>)) = Along(FromManager(g[1]), <<Exit(n, FALSE)>>)
    BY <1>1, <2>1, OneManager
  <2>3. Deliver(Along(FromManager(g[1]), <<Exit(n, FALSE)>>))
    BY <1>12, <2>2
  <2> QED BY <1>8, <2>1, <2>3
<1>14. /\ \A m \in Modules \ {n} : QueuesKept(m)
       /\ Spawns(n)' = Spawns(n) /\ ExitsU(n)' = ExitsU(n) /\ AnswersU(n)' = AnswersU(n)
       /\ UpOrder(n)' = UpOrder(n)
       /\ ExitsF(n)' = ExitsF(n) + One(x \in ExitOf(n))
       /\ AnswersF(n)' = AnswersF(n) + One(x \in ReachedBy(n))
       /\ \A h \in Hubs :
            /\ DownQ(h)' = DownQ(h) /\ ToMgrQ(h)' = ToMgrQ(h) /\ UpQ(h)' = UpQ(h)
            /\ FromMgrQ(h)' = IF h = HubOf[n] THEN Append(FromMgrQ(h), x) ELSE FromMgrQ(h)
  <2>1. \A m \in Modules : x \in ReachedBy(m) \/ x \in ExitOf(m) => m = n
    BY <1>1, <1>2, <1>8, AboutOne
  <2>2. x.type # "BarrierReached"
    BY <1>4, <1>6
  <2> QED BY <1>1, <1>8, <1>13, <2>1, <2>2, FromGets
<1>15. ExitsF(n)' = ExitsF(n) + 1 /\ AnswersF(n)' = AnswersF(n) /\ Late(n)' = Late(n)
  <2>1. One(x \in ReachedBy(n)) = 0 /\ One(x \in ExitOf(n)) = 1
    BY <1>8 DEF One
  <2>2. ExitsF(n) \in Nat /\ AnswersF(n) \in Nat /\ AnswersU(n) \in Nat
    BY <1>2 DEF Atoms
  <2> QED BY <1>14, <2>1, <2>2 DEF Late
<1>16. /\ ~HeldBack(n)' /\ ~Running(n)' /\ ~Broken(n)' /\ \A m \in Modules \ {n} : ManagerKept(m)
       /\ MgrAt(HubOf[n])' = MgrAt(HubOf[n])
  <2>1. \A m \in Modules : MgrOn(m)' = MgrOn(m) /\ MgrAt(HubOf[m])' = MgrAt(HubOf[m])
    BY <1>12 DEF MgrOn, MgrAt
  <2>2. DOMAIN mgrReached = Managers /\ runningMap \in [Managers -> [Modules -> {"unknown", "running", "crashed"}]]
    BY <1>1 DEF Typed, ManagerTyped
  <2>3. \A m \in Modules : <<HubOf[m], 0>> \in Managers
    BY Constants
  <2>4. ~HeldBack(n)' /\ \A m \in Modules \ {n} : HeldBack(m)' = HeldBack(m)
    <3>1. mgrReached' = [mgrReached EXCEPT ![g] = @ \ {n}]
      BY <1>1, <1>3, <1>12 DEF Release, Local
    <3> QED BY <1>1, <1>3, <2>2, <2>3, <3>1 DEF HeldBack
  <2>5. \A m \in Modules : runningMap'[<<HubOf[m], 0>>][m] = IF m = n THEN "unknown" ELSE runningMap[<<HubOf[m], 0>>][m]
    <3>1. runningMap' = [runningMap EXCEPT ![g][n] = "unknown"]
      BY <1>12 DEF Removed
    <3> QED BY <1>1, <1>3, <2>2, <2>3, <3>1
  <2>6. \A m \in Modules \ {n} : Running(m)' = Running(m) /\ Broken(m)' = Broken(m)
    BY <2>5 DEF Running, Broken
  <2>7. ~Running(n)' /\ ~Broken(n)'
    BY <1>1, <2>5 DEF Running, Broken
  <2> QED BY <1>1, <2>1, <2>4, <2>6, <2>7 DEF ManagerKept
<1>17. OnlyBelow(n)
  BY <1>4, <1>5, <1>12, <1>14, <1>16 DEF OnlyBelow
<1>18. InKept(n) /\ StatusKept(n) /\ OwnKept(n) /\ HubKept(n) /\ TrackedKept(n) /\ BarrierKept(n)
  <2>1. UNCHANGED <<active, uuid, tracked, reached, requested, joined, killed>>
    BY <1>4 DEF hub, script
  <2> QED BY <1>1, <1>2, <1>4, <2>1, InSame, StatusSame, OwnUntouched, HubUntouched DEF HubKept
<1>19. Spawns(n) = 0 /\ ExitsF(n) = 0 /\ ExitsU(n) = 0 /\ Tracked(n) /\ One(Tracked(n)) = 1
  <2>1. One(Running(n)) = 1 /\ (One(Tracked(n)) = 0 \/ (One(Tracked(n)) = 1 /\ Tracked(n)))
    BY <1>10 DEF One
  <2>2. Spawns(n) + One(Running(n)) + ExitsF(n) + ExitsU(n) = One(Tracked(n))
    BY <1>2 DEF Staged
  <2>3. Spawns(n) \in Nat /\ ExitsF(n) \in Nat /\ ExitsU(n) \in Nat
    BY <1>2 DEF Atoms
  <2> QED BY ONLY <2>1, <2>2, <2>3
<1>20. Staged(n)'
  <2>1. One(Running(n)') = 0 /\ One(Tracked(n)') = 1
    BY <1>16, <1>18, <1>19 DEF One, TrackedKept
  <2>2. Exited(n)' /\ ~NotYet(n)' /\ ~IsUp(n)'
    BY <1>2, <1>10, <1>18 DEF StatusKept, Atoms
  <2>3. Spawns(n)' = 0 /\ ExitsF(n)' = 1 /\ ExitsU(n)' = 0 /\ Exits(n)' = 0
    BY <1>9, <1>14, <1>15, <1>19
  <2>4. Spawns(n)' + One(Running(n)') + ExitsF(n)' + ExitsU(n)' = One(Tracked(n)')
    BY <2>1, <2>3
  <2>5. (n \in killed)' /\ In(n)' = <<>> /\ Tracked(n)' /\ ExitLast(n)' /\ Exits(n)' = One(Running(n)')
    BY <1>2, <1>7, <1>10, <1>18, <1>19, <2>1, <2>3 DEF Staged, TrackedKept, InKept
  <2> QED BY ONLY <1>9, <1>16, <2>2, <2>4, <2>5 DEF Staged
<1>21. Tokens(n)'
  <2>1. ~Waits(n)' /\ ~Waits(n)
    BY <1>2, <1>10, <1>18 DEF Waits, StatusKept, Atoms
  <2>2. One(Waits(n)') = 0 /\ One(Waits(n)) = 0
    BY <2>1 DEF One
  <2>3. Asked(n) = 0
    BY <1>2, <1>10, CountSingle DEF Asked, Staged
  <2>4. Early(n)' = 0 /\ Early(n) = 0
    BY <1>9, <1>18, <2>2, <2>3 DEF Early, InKept
  <2>5. (n \in Expected \ reached)' = (n \in Expected \ reached)
    BY <1>1, <1>18 DEF Expected, TrackedKept, BarrierKept
  <2> QED BY <1>2, <1>15, <1>18, <2>1, <2>4, <2>5 DEF Tokens, BarrierKept
<1>22. ExitOrder(n)'
  BY <1>2, <1>14, <1>15 DEF ExitOrder
<1>23. PastRight(n)'
  <2>1. \A b : Passed(n, b)' = Passed(n, b)
    BY <1>15, <1>18 DEF Passed, BarrierKept
  <2>2. \A b : Answered(n, b) => 2 * b <= MgrAt(HubOf[n])
    BY <1>4 DEF Answered
  <2>3. \A b \in Nat : 2 * b <= MgrAt(HubOf[n]) => 2 * b <= HubAt(HubOf[n])'
    <3>1. MgrAt(HubOf[n]) \in Nat /\ HubAt(HubOf[n]) \in Nat /\ MgrAt(HubOf[n]) <= HubAt(HubOf[n])
      BY <1>1, <1>2 DEF Chain
    <3>2. HubAt(HubOf[n])' \in Int /\ HubAt(HubOf[n])' >= HubAt(HubOf[n])
      BY <1>18 DEF BarrierKept
    <3> QED BY ONLY <3>1, <3>2
  <2>4. /\ Tracked(n)' = Tracked(n) /\ joined'[n] = joined[n] /\ Spawns(n)' = 0
        /\ requested' = requested
    BY <1>14, <1>18, <1>19 DEF TrackedKept, BarrierKept
  <2> QED BY <1>2, <1>10, <1>16, <2>1, <2>2, <2>3, <2>4 DEF PastRight
<1>24. Works(n)'
  BY <1>2, <1>7, <1>9, <1>16, <1>18 DEF Works, BarrierKept
<1>25. \A h \in Hubs : FromMgrQ(h)' \in Seq(UpKind(h, requested))
  <2>1. x \in UpKind(HubOf[n], requested)
    BY <1>1, <1>8 DEF UpKind, At
  <2> QED BY <1>1, <1>2, <1>14, <2>1, SeqAppended
<1>26. Mod(n)'
  BY <1>20, <1>21, <1>22, <1>23, <1>24 DEF Mod
<1> QED BY <1>1, <1>7, <1>17, <1>25, <1>26, BelowStep

-----------------------------------------------------------------------------
(* A manager takes from its hub                                            *)

(* Barriers and releases come in turn.                                     *)
LEMMA NextEvent ==
  ASSUME NEW r \in Nat, NEW q \in Seq(DownMsgs(r)), q # <<>>, NEW told \in BOOLEAN, NEW u \in Nat,
         NEW k \in Nat, NEW J, Brings(q, Number(told, u), k, J)
  PROVE  /\ Head(q).type = "Barrier" =>
              /\ Head(q).id \in 1..r /\ ~told /\ Number(told, u) = 2 * Head(q).id - 2
              /\ Brings(Tail(q), 2 * Head(q).id - 1, k, J) /\ 2 * Head(q).id - 1 <= k
         /\ Head(q).type = "BarrierReached" =>
              /\ Head(q).id \in 1..r /\ told /\ u = Head(q).id /\ Number(told, u) = 2 * Head(q).id - 1
              /\ Brings(Tail(q), 2 * Head(q).id, k, J) /\ 2 * Head(q).id <= k
         /\ Head(q).type \notin {"Barrier", "BarrierReached"} =>
              /\ Brings(Tail(q), Number(told, u), k, J)
              /\ Head(q).type = "Spawn" => 2 * J[Head(q).module] <= Number(told, u) + 1
<1>1. Head(q) \in DownMsgs(r) /\ Tail(q) \in Seq(DownMsgs(r))
  BY HeadTyped
<1>2. Head(q).type \in {"Barrier", "BarrierReached"} => Head(q).id \in 1..r
  BY <1>1, DownMsgRead
<1>3. PICK n : n = Number(told, u)
  OBVIOUS
<1>4. /\ IsEvent(Head(q)) => Event(Head(q)) = n + 1 /\ Brings(Tail(q), n + 1, k, J)
      /\ ~IsEvent(Head(q)) => Brings(Tail(q), n, k, J)
      /\ Head(q).type = "Spawn" => 2 * J[Head(q).module] <= n + 1
  BY <1>3, BringsTail
<1>5. told => n = 2 * u - 1
  BY <1>3 DEF Number
<1>6. ~told => n = 2 * u
  BY <1>3 DEF Number
<1>7. ASSUME Head(q).type = "Barrier"
      PROVE  /\ Head(q).id \in 1..r /\ ~told /\ n = 2 * Head(q).id - 2
             /\ Brings(Tail(q), 2 * Head(q).id - 1, k, J) /\ 2 * Head(q).id - 1 <= k
  <2>1. Head(q).id \in 1..r
    BY <1>2, <1>7
  <2>2. 2 * Head(q).id - 1 = n + 1 /\ Brings(Tail(q), n + 1, k, J)
    BY <1>4, <1>7 DEF IsEvent, Event, Number
  <2>3. ~told /\ n = 2 * Head(q).id - 2
    BY <1>5, <1>6, <2>1, <2>2
  <2>4. Brings(Tail(q), 2 * Head(q).id - 1, k, J)
    BY <2>2
  <2> QED BY <1>1, <2>1, <2>3, <2>4, BringsBounds
<1>8. ASSUME Head(q).type = "BarrierReached"
      PROVE  /\ Head(q).id \in 1..r /\ told /\ u = Head(q).id /\ n = 2 * Head(q).id - 1
             /\ Brings(Tail(q), 2 * Head(q).id, k, J) /\ 2 * Head(q).id <= k
  <2>1. Head(q).id \in 1..r
    BY <1>2, <1>8
  <2>2. 2 * Head(q).id = n + 1 /\ Brings(Tail(q), n + 1, k, J)
    BY <1>4, <1>8 DEF IsEvent, Event, Number
  <2>3. told /\ n = 2 * Head(q).id - 1 /\ u = Head(q).id
    BY <1>5, <1>6, <2>1, <2>2
  <2>4. Brings(Tail(q), 2 * Head(q).id, k, J)
    BY <2>2
  <2> QED BY <1>1, <2>1, <2>3, <2>4, BringsBounds
<1>9. Head(q).type \notin {"Barrier", "BarrierReached"} =>
        /\ Brings(Tail(q), n, k, J)
        /\ Head(q).type = "Spawn" => 2 * J[Head(q).module] <= n + 1
  BY <1>4 DEF IsEvent
<1> QED BY <1>3, <1>7, <1>8, <1>9

(* The same of the queue to a manager.                                     *)
LEMMA NextForManager ==
  ASSUME Before, NEW k \in Hubs, ToMgrQ(k) # <<>>, NEW x, x = Head(ToMgrQ(k))
  PROVE  /\ x \in DownKind(requested, killed)
         /\ x.type = "Barrier" =>
              /\ x.id \in 1..requested /\ ~mgrActive[<<k, 0>>] /\ MgrAt(k) = 2 * x.id - 2
              /\ Brings(Tail(ToMgrQ(k)), 2 * x.id - 1, HubAt(k), joined) /\ 2 * x.id - 1 <= HubAt(k)
         /\ x.type = "BarrierReached" =>
              /\ x.id \in 1..requested /\ mgrActive[<<k, 0>>] /\ mgrUuid[<<k, 0>>] = x.id
              /\ MgrAt(k) = 2 * x.id - 1
              /\ Brings(Tail(ToMgrQ(k)), 2 * x.id, HubAt(k), joined) /\ 2 * x.id <= HubAt(k)
         /\ x.type \notin {"Barrier", "BarrierReached"} =>
              /\ Brings(Tail(ToMgrQ(k)), MgrAt(k), HubAt(k), joined)
              /\ x.type = "Spawn" => 2 * joined[x.module] <= MgrAt(k) + 1
<1>1. Typed /\ Ways /\ Chain /\ Kinds /\ requested \in Nat
  BY BeforeHas
<1>2. ToMgrQ(k) \in Seq(DownMsgs(requested)) /\ ToMgrQ(k) \in Seq(DownKind(requested, killed))
  BY <1>1, QueuesTyped DEF Kinds
<1>3. Brings(ToMgrQ(k), Number(mgrActive[<<k, 0>>], mgrUuid[<<k, 0>>]), HubAt(k), joined) /\ HubAt(k) \in Nat
  BY <1>1 DEF Ways, MgrAt, Chain
<1>4. mgrActive[<<k, 0>>] \in BOOLEAN /\ mgrUuid[<<k, 0>>] \in Nat
  BY <1>1, Constants DEF Typed, ManagerTyped
<1>5. x \in DownKind(requested, killed)
  BY <1>2, HeadTyped
<1>6. MgrAt(k) = Number(mgrActive[<<k, 0>>], mgrUuid[<<k, 0>>])
  BY DEF MgrAt
<1>7. PICK told \in BOOLEAN, u \in Nat : told = mgrActive[<<k, 0>>] /\ u = mgrUuid[<<k, 0>>]
  BY <1>4
<1>8. Brings(ToMgrQ(k), Number(told, u), HubAt(k), joined) /\ MgrAt(k) = Number(told, u)
  BY <1>3, <1>6, <1>7
<1> QED BY <1>1, <1>2, <1>3, <1>5, <1>7, <1>8, NextEvent

(* And of the queue to a slave hub.                                        *)
LEMMA NextForHub ==
  ASSUME Before, NEW k \in Hubs, DownQ(k) # <<>>, NEW x, x = Head(DownQ(k))
  PROVE  /\ x \in DownKind(requested, killed)
         /\ x.type = "Barrier" =>
              /\ x.id \in 1..requested /\ ~active[k] /\ HubAt(k) = 2 * x.id - 2
              /\ Brings(Tail(DownQ(k)), 2 * x.id - 1, HubAt(Master), joined) /\ 2 * x.id - 1 <= HubAt(Master)
         /\ x.type = "BarrierReached" =>
              /\ x.id \in 1..requested /\ active[k] /\ uuid[k] = x.id
              /\ HubAt(k) = 2 * x.id - 1
              /\ Brings(Tail(DownQ(k)), 2 * x.id, HubAt(Master), joined) /\ 2 * x.id <= HubAt(Master)
         /\ x.type \notin {"Barrier", "BarrierReached"} =>
              /\ Brings(Tail(DownQ(k)), HubAt(k), HubAt(Master), joined)
              /\ x.type = "Spawn" => 2 * joined[x.module] <= HubAt(k) + 1
<1>1. Typed /\ Ways /\ Chain /\ Kinds /\ requested \in Nat
  BY BeforeHas
<1>2. DownQ(k) \in Seq(DownMsgs(requested)) /\ DownQ(k) \in Seq(DownKind(requested, killed))
  BY <1>1, QueuesTyped DEF Kinds
<1>3. Brings(DownQ(k), Number(active[k], uuid[k]), HubAt(Master), joined) /\ HubAt(Master) \in Nat
  BY <1>1, Constants DEF Ways, HubAt, Chain
<1>4. active[k] \in BOOLEAN /\ uuid[k] \in Nat
  BY <1>1, Constants DEF Typed, HubTyped
<1>5. x \in DownKind(requested, killed)
  BY <1>2, HeadTyped
<1>6. HubAt(k) = Number(active[k], uuid[k])
  BY DEF HubAt
<1>7. PICK told \in BOOLEAN, u \in Nat : told = active[k] /\ u = uuid[k]
  BY <1>4
<1>8. Brings(DownQ(k), Number(told, u), HubAt(Master), joined) /\ HubAt(k) = Number(told, u)
  BY <1>3, <1>6, <1>7
<1> QED BY <1>1, <1>2, <1>3, <1>5, <1>7, <1>8, NextEvent

(* The manager of hub k takes the first message, and passes nothing on.    *)
MgrTakes(k) ==
  /\ ToMgrQ(k) # <<>> /\ UNCHANGED <<hub, outbox, delayed, answered, requested, pending, joined, killed>>
  /\ \A h \in Hubs : /\ DownQ(h)' = DownQ(h) /\ UpQ(h)' = UpQ(h) /\ FromMgrQ(h)' = FromMgrQ(h)
                     /\ ToMgrQ(h)' = IF h = k THEN Tail(ToMgrQ(h)) ELSE ToMgrQ(h)
  /\ \A h \in Hubs \ {k} : MgrAt(h)' = MgrAt(h)
  /\ \A m \in Modules : HubOf[m] # k => ManagerKept(m) /\ InKept(m) /\ StatusKept(m)

(* A manager that takes a message from its hub leaves the hubs, and the    *)
(* ways up, as they are.                                                   *)
LEMMA MgrTakesFrame ==
  ASSUME Before, NEW k \in Hubs, MgrTakes(k), NEW m \in Modules
  PROVE  /\ HubKept(m) /\ TrackedKept(m) /\ BarrierKept(m) /\ OutKept(m) /\ OwnKept(m)
         /\ (m \in Expected \ reached)' = (m \in Expected \ reached)
         /\ FromMgrQ(HubOf[m])' = FromMgrQ(HubOf[m]) /\ UpQ(HubOf[m])' = UpQ(HubOf[m])
         /\ HubAt(k)' = HubAt(k) /\ HubAt(Master)' = HubAt(Master)
         /\ joined' = joined /\ requested' = requested /\ killed' = killed /\ active' = active
         /\ ExitsF(m)' = ExitsF(m) /\ ExitsU(m)' = ExitsU(m)
         /\ AnswersF(m)' = AnswersF(m) /\ AnswersU(m)' = AnswersU(m) /\ UpOrder(m)' = UpOrder(m)
         /\ \A S : Count(Tail(ToMgrQ(k)), S) = Count(ToMgrQ(k), S) - One(Head(ToMgrQ(k)) \in S)
         /\ Head(ToMgrQ(k)) \notin SpawnOf(m) \/ HubOf[m] # k => QueuesKept(m)
<1>1. /\ Typed /\ Chain /\ HubOf[m] \in Hubs /\ requested \in Nat /\ Master \in Hubs
      /\ ToMgrQ(k) \in Seq(DownMsgs(requested))
  BY BeforeHas, Constants, QueuesTyped
<1>2. UNCHANGED <<active, uuid, tracked, reached, requested, joined, killed, outbox, delayed, answered>>
  BY DEF MgrTakes, hub
<1>3. (\A h \in Hubs : HubAt(h)' = HubAt(h)) /\ HubKept(m) /\ OutKept(m) /\ OwnKept(m)
  BY <1>1, <1>2, HubUntouched, OutSame, OwnUntouched
<1>4. TrackedKept(m) /\ BarrierKept(m)
  BY <1>3 DEF HubKept
<1>5. (m \in Expected \ reached)' = (m \in Expected \ reached)
  BY <1>1, <1>2, <1>4 DEF Expected, TrackedKept
<1>6. FromMgrQ(HubOf[m])' = FromMgrQ(HubOf[m]) /\ UpQ(HubOf[m])' = UpQ(HubOf[m])
  BY <1>1 DEF MgrTakes
<1>7. /\ ExitsF(m)' = ExitsF(m) /\ ExitsU(m)' = ExitsU(m)
      /\ AnswersF(m)' = AnswersF(m) /\ AnswersU(m)' = AnswersU(m) /\ UpOrder(m)' = UpOrder(m)
  BY <1>6 DEF ExitsF, ExitsU, AnswersF, AnswersU, UpOrder
<1>8. ToMgrQ(k) # <<>>
  BY DEF MgrTakes
<1>9. \A S : Count(Tail(ToMgrQ(k)), S) = Count(ToMgrQ(k), S) - One(Head(ToMgrQ(k)) \in S)
  BY <1>1, <1>8, CountTail
<1>10. ASSUME Head(ToMgrQ(k)) \notin SpawnOf(m) \/ HubOf[m] # k
       PROVE  QueuesKept(m)
  <2>1. CASE HubOf[m] # k
    <3>1. DownQ(HubOf[m])' = DownQ(HubOf[m]) /\ ToMgrQ(HubOf[m])' = ToMgrQ(HubOf[m])
      BY <1>1, <2>1 DEF MgrTakes
    <3> QED BY <1>6, <3>1, SpawnsUntouched, QueuesUntouched
  <2>2. CASE HubOf[m] = k
    <3>1. DownQ(k)' = DownQ(k) /\ ToMgrQ(k)' = Tail(ToMgrQ(k))
      BY DEF MgrTakes
    <3>2. Count(ToMgrQ(k)', SpawnOf(m)) = Count(ToMgrQ(k), SpawnOf(m))
      <4>1. One(Head(ToMgrQ(k)) \in SpawnOf(m)) = 0
        BY <1>10, <2>2 DEF One
      <4>2. Count(ToMgrQ(k), SpawnOf(m)) \in Nat
        BY <1>1, CountNat
      <4>3. Count(Tail(ToMgrQ(k)), SpawnOf(m)) = Count(ToMgrQ(k), SpawnOf(m))
        BY <1>9, <4>1, <4>2
      <4> QED BY <3>1, <4>3
    <3>3. Spawns(m)' = Spawns(m)
      BY <2>2, <3>1, <3>2 DEF Spawns, SpawnsAt
    <3> QED BY <1>6, <3>3, QueuesUntouched
  <2> QED BY <2>1, <2>2
<1> QED BY <1>2, <1>1, <1>3, <1>4, <1>5, <1>6, <1>7, <1>9, <1>10

(* A step of the manager of hub k for a message from its hub only has to   *)
(* keep what concerns the modules at k.                                    *)
LEMMA ManagerStep ==
  ASSUME Before, NEW k \in Hubs, MgrTakes(k), Brings(Tail(ToMgrQ(k)), MgrAt(k)', HubAt(k), joined),
         \A m \in Modules : In(m)' \in Seq(InKind(m, requested, killed)),
         \A m \in Modules : HubOf[m] = k => Mod(m)'
  PROVE  Core'
<1>1. /\ Typed /\ MasterRight /\ Kinds /\ Ways /\ Chain /\ \A m \in Modules : Mod(m)
  BY BeforeHas
<1>2. UNCHANGED <<active, uuid, participants, tracked, reached, requested, pending, joined, killed, outbox>>
  BY DEF MgrTakes, hub
<1>3. \A m \in Modules : HubKept(m) /\ TrackedKept(m)
  BY MgrTakesFrame
<1>4. MasterRight'
  BY <1>1, <1>2, <1>3, MasterUntouched DEF TrackedKept
<1>5. Ways'
  <2>1. \A h \in Hubs : HubAt(h)' = HubAt(h)
    BY <1>2 DEF HubAt
  <2>2. \A h \in Hubs : DownQ(h)' = DownQ(h)
    BY DEF MgrTakes
  <2>3. ASSUME NEW h \in Hubs
        PROVE  Brings(ToMgrQ(h)', MgrAt(h)', HubAt(h)', joined')
    <3>1. CASE h = k
      <4>1. ToMgrQ(k)' = Tail(ToMgrQ(k))
        BY DEF MgrTakes
      <4> QED BY <1>2, <2>1, <3>1, <4>1
    <3>2. CASE h # k
      <4>1. ToMgrQ(h)' = ToMgrQ(h) /\ MgrAt(h)' = MgrAt(h)
        BY <3>2 DEF MgrTakes
      <4> QED BY <1>1, <1>2, <2>1, <4>1 DEF Ways
    <3> QED BY <3>1, <3>2
  <2>4. Master \in Hubs
    BY Constants
  <2> QED BY <1>1, <1>2, <2>1, <2>2, <2>3, <2>4 DEF Ways
<1>6. Kinds'
  <2>1. ASSUME NEW h \in Hubs
        PROVE  /\ DownQ(h)' = DownQ(h) /\ FromMgrQ(h)' = FromMgrQ(h) /\ UpQ(h)' = UpQ(h)
               /\ ToMgrQ(h)' \in Seq(DownKind(requested, killed))
    <3>1. /\ DownQ(h)' = DownQ(h) /\ FromMgrQ(h)' = FromMgrQ(h) /\ UpQ(h)' = UpQ(h)
          /\ ToMgrQ(h)' = IF h = k THEN Tail(ToMgrQ(h)) ELSE ToMgrQ(h)
      BY DEF MgrTakes
    <3>2. ToMgrQ(h) \in Seq(DownKind(requested, killed)) /\ ToMgrQ(k) # <<>>
      BY <1>1 DEF Kinds, MgrTakes
    <3> QED BY <3>1, <3>2
  <2>2. \A m \in Modules : Out(m)' = Out(m)
    BY <1>2, OutSame
  <2> QED BY <1>1, <1>2, <2>1, <2>2 DEF Kinds
<1>7. ASSUME NEW m \in Modules
      PROVE  Mod(m)'
  <2>1. CASE HubOf[m] # k
    <3>1. QueuesKept(m) /\ OutKept(m) /\ OwnKept(m)
      BY <2>1, MgrTakesFrame
    <3>2. ManagerKept(m) /\ InKept(m) /\ StatusKept(m)
      BY <2>1 DEF MgrTakes
    <3>3. ModSame(m)
      BY <1>3, <3>1, <3>2 DEF ModSame, ProcKept
    <3> QED BY <1>1, <3>3, ModFrame
  <2> QED BY <2>1
<1> QED BY <1>4, <1>5, <1>6, <1>7, CoreNext

(* The manager g, which is the one of hub g[1], takes its first message    *)
(* and passes nothing on.                                                  *)
LEMMA ArrivedAt ==
  ASSUME Before, NEW g \in Managers, NEW type, Arrived(g, type), NEW msgs, Transmit(Source(g), Ranked(g, msgs))
  PROVE  /\ g[1] \in Hubs /\ g = <<g[1], 0>> /\ g[2] = 0 /\ ToMgrQ(g[1]) # <<>>
         /\ Head(ToMgrQ(g[1])) = Head(link[Source(g)]) /\ Head(ToMgrQ(g[1])).type = type
         /\ \A h \in Hubs : /\ DownQ(h)' = DownQ(h) /\ UpQ(h)' = UpQ(h) /\ FromMgrQ(h)' = FromMgrQ(h)
                            /\ ToMgrQ(h)' = IF h = g[1] THEN Tail(ToMgrQ(h)) ELSE ToMgrQ(h)
<1>1. Typed /\ OneRank
  BY BeforeHas
<1>2. g[1] \in Hubs /\ g = <<g[1], 0>> /\ g[2] = 0 /\ Source(g) = ToManager(g[1]) /\ DOMAIN Ranked(g, msgs) = {}
  BY <1>1, OneManager
<1>3. link[ToManager(g[1])] # <<>> /\ Head(link[ToManager(g[1])]).type = type
  BY <1>2 DEF Arrived, AtHead
<1>4. PICK out : out = Ranked(g, msgs)
  OBVIOUS
<1>5. Transmit(ToManager(g[1]), out) /\ DOMAIN out = {} /\ DOMAIN out \subseteq {FromManager(g[1])}
  BY <1>2, <1>4
<1>6. \A h \in Hubs :
        /\ DownQ(h)' = DownQ(h) /\ UpQ(h)' = UpQ(h)
        /\ ToMgrQ(h)' = IF h = g[1] THEN Tail(ToMgrQ(h)) ELSE ToMgrQ(h)
        /\ FromMgrQ(h)' = FromMgrQ(h)
  BY <1>1, <1>2, <1>3, <1>5, ManagerTakes
<1> QED BY <1>2, <1>3, <1>6 DEF ToMgrQ

(* A manager sends x to modules ms.                                        *)
LEMMA ModulesGet ==
  ASSUME Typed, OneRank, NEW g \in Managers, NEW ms, NEW x, SendModules(g, ms, x)
  PROVE  \A m \in Modules :
           /\ HubOf[m] = g[1] /\ m \in ms /\ (NotYet(m) \/ IsUp(m)) => In(m)' = Append(In(m), x)
           /\ ~(HubOf[m] = g[1] /\ m \in ms /\ (NotYet(m) \/ IsUp(m))) => In(m)' = In(m) /\ InKept(m)
<1> SUFFICES ASSUME NEW m \in Modules
             PROVE  /\ HubOf[m] = g[1] /\ m \in ms /\ (NotYet(m) \/ IsUp(m)) => In(m)' = Append(In(m), x)
                    /\ ~(HubOf[m] = g[1] /\ m \in ms /\ (NotYet(m) \/ IsUp(m))) => In(m)' = In(m) /\ InKept(m)
  OBVIOUS
<1>1. <<m, 0>> \in Procs /\ ManagerOf(<<m, 0>>) = <<HubOf[m], 0>> /\ g = <<g[1], 0>>
  BY OneManager, Constants
<1>2. ManagerOf(<<m, 0>>) = g <=> HubOf[m] = g[1]
  BY <1>1
<1>3. NotYet(m) \/ IsUp(m) <=> alive[m] \in {"not yet", "up"}
  BY DEF NotYet, IsUp
<1>4. In(m)' = IF ManagerOf(<<m, 0>>) = g /\ m \in ms /\ alive[m] \in {"not yet", "up"}
               THEN Append(In(m), x) ELSE In(m)
  BY <1>1 DEF SendModules, In
<1> QED BY <1>2, <1>3, <1>4, InUntouched

(* A module that runs at its manager is neither about to be started nor    *)
(* about to be found gone.                                                 *)
LEMMA RunningOnly ==
  ASSUME NEW m \in Modules, Atoms(m), Staged(m), Running(m)
  PROVE  /\ Spawns(m) = 0 /\ ExitsF(m) = 0 /\ ExitsU(m) = 0 /\ Tracked(m) /\ ~NotYet(m)
         /\ 2 * joined[m] <= MgrAt(HubOf[m]) + 1
<1>1. One(Running(m)) = 1 /\ (One(Tracked(m)) = 0 \/ (One(Tracked(m)) = 1 /\ Tracked(m)))
  BY DEF One
<1>2. /\ Spawns(m) + One(Running(m)) + ExitsF(m) + ExitsU(m) = One(Tracked(m)) /\ ~NotYet(m)
      /\ 2 * joined[m] <= MgrAt(HubOf[m]) + 1
  BY DEF Staged
<1>3. Spawns(m) \in Nat /\ ExitsF(m) \in Nat /\ ExitsU(m) \in Nat
  BY DEF Atoms
<1> QED BY ONLY <1>1, <1>2, <1>3

(* What follows for a module when its manager takes an event, and does not *)
(* pass it by an answer.                                                   *)
LEMMA PastRightAtManager ==
  ASSUME NEW m \in Modules, PastRight(m), QueuesKept(m), HubKept(m), Running(m)' = Running(m),
         requested \in Nat, HubAt(HubOf[m])' = HubAt(HubOf[m]),
         \A b \in 1..requested : Answered(m, b) => Answered(m, b)'
  PROVE  PastRight(m)'
<1>1. /\ requested' = requested /\ Tracked(m)' = Tracked(m) /\ joined'[m] = joined[m]
      /\ Spawns(m)' = Spawns(m) /\ ExitsF(m)' = ExitsF(m) /\ Late(m)' = Late(m)
  BY DEF HubKept, BarrierKept, TrackedKept, QueuesKept, Late
<1>2. \A b : Passed(m, b)' = Passed(m, b)
  BY <1>1 DEF Passed, HubKept, BarrierKept
<1> QED BY <1>1, <1>2 DEF PastRight

(* A barrier comes to the manager.                                         *)
LEMMA MgrBarrierRight ==
  ASSUME Before, NEW g \in Managers, MgrBarrier(g)
  PROVE  Core'
<1>0. PICK k : k = g[1]
  OBVIOUS
<1>1. PICK x : x = Head(ToMgrQ(k))
  OBVIOUS
<1>2. /\ k \in Hubs /\ g = <<k, 0>> /\ ToMgrQ(k) # <<>> /\ x = Head(link[Source(g)]) /\ x.type = "Barrier"
      /\ \A h \in Hubs : /\ DownQ(h)' = DownQ(h) /\ UpQ(h)' = UpQ(h) /\ FromMgrQ(h)' = FromMgrQ(h)
                         /\ ToMgrQ(h)' = IF h = k THEN Tail(ToMgrQ(h)) ELSE ToMgrQ(h)
  <2>1. Arrived(g, "Barrier") /\ \E msgs : Transmit(Source(g), Ranked(g, msgs))
    BY DEF MgrBarrier
  <2> QED BY <1>0, <1>1, <2>1, ArrivedAt
<1>3. /\ x \in DownKind(requested, killed) /\ x.id \in 1..requested /\ ~mgrActive[g] /\ MgrAt(k) = 2 * x.id - 2
      /\ Brings(Tail(ToMgrQ(k)), 2 * x.id - 1, HubAt(k), joined) /\ 2 * x.id - 1 <= HubAt(k)
  BY <1>1, <1>2, NextForManager
<1>4. PICK b \in Nat : b = x.id /\ b \in 1..requested /\ requested \in Nat
  BY <1>3, BeforeHas
<1>5. /\ Typed /\ OneRank /\ Chain /\ Kinds /\ Master \in Hubs /\ g \in Managers
      /\ \A h \in Hubs : <<h, 0>> \in Managers
  BY BeforeHas, Constants
<1>6. /\ mgrActive' = [mgrActive EXCEPT ![g] = TRUE] /\ mgrUuid' = [mgrUuid EXCEPT ![g] = b]
      /\ SendModules(g, LocalModules(g), x)
      /\ UNCHANGED <<hub, mgrReached, runningMap, outbox, upstream, delayed, answered, alive, script>>
  BY <1>2, <1>4 DEF MgrBarrier, process
<1>7. \A m \in Modules : Running(m)' = Running(m) /\ Broken(m)' = Broken(m) /\ HeldBack(m)' = HeldBack(m)
  BY <1>6 DEF Running, Broken, HeldBack
<1>8. /\ MgrAt(k)' = 2 * b - 1
      /\ \A h \in Hubs \ {k} : MgrAt(h)' = MgrAt(h)
      /\ \A m \in Modules : HubOf[m] # k => MgrOn(m)' = MgrOn(m)
      /\ \A m \in Modules : HubOf[m] = k => MgrOn(m)' /\ ~MgrOn(m) /\ ~HeldBack(m)
  <2>1. DOMAIN mgrActive = Managers /\ DOMAIN mgrUuid = Managers
    BY <1>5 DEF Typed, ManagerTyped
  <2>2. mgrActive'[g] /\ mgrUuid'[g] = b
    BY <1>5, <1>6, <2>1
  <2>3. \A h \in Hubs \ {k} : mgrActive'[<<h, 0>>] = mgrActive[<<h, 0>>] /\ mgrUuid'[<<h, 0>>] = mgrUuid[<<h, 0>>]
    BY <1>2, <1>5, <1>6, <2>1
  <2>4. \A m \in Modules : HubOf[m] \in Hubs
    BY Constants
  <2>5. \A m \in Modules : Staged(m)
    BY BeforeHas
  <2>6. MgrAt(k)' = 2 * b - 1
    BY <1>2, <2>2 DEF MgrAt, Number
  <2>7. \A h \in Hubs \ {k} : MgrAt(h)' = MgrAt(h)
    BY <2>3 DEF MgrAt
  <2>8. \A m \in Modules : HubOf[m] # k => MgrOn(m)' = MgrOn(m)
    BY <2>3, <2>4 DEF MgrOn
  <2>9. \A m \in Modules : HubOf[m] = k => MgrOn(m)' /\ ~MgrOn(m)
    BY <1>2, <1>3, <2>2 DEF MgrOn
  <2>10. \A m \in Modules : HubOf[m] = k => ~HeldBack(m)
    BY <2>5, <2>9 DEF Staged
  <2> QED BY <2>6, <2>7, <2>8, <2>9, <2>10
<1>9. \A m \in Modules :
        /\ HubOf[m] = k /\ Running(m) /\ (NotYet(m) \/ IsUp(m)) => In(m)' = Append(In(m), x)
        /\ ~(HubOf[m] = k /\ Running(m) /\ (NotYet(m) \/ IsUp(m))) => In(m)' = In(m) /\ InKept(m)
  <2>1. \A m \in Modules : HubOf[m] = k => (m \in LocalModules(g) <=> Running(m))
    BY <1>2 DEF LocalModules, Running
  <2> QED BY <1>0, <1>5, <1>6, <2>1, ModulesGet
<1>10. MgrTakes(k)
  <2>1. \A m \in Modules : StatusKept(m)
    BY <1>6, StatusSame
  <2>2. UNCHANGED <<hub, outbox, delayed, answered, requested, pending, joined, killed>>
    BY <1>6 DEF script
  <2>3. ASSUME NEW m \in Modules, HubOf[m] # k
        PROVE  ManagerKept(m) /\ InKept(m)
    <3>1. HubOf[m] \in Hubs
      BY Constants
    <3> QED BY <1>7, <1>8, <1>9, <2>3, <3>1 DEF ManagerKept
  <2> QED BY <1>2, <1>8, <2>1, <2>2, <2>3 DEF MgrTakes
<1>11. x = BarrierMsg(b) /\ x \in Barriers /\ \A m : x \notin SpawnOf(m)
  <2>1. x = BarrierMsg(b)
    <3>1. x \in {BarrierMsg(c) : c \in 1..requested}
      <4>1. \A c : Reached(c, HubId).type # "Barrier"
        BY DEF Reached
      <4>2. \A m : To("Spawn", m).type # "Barrier" /\ To("Upstream", m).type # "Barrier" /\ To("Kill", m).type # "Barrier"
        BY DEF To
      <4> QED BY <1>2, <1>3, <4>1, <4>2 DEF DownKind
    <3>2. \A c : BarrierMsg(c).id = c
      BY DEF BarrierMsg
    <3> QED BY <1>4, <3>1, <3>2
  <2>2. x \in Barriers
    BY <2>1, <1>4, OfTypes
  <2> QED BY <1>2, <2>1, <2>2, OfTypes
<1>12. ASSUME NEW m \in Modules, HubOf[m] = k, Running(m)
       PROVE  /\ b = requested /\ active[Master] /\ HubAt(Master) = 2 * b - 1 /\ m \in Expected \ reached
              /\ Early(m) = 0 /\ Late(m) = 0 /\ Asked(m) = 0 /\ ~Waits(m)
  <2>1. /\ Atoms(m) /\ Staged(m) /\ Tokens(m) /\ PastRight(m)
    BY BeforeHas
  <2>2. Spawns(m) = 0 /\ ExitsF(m) = 0 /\ Tracked(m) /\ 2 * joined[m] <= MgrAt(HubOf[m]) + 1
    BY <1>12, <2>1, RunningOnly
  <2>3. joined[m] \in Nat /\ joined[m] < b
    <3>1. joined[m] \in 0..requested
      BY <2>1 DEF Atoms
    <3> QED BY <1>3, <1>4, <1>12, <2>2, <3>1
  <2>4. ~Answered(m, b)
    BY <1>3, <1>4, <1>8, <1>12 DEF Answered
  <2>5. ~Passed(m, b)
    BY <1>4, <1>12, <2>1, <2>2, <2>3, <2>4 DEF PastRight
  <2>6. b = requested /\ active[Master] /\ HubAt(Master) = 2 * b - 1
    <3>1. /\ HubAt(k) \in Nat /\ HubAt(Master) \in Nat /\ HubAt(k) <= HubAt(Master) /\ requested \in Nat
          /\ HubAt(Master) = IF active[Master] THEN 2 * requested - 1 ELSE 2 * requested
      BY <1>2, <1>4, <1>5 DEF Chain
    <3>2. ~(2 * b <= HubAt(Master)) /\ 2 * b - 1 <= HubAt(k)
      BY <1>3, <1>4, <2>5 DEF Passed
    <3> QED BY ONLY <1>4, <3>1, <3>2
  <2>7. m \notin reached /\ Late(m) = 0
    BY <2>1, <2>5, <2>6 DEF Passed, Atoms
  <2>8. m \in Expected
    BY <2>2, <2>3, <2>6 DEF Expected
  <2>9. Early(m) = 0
    <3>1. Early(m) \in Nat /\ Late(m) \in Nat /\ Early(m) + Late(m) <= 1
      BY <2>1 DEF Atoms, Tokens
    <3>2. Early(m) # 1
      BY <1>3, <1>4, <1>12, <2>1, <2>6 DEF Tokens
    <3> QED BY <3>1, <3>2
  <2>10. Asked(m) = 0 /\ ~Waits(m)
    <3>1. Early(m) = Asked(m) + One(Waits(m)) + Answers(m)
      BY DEF Early
    <3>2. One(Waits(m)) \in Nat /\ (One(Waits(m)) = 0 => ~Waits(m))
      BY DEF One
    <3>3. Asked(m) \in Nat /\ Answers(m) \in Nat
      BY <2>1 DEF Atoms
    <3> QED BY ONLY <2>9, <3>1, <3>2, <3>3
  <2> QED BY <2>6, <2>7, <2>8, <2>9, <2>10
<1>13. ASSUME NEW m \in Modules
       PROVE  In(m)' \in Seq(InKind(m, requested, killed))
  <2>1. In(m) \in Seq(InKind(m, requested, killed))
    BY <1>5 DEF Kinds
  <2>2. CASE HubOf[m] = k /\ Running(m) /\ (NotYet(m) \/ IsUp(m))
    <3>1. x \in InKind(m, requested, killed)
      BY <1>11, <1>12, <2>2 DEF InKind
    <3> QED BY <1>9, <2>1, <2>2, <3>1, SeqAppended
  <2> QED BY <1>9, <2>1, <2>2
<1>14. ASSUME NEW m \in Modules, HubOf[m] = k
       PROVE  Mod(m)'
  <2>1. /\ Atoms(m) /\ Staged(m) /\ Tokens(m) /\ ExitOrder(m) /\ PastRight(m) /\ Works(m)
        /\ (NotYet(m) \/ IsUp(m) \/ Exited(m))
    BY BeforeHas
  <2>2. /\ HubKept(m) /\ TrackedKept(m) /\ BarrierKept(m) /\ OutKept(m) /\ OwnKept(m) /\ QueuesKept(m)
        /\ (m \in Expected \ reached)' = (m \in Expected \ reached)
        /\ joined' = joined /\ requested' = requested /\ HubAt(k)' = HubAt(k)
        /\ HubAt(Master)' = HubAt(Master) /\ active' = active
    BY <1>1, <1>2, <1>10, <1>11, MgrTakesFrame
  <2>3. StatusKept(m)
    BY <1>6, StatusSame
  <2>4. \A c \in 1..requested : Answered(m, c)' = Answered(m, c)
    <3>1. \A c \in Int : 2 * c <= 2 * b - 1 \/ (2 * b - 1 + 1 = 2 * c /\ FALSE)
                         <=> 2 * c <= 2 * b - 2 \/ (2 * b - 2 + 1 = 2 * c /\ FALSE)
      BY <1>4
    <3>2. ~HeldBack(m) /\ ~HeldBack(m)'
      BY <1>7, <1>8, <1>14
    <3>3. MgrAt(HubOf[m])' = 2 * b - 1 /\ MgrAt(HubOf[m]) = 2 * b - 2
      <4>1. HubOf'[m] = k
        BY <1>14
      <4> QED BY <1>3, <1>4, <1>8, <1>14, <4>1
    <3> QED BY <1>4, <3>1, <3>2, <3>3 DEF Answered
  <2>5. PastRight(m)'
    BY <1>4, <1>7, <1>14, <2>1, <2>2, <2>4, PastRightAtManager
  <2>6. Works(m)'
    BY <1>4, <1>7, <2>1, <2>2, <2>4 DEF Works, OutKept, OwnKept
  <2>7. ExitOrder(m)'
    BY <2>1, <2>2, ExitOrderFrame
  <2>8. NotYet(m) \/ Exited(m) => In(m)' = In(m)
    BY <1>9, <2>1 DEF Staged, Atoms
  <2>9. Staged(m)'
    <3>1. Running(m)' => 2 * joined'[m] <= MgrAt(HubOf[m])' + 1
      <4>1. Running(m) => 2 * joined[m] <= MgrAt(HubOf[m]) + 1
        BY <2>1 DEF Staged
      <4>2. MgrAt(HubOf[m])' = 2 * b - 1 /\ MgrAt(HubOf[m]) = 2 * b - 2
        BY <1>3, <1>4, <1>8, <1>14
      <4>3. joined[m] \in 0..requested
        BY <2>1 DEF Atoms
      <4> QED BY <1>4, <1>7, <2>2, <4>1, <4>2, <4>3
    <3> QED BY <1>7, <1>8, <1>14, <2>1, <2>2, <2>3, <2>8, <3>1
            DEF Staged, TrackedKept, OutKept, OwnKept, QueuesKept, StatusKept
  <2>10. Tokens(m)'
    <3>1. Waits(m)' = Waits(m) /\ Late(m)' = Late(m) /\ Answers(m)' = Answers(m)
      BY <2>2, <2>3 DEF Waits, StatusKept, OwnKept, Late, QueuesKept, OutKept
    <3>2. CASE Running(m) /\ IsUp(m)
      <4>1. In(m)' = Append(In(m), x) /\ In(m) \in Seq(InKind(m, requested, killed))
        BY <1>5, <1>9, <1>14, <3>2 DEF Kinds
      <4>2. Asked(m)' = Asked(m) + One(x \in Barriers)
        BY <4>1, CountAppend DEF Asked
      <4>3. Asked(m)' = 1 /\ Late(m)' = 0
        BY <1>11, <1>12, <1>14, <3>1, <3>2, <4>2 DEF One
      <4>4. Answers(m)' = 0 /\ One(Waits(m)') = 0 /\ ~Waits(m)'
        <5>1. Early(m) = Asked(m) + One(Waits(m)) + Answers(m) /\ Answers(m) \in Nat
          BY <2>1 DEF Early, Atoms
        <5>2. Early(m) = 0 /\ Asked(m) = 0 /\ ~Waits(m)
          BY <1>12, <1>14, <3>2
        <5>3. One(Waits(m)) = 0
          BY <5>2 DEF One
        <5>4. Answers(m) = 0
          BY <5>1, <5>2, <5>3
        <5> QED BY <3>1, <5>2, <5>3, <5>4
      <4>5. Early(m)' = 1
        BY <4>3, <4>4 DEF Early
      <4>6. /\ active'[Master] /\ (m \in Expected \ reached)' /\ Running(m)'
            /\ MgrAt(HubOf[m])' = HubAt(Master)'
        BY <1>7, <1>8, <1>12, <1>14, <2>2, <3>2
      <4> QED BY ONLY <4>3, <4>4, <4>5, <4>6 DEF Tokens
    <3>3. CASE ~(Running(m) /\ IsUp(m))
      <4>1. InKept(m)
        BY <1>9, <2>1, <3>3 DEF Staged
      <4>2. Early(m)' = Early(m)
        BY <3>1, <4>1 DEF Early, InKept
      <4>3. Early(m) # 1
        BY <1>12, <1>14, <2>1 DEF Tokens
      <4> QED BY <2>1, <2>2, <3>1, <4>2, <4>3 DEF Tokens, OwnKept
    <3> QED BY <3>2, <3>3
  <2> QED BY <2>5, <2>6, <2>7, <2>9, <2>10 DEF Mod
<1>15. Brings(Tail(ToMgrQ(k)), MgrAt(k)', HubAt(k), joined)
  BY <1>3, <1>4, <1>8
<1> QED BY <1>2, <1>10, <1>13, <1>14, <1>15, ManagerStep

(* A release comes to the manager.                                         *)
LEMMA MgrBarrierReachedRight ==
  ASSUME Before, NEW g \in Managers, MgrBarrierReached(g)
  PROVE  Core'
<1>0. PICK k : k = g[1]
  OBVIOUS
<1>1. PICK x : x = Head(ToMgrQ(k))
  OBVIOUS
<1>2. /\ k \in Hubs /\ g = <<k, 0>> /\ ToMgrQ(k) # <<>> /\ x = Head(link[Source(g)]) /\ x.type = "BarrierReached"
      /\ \A h \in Hubs : /\ DownQ(h)' = DownQ(h) /\ UpQ(h)' = UpQ(h) /\ FromMgrQ(h)' = FromMgrQ(h)
                         /\ ToMgrQ(h)' = IF h = k THEN Tail(ToMgrQ(h)) ELSE ToMgrQ(h)
  <2>1. Arrived(g, "BarrierReached") /\ \E msgs : Transmit(Source(g), Ranked(g, msgs))
    BY DEF MgrBarrierReached
  <2> QED BY <1>0, <1>1, <2>1, ArrivedAt
<1>3. /\ x.id \in 1..requested /\ mgrActive[g] /\ mgrUuid[g] = x.id /\ MgrAt(k) = 2 * x.id - 1
      /\ Brings(Tail(ToMgrQ(k)), 2 * x.id, HubAt(k), joined) /\ 2 * x.id <= HubAt(k)
  BY <1>1, <1>2, NextForManager
<1>4. PICK b \in Nat : b = x.id /\ b \in 1..requested /\ requested \in Nat
  BY <1>3, BeforeHas
<1>5. /\ Typed /\ OneRank /\ Chain /\ Kinds /\ Master \in Hubs /\ g \in Managers
      /\ \A h \in Hubs : <<h, 0>> \in Managers
  BY BeforeHas, Constants
<1>6. /\ mgrReached' = [mgrReached EXCEPT ![g] = {}] /\ mgrActive' = [mgrActive EXCEPT ![g] = FALSE]
      /\ UNCHANGED <<hub, mgrUuid, runningMap, inbox, outbox, upstream, delayed, answered, alive, script>>
  <2>1. Head(link[Source(g)]).id = mgrUuid[g]
    BY <1>2, <1>3
  <2> QED BY <2>1 DEF MgrBarrierReached, process
<1>7. \A m \in Modules : Running(m)' = Running(m) /\ Broken(m)' = Broken(m)
  BY <1>6 DEF Running, Broken
<1>8. /\ MgrAt(k)' = 2 * b
      /\ \A h \in Hubs \ {k} : MgrAt(h)' = MgrAt(h)
      /\ \A m \in Modules : HubOf[m] # k => MgrOn(m)' = MgrOn(m) /\ HeldBack(m)' = HeldBack(m)
      /\ \A m \in Modules : HubOf[m] = k => ~HeldBack(m)'
  <2>1. DOMAIN mgrActive = Managers /\ DOMAIN mgrReached = Managers
    BY <1>5 DEF Typed, ManagerTyped
  <2>2. ~mgrActive'[g] /\ mgrUuid'[g] = b /\ mgrReached'[g] = {}
    BY <1>3, <1>4, <1>5, <1>6, <2>1
  <2>3. \A h \in Hubs \ {k} : /\ mgrActive'[<<h, 0>>] = mgrActive[<<h, 0>>] /\ mgrUuid'[<<h, 0>>] = mgrUuid[<<h, 0>>]
                              /\ mgrReached'[<<h, 0>>] = mgrReached[<<h, 0>>]
    BY <1>2, <1>5, <1>6, <2>1
  <2>4. \A m \in Modules : HubOf[m] \in Hubs
    BY Constants
  <2>5. MgrAt(k)' = 2 * b
    BY <1>2, <2>2 DEF MgrAt, Number
  <2>6. \A h \in Hubs \ {k} : MgrAt(h)' = MgrAt(h)
    BY <2>3 DEF MgrAt
  <2>7. \A m \in Modules : HubOf[m] # k => MgrOn(m)' = MgrOn(m) /\ HeldBack(m)' = HeldBack(m)
    BY <2>3, <2>4 DEF MgrOn, HeldBack
  <2>8. \A m \in Modules : HubOf[m] = k => ~HeldBack(m)'
    BY <1>2, <2>2 DEF HeldBack
  <2> QED BY <2>5, <2>6, <2>7, <2>8
<1>9. \A m \in Modules : StatusKept(m) /\ InKept(m) /\ In(m)' = In(m)
  BY <1>6, StatusSame, InSame
<1>10. MgrTakes(k)
  <2>1. UNCHANGED <<hub, outbox, delayed, answered, requested, pending, joined, killed>>
    BY <1>6 DEF script
  <2>2. ASSUME NEW m \in Modules, HubOf[m] # k
        PROVE  ManagerKept(m)
    <3>1. HubOf[m] \in Hubs
      BY Constants
    <3> QED BY <1>7, <1>8, <2>2, <3>1 DEF ManagerKept
  <2> QED BY <1>2, <1>8, <1>9, <2>1, <2>2 DEF MgrTakes
<1>11. \A m : x \notin SpawnOf(m)
  BY <1>2, OfTypes
<1>12. 2 * b <= HubAt(Master) /\ HubAt(Master) \in Nat
  <2>1. /\ HubAt(k) \in Nat /\ HubAt(Master) \in Nat /\ HubAt(k) <= HubAt(Master) /\ 2 * b <= HubAt(k)
    BY <1>2, <1>3, <1>4, <1>5 DEF Chain
  <2> QED BY ONLY <1>4, <2>1
<1>13. ASSUME NEW m \in Modules
       PROVE  In(m)' \in Seq(InKind(m, requested, killed))
  BY <1>5, <1>9 DEF Kinds
<1>14. ASSUME NEW m \in Modules, HubOf[m] = k
       PROVE  Mod(m)'
  <2>1. /\ Atoms(m) /\ Staged(m) /\ Tokens(m) /\ ExitOrder(m) /\ PastRight(m) /\ Works(m)
    BY BeforeHas
  <2>2. /\ HubKept(m) /\ TrackedKept(m) /\ BarrierKept(m) /\ OutKept(m) /\ OwnKept(m) /\ QueuesKept(m)
        /\ (m \in Expected \ reached)' = (m \in Expected \ reached)
        /\ joined' = joined /\ requested' = requested /\ HubAt(k)' = HubAt(k)
        /\ HubAt(Master)' = HubAt(Master) /\ active' = active
    BY <1>1, <1>2, <1>10, <1>11, MgrTakesFrame
  <2>3. StatusKept(m) /\ InKept(m)
    BY <1>9
  <2>4. MgrAt(HubOf[m])' = 2 * b /\ MgrAt(HubOf[m]) = 2 * b - 1
    BY <1>3, <1>4, <1>8, <1>14
  <2>5. \A c \in 1..requested : Answered(m, c) => Answered(m, c)'
    <3>1. \A c \in Int : 2 * c <= 2 * b - 1 \/ 2 * b - 1 + 1 = 2 * c => 2 * c <= 2 * b
      BY <1>4
    <3> QED BY <1>4, <2>4, <3>1 DEF Answered
  <2>6. ASSUME NEW c \in 1..requested, Running(m), joined[m] < c, Answered(m, c)'
        PROVE  Answered(m, c)
    <3>1. 2 * c <= 2 * b
      BY <1>4, <1>8, <1>14, <2>4, <2>6 DEF Answered
    <3>2. CASE c = b
      <4>1. Tracked(m)
        BY <2>1, <2>6, RunningOnly
      <4>2. Passed(m, c)
        BY <1>12, <3>2 DEF Passed
      <4> QED BY <2>1, <2>6, <4>1, <4>2 DEF PastRight
    <3>3. CASE c # b
      <4>1. 2 * c <= 2 * b - 1
        <5>1. c \in Int /\ b \in Int
          BY <1>4
        <5>2. c < b
          BY ONLY <3>1, <3>3, <5>1
        <5> QED BY ONLY <5>1, <5>2
      <4> QED BY <2>4, <4>1 DEF Answered
    <3> QED BY <3>2, <3>3
  <2>7. PastRight(m)'
    BY <1>4, <1>7, <1>14, <2>1, <2>2, <2>5, PastRightAtManager
  <2>8. Works(m)'
    BY <1>4, <1>7, <2>1, <2>2, <2>6 DEF Works, OutKept, OwnKept
  <2>9. ExitOrder(m)'
    BY <2>1, <2>2, ExitOrderFrame
  <2>10. Staged(m)'
    <3>1. Running(m)' => 2 * joined'[m] <= MgrAt(HubOf[m])' + 1
      <4>1. Running(m) => 2 * joined[m] <= MgrAt(HubOf[m]) + 1
        BY <2>1 DEF Staged
      <4>2. joined[m] \in 0..requested
        BY <2>1 DEF Atoms
      <4> QED BY <1>4, <1>7, <2>2, <2>4, <4>1, <4>2
    <3> QED BY <1>7, <1>8, <1>14, <2>1, <2>2, <2>3, <3>1
            DEF Staged, TrackedKept, OutKept, OwnKept, QueuesKept, StatusKept, InKept
  <2>11. Tokens(m)'
    <3>1. Waits(m)' = Waits(m) /\ Late(m)' = Late(m) /\ Answers(m)' = Answers(m)
      BY <2>2, <2>3 DEF Waits, StatusKept, OwnKept, Late, QueuesKept, OutKept
    <3>2. Early(m)' = Early(m)
      BY <2>3, <3>1 DEF Early, InKept
    <3>3. Early(m) # 1
      BY <1>4, <1>12, <2>1, <2>4 DEF Tokens
    <3> QED BY <2>1, <2>2, <3>1, <3>2, <3>3 DEF Tokens, OwnKept
  <2> QED BY <2>7, <2>8, <2>9, <2>10, <2>11 DEF Mod
<1>15. Brings(Tail(ToMgrQ(k)), MgrAt(k)', HubAt(k), joined)
  BY <1>3, <1>4, <1>8
<1> QED BY <1>2, <1>10, <1>13, <1>14, <1>15, ManagerStep

(* A module is started.                                                    *)
LEMMA MgrSpawnRight ==
  ASSUME Before, NEW g \in Managers, MgrSpawn(g)
  PROVE  Core'
<1>0. PICK k : k = g[1]
  OBVIOUS
<1>1. PICK x : x = Head(ToMgrQ(k))
  OBVIOUS
<1>2. /\ k \in Hubs /\ g = <<k, 0>> /\ ToMgrQ(k) # <<>> /\ x = Head(link[Source(g)]) /\ x.type = "Spawn"
      /\ \A h \in Hubs : /\ DownQ(h)' = DownQ(h) /\ UpQ(h)' = UpQ(h) /\ FromMgrQ(h)' = FromMgrQ(h)
                         /\ ToMgrQ(h)' = IF h = k THEN Tail(ToMgrQ(h)) ELSE ToMgrQ(h)
  <2>1. Arrived(g, "Spawn") /\ \E msgs : Transmit(Source(g), Ranked(g, msgs))
    BY DEF MgrSpawn
  <2> QED BY <1>0, <1>1, <2>1, ArrivedAt
<1>3. /\ Brings(Tail(ToMgrQ(k)), MgrAt(k), HubAt(k), joined) /\ 2 * joined[x.module] <= MgrAt(k) + 1
  BY <1>1, <1>2, NextForManager
<1>4. PICK n : n = x.module
  OBVIOUS
<1>5. /\ Typed /\ OneRank /\ Chain /\ Kinds /\ StartedOnce /\ Master \in Hubs /\ g \in Managers /\ requested \in Nat
      /\ \A h \in Hubs : <<h, 0>> \in Managers
  BY BeforeHas, Constants DEF Before
<1>6. /\ n \in Modules /\ HubOf[n] = k /\ x = To("Spawn", n) /\ Spawns(n) = 1 /\ NotYet(n)
      /\ \A m \in Modules : Spawns(m)' = Spawns(m) - (IF m = n THEN 1 ELSE 0)
  <2>1. /\ n \in Modules /\ g = <<HubOf[n], 0>> /\ x = To("Spawn", n) /\ Spawns(n) = 1 /\ NotYet(n)
        /\ \A h \in Hubs, m \in Modules :
             SpawnsAt(h, m)' = SpawnsAt(h, m) - (IF h = HubOf[n] /\ m = n THEN 1 ELSE 0)
    BY <1>2, <1>4, <1>5, MgrSpawnSpawns
  <2>2. \A m \in Modules : Spawns(m) = SpawnsAt(HubOf[m], m) /\ Spawns(m)' = SpawnsAt(HubOf[m], m)' /\ HubOf[m] \in Hubs
    BY Constants DEF Spawns
  <2> QED BY <1>0, <2>1, <2>2
<1>7. /\ runningMap' = [runningMap EXCEPT ![g][n] = "running"]
      /\ alive' = [alive EXCEPT ![n] = "up"]
      /\ UNCHANGED <<hub, mgrActive, mgrUuid, mgrReached, inbox, outbox, upstream, delayed, answered, script>>
  <2>1. \A f \in Managers \ {g} : f[1] # g[1]
    BY <1>2, <1>5, OneManager
  <2> QED BY <1>2, <1>4, <2>1 DEF MgrSpawn
<1>8. /\ \A m \in Modules : MgrOn(m)' = MgrOn(m) /\ HeldBack(m)' = HeldBack(m)
      /\ \A h \in Hubs : MgrAt(h)' = MgrAt(h)
      /\ \A m \in Modules \ {n} : Running(m)' = Running(m) /\ Broken(m)' = Broken(m)
      /\ Running(n)' /\ ~Broken(n)'
  <2>1. runningMap \in [Managers -> [Modules -> {"unknown", "running", "crashed"}]]
    BY <1>5 DEF Typed, ManagerTyped
  <2>2. \A m \in Modules : <<HubOf[m], 0>> \in Managers
    BY Constants
  <2>3. \A m \in Modules : runningMap'[<<HubOf[m], 0>>][m] = IF m = n THEN "running" ELSE runningMap[<<HubOf[m], 0>>][m]
    BY <1>2, <1>6, <1>7, <2>1, <2>2
  <2>4. (\A m \in Modules : MgrOn(m)' = MgrOn(m) /\ HeldBack(m)' = HeldBack(m)) /\ \A h \in Hubs : MgrAt(h)' = MgrAt(h)
    BY <1>7 DEF MgrOn, HeldBack, MgrAt
  <2>5. \A m \in Modules \ {n} : Running(m)' = Running(m) /\ Broken(m)' = Broken(m)
    BY <2>3 DEF Running, Broken
  <2>6. Running(n)' /\ ~Broken(n)'
    BY <1>6, <2>3 DEF Running, Broken
  <2> QED BY <2>4, <2>5, <2>6
<1>9. /\ \A m \in Modules : InKept(m) /\ In(m)' = In(m)
      /\ \A m \in Modules \ {n} : StatusKept(m)
      /\ IsUp(n)' /\ ~NotYet(n)' /\ ~Exited(n)'
  <2>1. DOMAIN alive = Modules
    BY <1>5 DEF Typed, ProcTyped
  <2>2. \A m \in Modules \ {n} : alive'[m] = alive[m]
    BY <1>7, <2>1
  <2>3. IsUp(n)' /\ ~NotYet(n)' /\ ~Exited(n)'
    BY <1>6, <1>7, <2>1 DEF IsUp, NotYet, Exited
  <2> QED BY <1>7, <2>2, <2>3, InSame, StatusUntouched
<1>10. MgrTakes(k)
  <2>1. UNCHANGED <<hub, outbox, delayed, answered, requested, pending, joined, killed>>
    BY <1>7 DEF script
  <2>2. ASSUME NEW m \in Modules, HubOf[m] # k
        PROVE  ManagerKept(m)
    <3>1. HubOf[m] \in Hubs /\ m # n
      BY <1>6, <2>2, Constants
    <3> QED BY <1>8, <3>1 DEF ManagerKept
  <2>3. \A m \in Modules : HubOf[m] # k => m # n
    BY <1>6
  <2> QED BY <1>2, <1>8, <1>9, <2>1, <2>2, <2>3 DEF MgrTakes
<1>11. ASSUME NEW m \in Modules
       PROVE  In(m)' \in Seq(InKind(m, requested, killed))
  BY <1>5, <1>9 DEF Kinds
<1>12. ASSUME NEW m \in Modules \ {n}, HubOf[m] = k
       PROVE  Mod(m)'
  <2>1. x \notin SpawnOf(m)
    BY <1>4, <1>12, OfTypes
  <2>2. HubKept(m) /\ OutKept(m) /\ OwnKept(m) /\ QueuesKept(m)
    BY <1>1, <1>2, <1>10, <2>1, MgrTakesFrame
  <2>3. ManagerKept(m)
    BY <1>2, <1>8, <1>12 DEF ManagerKept
  <2>4. ModSame(m)
    BY <1>9, <2>2, <2>3 DEF ModSame, ProcKept
  <2> QED BY <1>5, <2>4, ModFrame, BeforeHas
<1>13. Mod(n)'
  <2>1. /\ Atoms(n) /\ Staged(n) /\ Tokens(n) /\ ExitOrder(n) /\ PastRight(n) /\ Works(n)
    BY <1>6, BeforeHas
  <2>2. /\ TrackedKept(n) /\ BarrierKept(n) /\ OutKept(n) /\ OwnKept(n)
        /\ (n \in Expected \ reached)' = (n \in Expected \ reached)
        /\ ExitsF(n)' = ExitsF(n) /\ ExitsU(n)' = ExitsU(n)
        /\ AnswersF(n)' = AnswersF(n) /\ AnswersU(n)' = AnswersU(n) /\ UpOrder(n)' = UpOrder(n)
        /\ joined' = joined /\ requested' = requested /\ HubAt(k)' = HubAt(k)
        /\ HubAt(Master)' = HubAt(Master) /\ active' = active
    BY <1>2, <1>6, <1>10, MgrTakesFrame
  <2>3. Spawns(n)' = 0 /\ Late(n)' = Late(n)
    BY <1>6, <2>2 DEF Late
  <2>4. ~Running(n) /\ ExitsF(n) = 0 /\ ExitsU(n) = 0 /\ Tracked(n) /\ ~HeldBack(n)
    <3>1. One(Tracked(n)) = 0 \/ (One(Tracked(n)) = 1 /\ Tracked(n))
      BY DEF One
    <3>2. One(Running(n)) = 0 => ~Running(n)
      BY DEF One
    <3>3. One(Running(n)) \in Nat
      BY DEF One
    <3>4. Spawns(n) + One(Running(n)) + ExitsF(n) + ExitsU(n) = One(Tracked(n)) /\ (HeldBack(n) => Running(n))
      BY <2>1 DEF Staged
    <3>5. ExitsF(n) \in Nat /\ ExitsU(n) \in Nat
      BY <2>1 DEF Atoms
    <3>6. Spawns(n) = 1
      BY <1>6
    <3> QED BY ONLY <3>1, <3>2, <3>3, <3>4, <3>5, <3>6
  <2>5. In(n) = <<>> /\ Out(n) = <<>> /\ Deferred(n) = 0
    BY <1>6, <2>1 DEF Staged
  <2>6. Asked(n) = 0 /\ Answers(n) = 0 /\ Exits(n) = 0
    BY <2>5, CountSingle DEF Asked, Answers, Exits
  <2>7. ~Waits(n) /\ ~Waits(n)'
    BY <2>2, <2>5 DEF Waits, OwnKept
  <2>8. \A b \in 1..requested : joined[n] < b => ~Passed(n, b)
    BY <1>6, <2>1, <2>4 DEF PastRight
  <2>9. \A b \in 1..requested : joined[n] < b => ~Answered(n, b)'
    <3>1. MgrAt(HubOf[n])' = MgrAt(k) /\ ~HeldBack(n)'
      BY <1>2, <1>6, <1>8, <2>4
    <3>2. MgrAt(k) \in Nat /\ HubAt(k) \in Nat /\ HubAt(Master) \in Nat /\ MgrAt(k) <= HubAt(k) /\ HubAt(k) <= HubAt(Master)
      BY <1>2, <1>5 DEF Chain
    <3>3. \A b \in Int : 2 * b <= MgrAt(k) => 2 * b <= HubAt(Master)
      BY ONLY <3>2
    <3> QED BY <1>5, <2>8, <3>1, <3>3 DEF Answered, Passed
  <2>10. Staged(n)'
    <3>1. One(Running(n)') = 1 /\ One(Tracked(n)') = 1
      BY <1>8, <2>2, <2>4 DEF One, TrackedKept
    <3>2. Spawns(n)' + One(Running(n)') + ExitsF(n)' + ExitsU(n)' = One(Tracked(n)')
      BY <2>2, <2>3, <2>4, <3>1
    <3>3. 2 * joined'[n] <= MgrAt(HubOf[n])' + 1
      BY <1>2, <1>3, <1>4, <1>6, <1>8, <2>2
    <3>4. Exits(n)' = 0 /\ ExitLast(n)' /\ Tracked(n)' /\ ~HeldBack(n)'
      BY <1>6, <1>8, <2>1, <2>2, <2>4, <2>6 DEF Staged, OutKept, TrackedKept
    <3> QED BY ONLY <1>8, <1>9, <3>2, <3>3, <3>4 DEF Staged
  <2>11. Tokens(n)'
    <3>1. One(Waits(n)') = 0
      BY <2>7 DEF One
    <3>2. Early(n)' = 0
      BY <1>6, <1>9, <2>2, <2>6, <3>1 DEF Early, InKept, OutKept
    <3>3. Early(n) = 0
      <4>1. One(Waits(n)) = 0
        BY <2>7 DEF One
      <4> QED BY <2>6, <4>1 DEF Early
    <3> QED BY <2>1, <2>2, <2>3, <2>7, <3>2, <3>3 DEF Tokens
  <2>12. ExitOrder(n)'
    BY <2>1, <2>2 DEF ExitOrder
  <2>13. PastRight(n)'
    <3>1. \A b : Passed(n, b)' = Passed(n, b)
      BY <2>2, <2>3 DEF Passed, BarrierKept
    <3> QED BY <2>2, <2>8, <3>1 DEF PastRight
  <2>14. Works(n)'
    BY <2>1, <2>2, <2>6, <2>9 DEF Works, OutKept
  <2> QED BY <2>10, <2>11, <2>12, <2>13, <2>14 DEF Mod
<1>14. Brings(Tail(ToMgrQ(k)), MgrAt(k)', HubAt(k), joined)
  BY <1>2, <1>3, <1>8
<1> QED BY <1>2, <1>10, <1>11, <1>12, <1>13, <1>14, ManagerStep

(* A message for one of its modules.                                       *)
LEMMA MgrToModuleRight ==
  ASSUME Before, NEW g \in Managers, MgrToModule(g)
  PROVE  Core'
<1>0. PICK k : k = g[1]
  OBVIOUS
<1>1. PICK x : x = Head(ToMgrQ(k))
  OBVIOUS
<1>2. /\ k \in Hubs /\ g = <<k, 0>> /\ ToMgrQ(k) # <<>> /\ x = Head(link[Source(g)]) /\ x.type \in {"Kill", "Upstream"}
      /\ \A h \in Hubs : /\ DownQ(h)' = DownQ(h) /\ UpQ(h)' = UpQ(h) /\ FromMgrQ(h)' = FromMgrQ(h)
                         /\ ToMgrQ(h)' = IF h = k THEN Tail(ToMgrQ(h)) ELSE ToMgrQ(h)
  <2>1. (\E type \in {"Kill", "Upstream"} : Arrived(g, type)) /\ \E msgs : Transmit(Source(g), Ranked(g, msgs))
    BY DEF MgrToModule
  <2> QED BY <1>0, <1>1, <2>1, ArrivedAt
<1>3. x \in DownKind(requested, killed) /\ Brings(Tail(ToMgrQ(k)), MgrAt(k), HubAt(k), joined)
  BY <1>1, <1>2, NextForManager
<1>4. PICK n : n = x.module
  OBVIOUS
<1>5. /\ Typed /\ OneRank /\ Chain /\ Kinds /\ Master \in Hubs /\ g \in Managers
  BY BeforeHas, Constants
<1>6. /\ SendModules(g, LocalModules(g) \cap {n}, x)
      /\ UNCHANGED <<hub, mgrActive, mgrUuid, mgrReached, runningMap, outbox, upstream, delayed, answered, alive, script>>
  BY <1>2, <1>4 DEF MgrToModule, process, manager
<1>7. (\A h \in Hubs : MgrAt(h)' = MgrAt(h)) /\ \A m \in Modules : ManagerKept(m)
  BY <1>6, ManagerUntouched DEF manager
<1>8. \A m \in Modules :
        \/ m = n /\ In(m)' = Append(In(m), x) /\ ~NotYet(m) /\ ~Exited(m)
        \/ In(m)' = In(m) /\ InKept(m)
  <2>1. ASSUME NEW m \in Modules, HubOf[m] = k, m \in LocalModules(g), NotYet(m) \/ IsUp(m)
        PROVE  ~NotYet(m) /\ ~Exited(m)
    <3>1. Running(m)
      BY <1>2, <2>1 DEF LocalModules, Running
    <3>2. Staged(m) /\ Atoms(m)
      BY BeforeHas
    <3> QED BY <2>1, <3>1, <3>2 DEF Staged, Atoms
  <2> QED BY <1>0, <1>5, <1>6, <2>1, ModulesGet
<1>9. \A m \in Modules : StatusKept(m)
  BY <1>6, StatusSame
<1>10. \A m : x \notin SpawnOf(m)
  BY <1>2, OfTypes
<1>11. x \notin Barriers /\ \A m \in Modules : m = n => x \in InKind(m, requested, killed)
  <2>1. x \notin Barriers
    BY <1>2, OfTypes
  <2>2. \/ x \in {To("Upstream", m) : m \in Modules}
        \/ x \in {To("Kill", m) : m \in killed}
    <3>1. \A c : BarrierMsg(c).type = "Barrier" /\ Reached(c, HubId).type = "BarrierReached"
      BY DEF BarrierMsg, Reached
    <3>2. \A m : To("Spawn", m).type = "Spawn"
      BY DEF To
    <3> QED BY <1>2, <1>3, <3>1, <3>2 DEF DownKind
  <2>3. x = To("Upstream", n) \/ (x = To("Kill", n) /\ n \in killed)
    <3>1. \A m : To("Upstream", m).module = m /\ To("Kill", m).module = m
      BY DEF To
    <3> QED BY <1>4, <2>2, <3>1
  <2> QED BY <2>1, <2>3 DEF InKind
<1>12. MgrTakes(k)
  <2>1. UNCHANGED <<hub, outbox, delayed, answered, requested, pending, joined, killed>>
    BY <1>6 DEF script
  <2>2. ASSUME NEW m \in Modules, HubOf[m] # k
        PROVE  InKept(m)
    BY <1>0, <1>5, <1>6, <2>2, ModulesGet
  <2> QED BY <1>2, <1>7, <1>9, <2>1, <2>2 DEF MgrTakes
<1>13. ASSUME NEW m \in Modules
       PROVE  In(m)' \in Seq(InKind(m, requested, killed))
  BY <1>5, <1>8, <1>11, SeqAppended DEF Kinds
<1>14. ASSUME NEW m \in Modules, HubOf[m] = k
       PROVE  Mod(m)'
  <2>1. /\ Atoms(m) /\ Staged(m) /\ Tokens(m) /\ ExitOrder(m) /\ PastRight(m) /\ Works(m)
    BY BeforeHas
  <2>2. /\ HubKept(m) /\ TrackedKept(m) /\ BarrierKept(m) /\ OutKept(m) /\ OwnKept(m) /\ QueuesKept(m)
        /\ (m \in Expected \ reached)' = (m \in Expected \ reached)
        /\ joined' = joined /\ requested' = requested
    BY <1>1, <1>2, <1>10, <1>12, MgrTakesFrame
  <2>3. StatusKept(m) /\ ManagerKept(m)
    BY <1>7, <1>9
  <2>4. Asked(m)' = Asked(m)
    <3>1. CASE In(m)' = Append(In(m), x)
      <4>1. In(m) \in Seq(InKind(m, requested, killed))
        BY <1>5 DEF Kinds
      <4>2. Asked(m)' = Asked(m) + One(x \in Barriers)
        BY <3>1, <4>1, CountAppend DEF Asked
      <4>3. One(x \in Barriers) = 0 /\ Asked(m) \in Nat
        BY <1>11, <2>1 DEF One, Atoms
      <4> QED BY <4>2, <4>3
    <3>2. CASE InKept(m)
      BY <3>2 DEF InKept
    <3> QED BY <1>8, <3>1, <3>2
  <2>5. NotYet(m) \/ Exited(m) => In(m)' = In(m)
    BY <1>8
  <2>6. Staged(m)'
    BY <2>1, <2>2, <2>3, <2>5 DEF Staged, ManagerKept, TrackedKept, OutKept, OwnKept, QueuesKept, StatusKept
  <2>7. Tokens(m)'
    <3>1. Waits(m)' = Waits(m) /\ Late(m)' = Late(m) /\ Answers(m)' = Answers(m)
      BY <2>2, <2>3 DEF Waits, StatusKept, OwnKept, Late, QueuesKept, OutKept
    <3>2. Early(m)' = Early(m)
      BY <2>4, <3>1 DEF Early
    <3> QED BY <2>1, <2>2, <2>3, <3>1, <3>2 DEF Tokens, OwnKept, ManagerKept, BarrierKept
  <2>8. ExitOrder(m)' /\ PastRight(m)'
    BY <1>5, <2>1, <2>2, <2>3, ExitOrderFrame, PastRightFrame
  <2>9. Works(m)'
    BY <2>1, <2>2, <2>3, WorksFrame
  <2> QED BY <2>6, <2>7, <2>8, <2>9 DEF Mod
<1>15. Brings(Tail(ToMgrQ(k)), MgrAt(k)', HubAt(k), joined)
  BY <1>2, <1>3, <1>7
<1> QED BY <1>2, <1>12, <1>13, <1>14, <1>15, ManagerStep

(* A manager that nobody tells of an exit: hubs do only if a module has    *)
(* crashed.                                                                *)
LEMMA NoExitDown ==
  ASSUME Before, NEW g \in Managers, MgrModuleExit(g)
  PROVE  FALSE
<1>1. PICK x : x = Head(ToMgrQ(g[1]))
  OBVIOUS
<1>2. g[1] \in Hubs /\ ToMgrQ(g[1]) # <<>> /\ x.type \in {"ModuleExit", "Forwarded"}
  <2>1. Typed /\ OneRank
    BY BeforeHas
  <2>2. g[1] \in Hubs /\ Source(g) = ToManager(g[1])
    BY <2>1, OneManager
  <2>3. \E type \in {"ModuleExit", "Forwarded"} : Arrived(g, type)
    BY DEF MgrModuleExit
  <2> QED BY <1>1, <2>2, <2>3 DEF Arrived, AtHead, ToMgrQ
<1>3. x \in DownKind(requested, killed)
  BY <1>1, <1>2, NextForManager
<1>4. \A c : BarrierMsg(c).type = "Barrier" /\ Reached(c, HubId).type = "BarrierReached"
  BY DEF BarrierMsg, Reached
<1>5. \A m : To("Spawn", m).type = "Spawn" /\ To("Upstream", m).type = "Upstream" /\ To("Kill", m).type = "Kill"
  BY DEF To
<1> QED BY <1>2, <1>3, <1>4, <1>5 DEF DownKind

(* Nobody is held back who has exited.                                     *)
LEMMA NoneDropped ==
  ASSUME Before, NEW p \in Procs, DropHeld(p)
  PROVE  FALSE
<1>1. PICK n : n = p[1]
  OBVIOUS
<1>2. n \in Modules /\ ManagerOf(p) = <<HubOf[n], 0>>
  BY <1>1, BeforeHas, OneManager
<1>3. HeldBack(n) /\ ~Running(n)
  BY <1>1, <1>2 DEF DropHeld, Held, HeldBack, Running
<1> QED BY <1>2, <1>3, BeforeHas DEF Staged

-----------------------------------------------------------------------------
(* The hubs of slaves *)

(* A slave passes a message down to its manager.                           *)
LEMMA SlaveDownStep ==
  ASSUME Before, NEW s \in Slaves, NEW x, x = Head(DownQ(s)), link[Down(s)] # <<>>,
         Transmit(Down(s), Along(ToManager(s), <<x>>)),
         UNCHANGED <<participants, reached, tracked, manager, inbox, outbox, process, script>>,
         active'[Master] = active[Master], uuid'[Master] = uuid[Master],
         \A h \in Hubs \ {s} : HubAt(h)' = HubAt(h),
         HubAt(s)' \in Nat, HubAt(s) <= HubAt(s)', Brings(Tail(DownQ(s)), HubAt(s)', HubAt(Master), joined),
         Brings(Append(ToMgrQ(s), x), MgrAt(s), HubAt(s)', joined)
  PROVE  Core'
<1>1. /\ Typed /\ OneRank /\ MasterRight /\ Kinds /\ Ways /\ Chain /\ \A m \in Modules : Mod(m)
      /\ Master \in Hubs /\ s \in Hubs /\ s # Master /\ DownQ(s) = link[Down(s)]
  BY BeforeHas, Constants, QueueLinks DEF DownQ
<1>2. \A h \in Hubs :
        /\ DownQ(h)' = IF h = s THEN Tail(DownQ(h)) ELSE DownQ(h)
        /\ ToMgrQ(h)' = IF h = s THEN Append(ToMgrQ(h), x) ELSE ToMgrQ(h)
        /\ FromMgrQ(h)' = FromMgrQ(h) /\ UpQ(h)' = UpQ(h)
  BY <1>1, SlavePassesDown
<1>3. UNCHANGED <<participants, reached, tracked, manager, inbox, outbox, delayed, answered, alive,
                  requested, pending, joined, killed>>
  BY DEF process, script
<1>4. (\A h \in Hubs : MgrAt(h)' = MgrAt(h)) /\ \A m \in Modules : ManagerKept(m)
  BY <1>3, ManagerUntouched
<1>5. \A m \in Modules : ProcKept(m) /\ In(m)' = In(m) /\ Out(m)' = Out(m)
  BY <1>3, InSame, OutSame, OwnUntouched, StatusSame DEF ProcKept
<1>6. \A m \in Modules : TrackedKept(m)
  BY <1>3 DEF TrackedKept, Unknown, Tracked, Gone
<1>7. \A m \in Modules : BarrierKept(m)
  <2>1. \A h \in Hubs : HubAt(h)' \in Int /\ HubAt(h)' >= HubAt(h)
    <3>1. \A h \in Hubs : HubAt(h) \in Nat
      BY <1>1 DEF Chain
    <3>2. \A a, b \in Nat : a <= b => b >= a
      OBVIOUS
    <3> QED BY <1>1, <3>1, <3>2
  <2>2. \A m \in Modules : HubOf[m] \in Hubs /\ HubOf'[m] = HubOf[m]
    BY Constants
  <2>3. HubAt(Master)' = HubAt(Master)
    BY <1>1
  <2> QED BY <1>3, <2>1, <2>2, <2>3 DEF BarrierKept
<1>8. \A m \in Modules : QueuesKept(m)
  <2>1. ASSUME NEW m \in Modules
        PROVE  QueuesKept(m)
    <3>1. HubOf[m] \in Hubs
      BY Constants
    <3>2. Spawns(m)' = Spawns(m)
      BY <1>1, <3>1, SpawnsPassed DEF Spawns
    <3> QED BY <1>2, <3>1, <3>2, QueuesUntouched
  <2> QED BY <2>1
<1>9. \A m \in Modules : Mod(m)'
  <2>1. \A m \in Modules : ModSame(m)
    BY <1>4, <1>5, <1>6, <1>7, <1>8 DEF ModSame, HubKept
  <2> QED BY <1>1, <2>1, ModFrame
<1>10. MasterRight'
  BY <1>1, <1>3, <1>6, MasterUntouched DEF TrackedKept
<1>11. Ways'
  <2>1. ASSUME NEW h \in Hubs
        PROVE  Brings(DownQ(h)', HubAt(h)', HubAt(Master)', joined') /\ Brings(ToMgrQ(h)', MgrAt(h)', HubAt(h)', joined')
    <3>1. HubAt(Master)' = HubAt(Master) /\ joined' = joined /\ MgrAt(h)' = MgrAt(h)
      BY <1>1, <1>3, <1>4
    <3>2. CASE h = s
      <4>1. DownQ(h)' = Tail(DownQ(s)) /\ ToMgrQ(h)' = Append(ToMgrQ(s), x)
        BY <1>2, <3>2
      <4> QED BY <3>1, <3>2, <4>1
    <3>3. CASE h # s
      <4>1. DownQ(h)' = DownQ(h) /\ ToMgrQ(h)' = ToMgrQ(h) /\ HubAt(h)' = HubAt(h)
        BY <1>2, <3>3
      <4> QED BY <1>1, <3>1, <4>1 DEF Ways
    <3> QED BY <3>2, <3>3
  <2> QED BY <2>1 DEF Ways
<1>12. Kinds'
  <2>1. x \in DownKind(requested, killed)
    BY <1>1 DEF Kinds
  <2>2. ASSUME NEW h \in Hubs
        PROVE  DownQ(h)' \in Seq(DownKind(requested, killed)) /\ ToMgrQ(h)' \in Seq(DownKind(requested, killed))
    <3>1. DownQ(h) \in Seq(DownKind(requested, killed)) /\ ToMgrQ(h) \in Seq(DownKind(requested, killed))
      BY <1>1 DEF Kinds
    <3>2. CASE h = s
      <4>1. DownQ(h)' = Tail(DownQ(h)) /\ ToMgrQ(h)' = Append(ToMgrQ(h), x) /\ DownQ(h) # <<>>
        BY <1>1, <1>2, <3>2
      <4>2. Append(ToMgrQ(h), x) \in Seq(DownKind(requested, killed))
        BY <2>1, <3>1, SeqAppended
      <4>3. Tail(DownQ(h)) \in Seq(DownKind(requested, killed))
        BY <3>1, <4>1
      <4> QED BY <4>1, <4>2, <4>3
    <3>3. CASE h # s
      BY <1>2, <3>1, <3>3
    <3> QED BY <3>2, <3>3
  <2> QED BY <1>1, <1>2, <1>3, <1>5, <2>2 DEF Kinds
<1> QED BY <1>9, <1>10, <1>11, <1>12, CoreNext

(* The number of events that hubs have heard of, when one hears of x.      *)
LEMMA HubHears ==
  ASSUME Typed, NEW s \in Slaves, NEW told \in BOOLEAN, NEW b, active' = [active EXCEPT ![s] = told],
         uuid' = [uuid EXCEPT ![s] = b]
  PROVE  /\ HubAt(s)' = Number(told, b) /\ active'[Master] = active[Master] /\ uuid'[Master] = uuid[Master]
         /\ \A h \in Hubs \ {s} : HubAt(h)' = HubAt(h)
<1>1. DOMAIN active = Hubs /\ DOMAIN uuid = Hubs /\ s \in Hubs /\ s # Master /\ Master \in Hubs
  BY Constants DEF Typed, HubTyped
<1>2. active'[s] = told /\ uuid'[s] = b
  BY <1>1
<1>3. \A h \in Hubs \ {s} : active'[h] = active[h] /\ uuid'[h] = uuid[h]
  BY <1>1
<1> QED BY <1>1, <1>2, <1>3 DEF HubAt

(* SlaveBarrier keeps the invariant.                                       *)
LEMMA SlaveBarrierRight ==
  ASSUME Before, NEW s \in Slaves, SlaveBarrier(s)
  PROVE  Core'
<1>1. PICK x : x = Head(link[Down(s)])
  OBVIOUS
<1>2. /\ Typed /\ Ways /\ Chain /\ requested \in Nat /\ s \in Hubs /\ s # Master /\ DownQ(s) = link[Down(s)]
  BY BeforeHas, QueueLinks DEF DownQ
<1>3. /\ link[Down(s)] # <<>> /\ x.type = "Barrier" /\ active' = [active EXCEPT ![s] = TRUE]
      /\ uuid' = [uuid EXCEPT ![s] = x.id] /\ Transmit(Down(s), Along(ToManager(s), <<x>>))
      /\ UNCHANGED <<participants, reached, tracked, manager, inbox, outbox, process, script>>
  BY <1>1 DEF SlaveBarrier, AtHead
<1>4. /\ x.id \in 1..requested /\ HubAt(s) = 2 * x.id - 2
      /\ Brings(Tail(DownQ(s)), 2 * x.id - 1, HubAt(Master), joined)
  BY <1>1, <1>2, <1>3, NextForHub
<1>5. PICK b \in Nat : b = x.id /\ b > 0
  BY <1>2, <1>4
<1>6. /\ HubAt(s)' = 2 * b - 1 /\ active'[Master] = active[Master] /\ uuid'[Master] = uuid[Master]
      /\ \A h \in Hubs \ {s} : HubAt(h)' = HubAt(h)
  BY <1>2, <1>3, <1>5, HubHears DEF Number
<1>7. HubAt(s)' \in Nat /\ HubAt(s) <= HubAt(s)' /\ HubAt(s) = 2 * b - 2 /\ HubAt(s) \in Nat /\ HubAt(s) + 1 = 2 * b - 1
  BY <1>4, <1>5, <1>6
<1>8. Brings(Append(ToMgrQ(s), x), MgrAt(s), HubAt(s)', joined)
  <2>1. Brings(ToMgrQ(s), MgrAt(s), HubAt(s), joined) /\ ToMgrQ(s) \in Seq(DownMsgs(requested))
    BY <1>2, QueuesTyped DEF Ways
  <2>2. IsEvent(x) /\ Event(x) = HubAt(s) + 1
    BY <1>3, <1>5, <1>7 DEF IsEvent, Event, Number
  <2>3. Brings(Append(ToMgrQ(s), x), MgrAt(s), HubAt(s) + 1, joined)
    BY <1>7, <2>1, <2>2, BringsEvent
  <2> QED BY <1>6, <1>7, <2>3
<1>9. Brings(Tail(DownQ(s)), HubAt(s)', HubAt(Master), joined)
  BY <1>4, <1>5, <1>6
<1> QED BY <1>1, <1>2, <1>3, <1>6, <1>7, <1>8, <1>9, SlaveDownStep

(* SlaveBarrierReached keeps the invariant.                                *)
LEMMA SlaveBarrierReachedRight ==
  ASSUME Before, NEW s \in Slaves, SlaveBarrierReached(s)
  PROVE  Core'
<1>1. PICK x : x = Head(link[Down(s)])
  OBVIOUS
<1>2. /\ Typed /\ Ways /\ Chain /\ requested \in Nat /\ s \in Hubs /\ s # Master /\ DownQ(s) = link[Down(s)]
  BY BeforeHas, QueueLinks DEF DownQ
<1>3. /\ link[Down(s)] # <<>> /\ x.type = "BarrierReached" /\ active' = [active EXCEPT ![s] = FALSE]
      /\ uuid' = uuid /\ Transmit(Down(s), Along(ToManager(s), <<x>>))
      /\ UNCHANGED <<participants, reached, tracked, manager, inbox, outbox, process, script>>
  BY <1>1 DEF SlaveBarrierReached, AtHead
<1>4. /\ x.id \in 1..requested /\ HubAt(s) = 2 * x.id - 1 /\ uuid[s] = x.id
      /\ Brings(Tail(DownQ(s)), 2 * x.id, HubAt(Master), joined)
  BY <1>1, <1>2, <1>3, NextForHub
<1>5. PICK b \in Nat : b = x.id /\ b > 0
  BY <1>2, <1>4
<1>6. /\ HubAt(s)' = 2 * b /\ active'[Master] = active[Master] /\ uuid'[Master] = uuid[Master]
      /\ \A h \in Hubs \ {s} : HubAt(h)' = HubAt(h)
  <2>1. DOMAIN uuid = Hubs /\ uuid = [h \in Hubs |-> uuid[h]]
    BY <1>2 DEF Typed, HubTyped
  <2>2. uuid' = [uuid EXCEPT ![s] = b]
    BY <1>2, <1>3, <1>4, <1>5, <2>1
  <2> QED BY <1>2, <1>3, <2>2, HubHears DEF Number
<1>7. HubAt(s)' \in Nat /\ HubAt(s) <= HubAt(s)' /\ HubAt(s) = 2 * b - 1 /\ HubAt(s) \in Nat /\ HubAt(s) + 1 = 2 * b
  BY <1>4, <1>5, <1>6
<1>8. Brings(Append(ToMgrQ(s), x), MgrAt(s), HubAt(s)', joined)
  <2>1. Brings(ToMgrQ(s), MgrAt(s), HubAt(s), joined) /\ ToMgrQ(s) \in Seq(DownMsgs(requested))
    BY <1>2, QueuesTyped DEF Ways
  <2>2. IsEvent(x) /\ Event(x) = HubAt(s) + 1
    BY <1>3, <1>5, <1>7 DEF IsEvent, Event, Number
  <2>3. Brings(Append(ToMgrQ(s), x), MgrAt(s), HubAt(s) + 1, joined)
    BY <1>7, <2>1, <2>2, BringsEvent
  <2> QED BY <1>6, <1>7, <2>3
<1>9. Brings(Tail(DownQ(s)), HubAt(s)', HubAt(Master), joined)
  BY <1>4, <1>5, <1>6
<1> QED BY <1>1, <1>2, <1>3, <1>6, <1>7, <1>8, <1>9, SlaveDownStep

(* RelayDown keeps the invariant.                                          *)
LEMMA RelayDownRight ==
  ASSUME Before, NEW s \in Slaves, RelayDown(s)
  PROVE  Core'
<1>1. PICK x : x = Head(link[Down(s)])
  OBVIOUS
<1>2. /\ Typed /\ Ways /\ Chain /\ requested \in Nat /\ s \in Hubs /\ s # Master /\ DownQ(s) = link[Down(s)]
      /\ HubAt(s) \in Nat
  BY BeforeHas, QueueLinks DEF DownQ, Chain
<1>3. /\ link[Down(s)] # <<>> /\ x.type \in {"Spawn", "Kill", "Upstream"}
      /\ Transmit(Down(s), Along(ToManager(s), <<x>>))
      /\ UNCHANGED <<hub, manager, inbox, outbox, process, script>>
  BY <1>1 DEF RelayDown, AtHead
<1>4. UNCHANGED <<active, uuid, participants, reached, tracked>>
  BY <1>3 DEF hub
<1>5. /\ Brings(Tail(DownQ(s)), HubAt(s), HubAt(Master), joined)
      /\ x.type = "Spawn" => 2 * joined[x.module] <= HubAt(s) + 1
  BY <1>1, <1>2, <1>3, NextForHub
<1>6. \A h \in Hubs : HubAt(h)' = HubAt(h)
  BY <1>4 DEF HubAt
<1>7. Brings(Append(ToMgrQ(s), x), MgrAt(s), HubAt(s), joined)
  <2>1. Brings(ToMgrQ(s), MgrAt(s), HubAt(s), joined) /\ ToMgrQ(s) \in Seq(DownMsgs(requested))
    BY <1>2, QueuesTyped DEF Ways
  <2>2. ~IsEvent(x)
    BY <1>3 DEF IsEvent
  <2> QED BY <1>2, <1>5, <2>1, <2>2, BringsOther
<1>8. HubAt(s)' \in Nat /\ HubAt(s) <= HubAt(s)' /\ HubAt(s)' = HubAt(s)
  BY <1>2, <1>6
<1>9. Brings(Append(ToMgrQ(s), x), MgrAt(s), HubAt(s)', joined) /\ Brings(Tail(DownQ(s)), HubAt(s)', HubAt(Master), joined)
  BY <1>5, <1>7, <1>8
<1> QED BY <1>1, <1>2, <1>3, <1>4, <1>6, <1>8, <1>9, SlaveDownStep

(* What a slave passes up.                                                 *)
Appends(s, q, y) == s = Append(q, y)
(* Messages about n, appended to a way up, change no count of another      *)
(* module and no order of its messages.                                    *)
LEMMA UpAppended ==
  ASSUME NEW X, NEW q \in Seq(X), NEW y, NEW s, Appends(s, q, y), NEW n, y \in ReachedBy(n) \/ y \in ExitOf(n),
         NEW m, m # n
  PROVE  /\ Count(s, ReachedBy(m)) = Count(q, ReachedBy(m))
         /\ Count(s, ExitOf(m)) = Count(q, ExitOf(m))
         /\ NoneAfter(q, ExitOf(m), ReachedBy(m)) => NoneAfter(s, ExitOf(m), ReachedBy(m))
<1>0. s = Append(q, y)
  BY DEF Appends
<1>1. y \notin ReachedBy(m) /\ y \notin ExitOf(m)
  <2>1. y \in ReachedBy(n) => y \notin ReachedBy(m) /\ y \notin ExitOf(m)
    BY OfTypes
  <2>2. y \in ExitOf(n) => y \notin ReachedBy(m) /\ y \notin ExitOf(m)
    BY OfTypes
  <2> QED BY <2>1, <2>2
<1>2. One(y \in ReachedBy(m)) = 0 /\ One(y \in ExitOf(m)) = 0
  BY <1>1 DEF One
<1>3. /\ Count(s, ReachedBy(m)) = Count(q, ReachedBy(m)) + One(y \in ReachedBy(m)) /\ Count(q, ReachedBy(m)) \in Nat
      /\ Count(s, ExitOf(m)) = Count(q, ExitOf(m)) + One(y \in ExitOf(m)) /\ Count(q, ExitOf(m)) \in Nat
  BY <1>0, CountAppend
<1>4. NoneAfter(q, ExitOf(m), ReachedBy(m)) => NoneAfter(s, ExitOf(m), ReachedBy(m))
  BY <1>0, <1>1, NoneAfterAppend
<1> QED BY <1>2, <1>3, <1>4

(* A message on a way up is an answer or the exit of a module at that hub. *)
LEMMA UpKinded ==
  ASSUME NEW h \in Hubs, NEW b \in Nat, NEW x \in UpKind(h, b)
  PROVE  /\ \E n \in Modules : HubOf[n] = h /\ (x = Reached(b, n) \/ x = Exit(n, FALSE))
         /\ x.type \in {"BarrierReached", "ModuleExit"}
<1>1. \E n \in Modules : HubOf[n] = h /\ (x = Reached(b, n) \/ x = Exit(n, FALSE))
  BY DEF UpKind, At
<1>2. \A n : Reached(b, n).type = "BarrierReached" /\ Exit(n, FALSE).type = "ModuleExit"
  BY DEF Reached, Exit
<1> QED BY <1>1, <1>2

(* A slave passes up what is about module n.                               *)
LEMMA SlaveUpStep ==
  ASSUME Before, NEW s \in Slaves, NEW n \in Modules, HubOf[n] = s, FromMgrQ(s) # <<>>,
         UNCHANGED <<active, uuid, participants, reached, tracked, manager, inbox, outbox, process, script>>,
         Head(FromMgrQ(s)) \in ReachedBy(n) \cup ExitOf(n),
         \A h \in Hubs : /\ DownQ(h)' = DownQ(h) /\ ToMgrQ(h)' = ToMgrQ(h)
                         /\ FromMgrQ(h)' = IF h = s THEN Tail(FromMgrQ(h)) ELSE FromMgrQ(h)
                         /\ h # s => UpQ(h)' = UpQ(h),
         UpQ(s)' \in Seq(UpKind(s, requested)),
         \A m \in Modules \ {n} : HubOf[m] = s =>
           AnswersU(m)' = AnswersU(m) /\ ExitsU(m)' = ExitsU(m) /\ (UpOrder(m) => UpOrder(m)'),
         Mod(n)'
  PROVE  Core'
<1>1. /\ Typed /\ OneRank /\ MasterRight /\ Kinds /\ Ways /\ Chain /\ \A m \in Modules : Mod(m)
      /\ Master \in Hubs /\ s \in Hubs
  BY BeforeHas, Constants, QueueLinks
<1>2. UNCHANGED <<active, uuid, participants, reached, tracked, inbox, outbox, delayed, answered, alive,
                  requested, pending, joined, killed>>
  BY DEF hub, process, script
<1>3. (\A h \in Hubs : MgrAt(h)' = MgrAt(h) /\ HubAt(h)' = HubAt(h)) /\ \A m \in Modules : ManagerKept(m) /\ HubKept(m)
  BY <1>1, <1>2, ManagerUntouched, HubUntouched
<1>4. \A m \in Modules : ProcKept(m) /\ In(m)' = In(m) /\ Out(m)' = Out(m)
  BY <1>2, InSame, OutSame, OwnUntouched, StatusSame DEF ProcKept
<1>5. ASSUME NEW m \in Modules \ {n}
      PROVE  QueuesKept(m)
  <2>1. HubOf[m] \in Hubs /\ DownQ(HubOf[m])' = DownQ(HubOf[m]) /\ ToMgrQ(HubOf[m])' = ToMgrQ(HubOf[m])
    BY Constants
  <2>2. Spawns(m)' = Spawns(m)
    BY <2>1, SpawnsUntouched
  <2>3. CASE HubOf[m] # s
    BY <2>1, <2>2, <2>3, QueuesUntouched
  <2>4. CASE HubOf[m] = s
    <3>1. FromMgrQ(s) \in Seq(UpMsgs(requested)) /\ FromMgrQ(s)' = Tail(FromMgrQ(s))
      BY <1>1, QueuesTyped
    <3>2. Head(FromMgrQ(s)) \notin ReachedBy(m) /\ Head(FromMgrQ(s)) \notin ExitOf(m)
      <4>1. Head(FromMgrQ(s)) \in ReachedBy(n) => Head(FromMgrQ(s)) \notin ReachedBy(m) /\ Head(FromMgrQ(s)) \notin ExitOf(m)
        BY OfTypes
      <4>2. Head(FromMgrQ(s)) \in ExitOf(n) => Head(FromMgrQ(s)) \notin ReachedBy(m) /\ Head(FromMgrQ(s)) \notin ExitOf(m)
        BY OfTypes
      <4> QED BY <4>1, <4>2
    <3>3. One(Head(FromMgrQ(s)) \in ReachedBy(m)) = 0 /\ One(Head(FromMgrQ(s)) \in ExitOf(m)) = 0
      BY <3>2 DEF One
    <3>4. /\ Count(FromMgrQ(s), ReachedBy(m)) = Count(Tail(FromMgrQ(s)), ReachedBy(m)) + One(Head(FromMgrQ(s)) \in ReachedBy(m))
          /\ Count(FromMgrQ(s), ExitOf(m)) = Count(Tail(FromMgrQ(s)), ExitOf(m)) + One(Head(FromMgrQ(s)) \in ExitOf(m))
          /\ Count(Tail(FromMgrQ(s)), ReachedBy(m)) \in Nat /\ Count(Tail(FromMgrQ(s)), ExitOf(m)) \in Nat
      BY <3>1, CountTail
    <3>5. AnswersF(m)' = AnswersF(m) /\ ExitsF(m)' = ExitsF(m)
      BY <2>4, <3>1, <3>3, <3>4 DEF AnswersF, ExitsF
    <3> QED BY <2>2, <2>4, <3>5 DEF QueuesKept
  <2> QED BY <2>3, <2>4
<1>6. \A m \in Modules : Mod(m)'
  <2>1. ASSUME NEW m \in Modules \ {n}
        PROVE  Mod(m)'
    <3>1. ModSame(m)
      BY <1>3, <1>4, <1>5 DEF ModSame
    <3> QED BY <1>1, <3>1, ModFrame
  <2> QED BY <2>1
<1>7. MasterRight'
  BY <1>1, <1>2, <1>3, MasterUntouched DEF TrackedKept, HubKept
<1>8. Ways'
  BY <1>1, <1>2, <1>3, WaysUntouched
<1>9. Kinds'
  <2>1. ASSUME NEW h \in Hubs
        PROVE  FromMgrQ(h)' \in Seq(UpKind(h, requested)) /\ UpQ(h)' \in Seq(UpKind(h, requested))
    <3>1. FromMgrQ(h) \in Seq(UpKind(h, requested)) /\ UpQ(h) \in Seq(UpKind(h, requested))
      BY <1>1 DEF Kinds
    <3>2. CASE h = s
      <4>1. FromMgrQ(h)' = Tail(FromMgrQ(h)) /\ FromMgrQ(h) # <<>>
        BY <3>2
      <4>2. Tail(FromMgrQ(h)) \in Seq(UpKind(h, requested))
        BY <3>1, <4>1
      <4>3. UpQ(h)' \in Seq(UpKind(h, requested))
        BY <3>2
      <4> QED BY <4>1, <4>2, <4>3
    <3>3. CASE h # s
      BY <3>1, <3>3
    <3> QED BY <3>2, <3>3
  <2>2. \A h \in Hubs : UpKind(h, requested)' = UpKind(h, requested)
    BY <1>2 DEF UpKind, At
  <2> QED BY <1>1, <1>2, <1>4, <2>1, <2>2 DEF Kinds
<1> QED BY <1>6, <1>7, <1>8, <1>9, CoreNext

(* RelayUp keeps the invariant: an answer goes on, and is still counted    *)
(* once.                                                                   *)
LEMMA RelayUpRight ==
  ASSUME Before, NEW s \in Slaves, RelayUp(s)
  PROVE  Core'
<1>1. PICK x : x = Head(link[FromManager(s)])
  OBVIOUS
<1>2. /\ Typed /\ Kinds /\ Chain /\ requested \in Nat /\ s \in Hubs /\ s # Master /\ FromMgrQ(s) = link[FromManager(s)]
  BY BeforeHas, QueueLinks DEF FromMgrQ
<1>3. /\ FromMgrQ(s) # <<>> /\ x.type = "BarrierReached" /\ x = Head(FromMgrQ(s))
      /\ Transmit(FromManager(s), Along(Up(s), <<x>>))
      /\ UNCHANGED <<hub, manager, inbox, outbox, process, script>>
  BY <1>1, <1>2 DEF RelayUp, AtHead
<1>4. /\ FromMgrQ(s) \in Seq(UpKind(s, requested)) /\ UpQ(s) \in Seq(UpKind(s, requested))
      /\ x \in UpKind(s, requested)
  BY <1>2, <1>3 DEF Kinds
<1>5. PICK n \in Modules : HubOf[n] = s /\ (x = Reached(requested, n) \/ x = Exit(n, FALSE))
  BY <1>2, <1>4, UpKinded
<1>6. x = Reached(requested, n) /\ x \in ReachedBy(n) /\ x \notin ExitOf(n)
  <2>1. Exit(n, FALSE).type = "ModuleExit"
    BY DEF Exit
  <2>2. x = Reached(requested, n)
    BY <1>3, <1>5, <2>1
  <2> QED BY <1>2, <2>2, AboutOne
<1>7. /\ \A h \in Hubs : /\ DownQ(h)' = DownQ(h) /\ ToMgrQ(h)' = ToMgrQ(h)
                         /\ FromMgrQ(h)' = IF h = s THEN Tail(FromMgrQ(h)) ELSE FromMgrQ(h)
                         /\ h # s => UpQ(h)' = UpQ(h)
      /\ UpQ(s)' = Append(UpQ(s), x)
  <2>1. PICK msgs : msgs = <<x>>
    OBVIOUS
  <2>2. \A h \in Hubs :
          /\ DownQ(h)' = DownQ(h) /\ ToMgrQ(h)' = ToMgrQ(h)
          /\ FromMgrQ(h)' = IF h = s THEN Tail(FromMgrQ(h)) ELSE FromMgrQ(h)
          /\ UpQ(h)' = IF h = s THEN UpQ(h) \o msgs ELSE UpQ(h)
    BY <1>2, <1>3, <2>1, SlavePassesUp
  <2>3. UpQ(s) \o <<x>> = Append(UpQ(s), x)
    BY <1>4
  <2> QED BY <1>2, <2>1, <2>2, <2>3
<1>8. UpQ(s)' \in Seq(UpKind(s, requested))
  BY <1>4, <1>7, SeqAppended
<1>9. \A m \in Modules \ {n} : HubOf[m] = s =>
        AnswersU(m)' = AnswersU(m) /\ ExitsU(m)' = ExitsU(m) /\ (UpOrder(m) => UpOrder(m)')
  <2>1. ASSUME NEW m \in Modules \ {n}, HubOf[m] = s
        PROVE  AnswersU(m)' = AnswersU(m) /\ ExitsU(m)' = ExitsU(m) /\ (UpOrder(m) => UpOrder(m)')
    <3>1. HubOf'[m] = s
      BY <2>1
    <3>2. PICK q : q = Append(UpQ(s), x)
      OBVIOUS
    <3>3. /\ Count(q, ReachedBy(m)) = Count(UpQ(s), ReachedBy(m)) /\ Count(q, ExitOf(m)) = Count(UpQ(s), ExitOf(m))
          /\ NoneAfter(UpQ(s), ExitOf(m), ReachedBy(m)) => NoneAfter(q, ExitOf(m), ReachedBy(m))
      <4>1. UpQ(s) \in Seq(UpKind(s, requested)) /\ (x \in ReachedBy(n) \/ x \in ExitOf(n)) /\ m # n
        BY <1>4, <1>6, <2>1
      <4>2. Appends(q, UpQ(s), x)
        BY <3>2 DEF Appends
      <4> QED BY <4>1, <4>2, UpAppended
    <3> QED BY <1>7, <2>1, <3>2, <3>3 DEF AnswersU, ExitsU, UpOrder
  <2> QED BY <2>1
<1>10. /\ Atoms(n) /\ Staged(n) /\ Tokens(n) /\ ExitOrder(n) /\ PastRight(n) /\ Works(n)
       /\ AnswersU(n)' \in Nat /\ AnswersF(n)' \in Nat
  BY BeforeHas, AtomsThen DEF Atoms
<1>11. One(x \in ReachedBy(n)) = 1 /\ One(x \in ExitOf(n)) = 0
  BY <1>6 DEF One
<1>12. /\ AnswersF(n) = AnswersF(n)' + 1 /\ ExitsF(n)' = ExitsF(n)
       /\ AnswersU(n)' = AnswersU(n) + 1 /\ ExitsU(n)' = ExitsU(n)
  <2>1. /\ AnswersF(n) = AnswersF(n)' + One(x \in ReachedBy(n)) /\ ExitsF(n) = ExitsF(n)' + One(x \in ExitOf(n))
        /\ ExitsF(n)' \in Nat
    <3>1. FromMgrQ(s)' = Tail(FromMgrQ(s))
      BY <1>2, <1>7
    <3>2. \A S : Count(FromMgrQ(s), S) = Count(Tail(FromMgrQ(s)), S) + One(Head(FromMgrQ(s)) \in S)
                 /\ Count(Tail(FromMgrQ(s)), S) \in Nat
      BY <1>3, <1>4, CountTail
    <3> QED BY <1>3, <1>5, <3>1, <3>2 DEF AnswersF, ExitsF
  <2>2. AnswersU(n)' = AnswersU(n) + One(x \in ReachedBy(n)) /\ ExitsU(n)' = ExitsU(n) + One(x \in ExitOf(n))
    <3>1. PICK q : q = Append(UpQ(s), x)
      OBVIOUS
    <3>2. \A S : Count(q, S) = Count(UpQ(s), S) + One(x \in S)
      BY <1>4, <3>1, CountAppend
    <3> QED BY <1>5, <1>7, <3>1, <3>2 DEF AnswersU, ExitsU
  <2>3. AnswersU(n) \in Nat /\ ExitsU(n) \in Nat
    BY <1>10 DEF Atoms
  <2> QED BY <1>11, <2>1, <2>2, <2>3
<1>13. Late(n)' = Late(n) /\ Spawns(n)' = Spawns(n)
  <2>1. HubOf[n] \in Hubs
    BY <1>2, <1>5
  <2>2. Spawns(n)' = Spawns(n)
    BY <1>7, <2>1, SpawnsUntouched
  <2>3. AnswersF(n) \in Nat /\ AnswersU(n) \in Nat
    BY <1>10 DEF Atoms
  <2>4. AnswersF(n)' + AnswersU(n)' = AnswersF(n) + AnswersU(n)
    BY <1>10, <1>12, <2>3
  <2> QED BY <2>2, <2>4 DEF Late
<1>14. UNCHANGED <<active, uuid, reached, tracked, inbox, outbox, delayed, answered, alive, requested, joined, killed>>
  BY <1>3 DEF hub, process, script
<1>15. /\ ManagerKept(n) /\ HubKept(n) /\ TrackedKept(n) /\ BarrierKept(n)
       /\ ProcKept(n) /\ StatusKept(n) /\ OutKept(n) /\ InKept(n) /\ OwnKept(n)
       /\ (n \in Expected \ reached)' = (n \in Expected \ reached) /\ HubAt(HubOf[n])' = HubAt(HubOf[n])
  <2>1. ManagerKept(n) /\ HubKept(n) /\ HubAt(HubOf[n])' = HubAt(HubOf[n])
    BY <1>2, <1>3, <1>5, <1>14, ManagerUntouched, HubUntouched
  <2>2. ProcKept(n)
    BY <1>14, InSame, OutSame, OwnUntouched, StatusSame DEF ProcKept
  <2>3. (n \in Expected \ reached)' = (n \in Expected \ reached)
    BY <1>14 DEF Expected, Tracked
  <2> QED BY <2>1, <2>2, <2>3 DEF HubKept, ProcKept
<1>16. Staged(n)'
  BY <1>10, <1>12, <1>13, <1>15 DEF Staged, ManagerKept, TrackedKept, OutKept, OwnKept, StatusKept, InKept
<1>17. Tokens(n)'
  <2>1. Waits(n)' = Waits(n) /\ Answers(n)' = Answers(n)
    BY <1>15 DEF Waits, StatusKept, OwnKept, OutKept
  <2>2. Early(n)' = Early(n)
    BY <1>15, <2>1 DEF Early, InKept
  <2> QED BY <1>10, <1>13, <1>15, <2>1, <2>2 DEF Tokens, OwnKept, ManagerKept, BarrierKept
<1>18. ExitOrder(n)'
  <2>1. ExitsU(n) = 0 /\ ExitsU(n)' = 0
    BY <1>10, <1>12 DEF ExitOrder, Atoms
  <2>2. UpOrder(n)'
    <3>1. PICK q : q = Append(UpQ(s), x)
      OBVIOUS
    <3>2. NoneAfter(UpQ(s), ExitOf(n), ReachedBy(n)) /\ Count(UpQ(s), ExitOf(n)) = 0
      BY <1>5, <1>10, <2>1 DEF ExitOrder, UpOrder, ExitsU
    <3>3. NoneAfter(q, ExitOf(n), ReachedBy(n))
      BY <1>4, <3>1, <3>2, NoneAfterAppend
    <3> QED BY <1>5, <1>7, <3>1, <3>3 DEF UpOrder
  <2> QED BY <2>1, <2>2 DEF ExitOrder
<1>19. PastRight(n)'
  <2>1. /\ requested' = requested /\ Tracked(n)' = Tracked(n) /\ joined'[n] = joined[n] /\ Running(n)' = Running(n)
    BY <1>14, <1>15 DEF TrackedKept, ManagerKept
  <2>2. \A b : Passed(n, b)' = Passed(n, b) /\ Answered(n, b)' = Answered(n, b)
    BY <1>13, <1>15 DEF Passed, BarrierKept, Answered, ManagerKept
  <2> QED BY <1>10, <1>12, <1>13, <1>15, <2>1, <2>2 DEF PastRight
<1>20. Works(n)'
  BY <1>10, <1>14, <1>15, WorksFrame
<1>21. Mod(n)'
  BY <1>16, <1>17, <1>18, <1>19, <1>20 DEF Mod
<1> QED BY <1>3, <1>5, <1>6, <1>7, <1>8, <1>9, <1>21, SlaveUpStep DEF hub

(* Two messages are appended one after the other.                          *)
LEMMA TwoAppended ==
  ASSUME NEW X, NEW q \in Seq(X), NEW x \in X, NEW y \in X
  PROVE  q \o <<x, y>> = Append(Append(q, x), y) /\ q \o <<y>> = Append(q, y)
OBVIOUS

(* The exit of n is on its way to the hub: then n has not answered, and if *)
(* the hub has an active barrier, it is the one that the master waits for  *)
(* n with.                                                                 *)
LEMMA ExitComes ==
  ASSUME Before, NEW n \in Modules, ExitsF(n) > 0
  PROVE  /\ Tracked(n) /\ Spawns(n) = 0 /\ ~Running(n) /\ Exited(n) /\ ExitsF(n) = 1 /\ ExitsU(n) = 0
         /\ Late(n) = 0 /\ Early(n) = 0 /\ AnswersF(n) = 0 /\ AnswersU(n) = 0
         /\ active[HubOf[n]] => /\ uuid[HubOf[n]] = requested /\ requested > 0 /\ active[Master]
                                /\ n \in Expected \ reached
<1>1. /\ Typed /\ Chain /\ requested \in Nat /\ HubOf[n] \in Hubs /\ Master \in Hubs
      /\ Atoms(n) /\ Staged(n) /\ Tokens(n) /\ PastRight(n) /\ (n \in killed => joined[n] = 0)
      /\ (NotYet(n) \/ IsUp(n) \/ Exited(n))
  BY BeforeHas, Constants
<1>2. PICK s : s = HubOf[n]
  OBVIOUS
<1>3. Tracked(n) /\ Spawns(n) = 0 /\ ~Running(n) /\ ExitsF(n) = 1 /\ ExitsU(n) = 0
  <2>1. One(Tracked(n)) = 0 \/ (One(Tracked(n)) = 1 /\ Tracked(n))
    BY DEF One
  <2>2. One(Running(n)) \in Nat /\ (One(Running(n)) = 0 => ~Running(n))
    BY DEF One
  <2>3. Spawns(n) + One(Running(n)) + ExitsF(n) + ExitsU(n) = One(Tracked(n))
    BY <1>1 DEF Staged
  <2>4. Spawns(n) \in Nat /\ ExitsF(n) \in Nat /\ ExitsU(n) \in Nat
    BY <1>1 DEF Atoms
  <2> QED BY <2>1, <2>2, <2>3, <2>4
<1>4. Exited(n) /\ joined[n] = 0
  BY <1>1, <1>3 DEF Staged
<1>5. /\ HubAt(s) \in Nat /\ HubAt(Master) \in Nat /\ HubAt(s) <= HubAt(Master)
      /\ HubAt(Master) = IF active[Master] THEN 2 * requested - 1 ELSE 2 * requested
  BY <1>1, <1>2 DEF Chain
<1>6. ASSUME NEW b \in 1..requested, Passed(n, b)
      PROVE  2 * b <= HubAt(s)
  <2>1. joined[n] < b
    BY <1>1, <1>4, <1>6
  <2> QED BY <1>1, <1>2, <1>3, <1>6, <2>1 DEF PastRight
<1>7. Late(n) = 0 /\ AnswersF(n) = 0 /\ AnswersU(n) = 0
  <2>1. Late(n) \in Nat /\ Early(n) \in Nat /\ AnswersF(n) \in Nat /\ AnswersU(n) \in Nat
    BY <1>1 DEF Atoms
  <2>2. CASE Late(n) > 0
    <3>1. Early(n) + Late(n) <= 1 /\ (Early(n) + Late(n) = 1 => active[Master] /\ n \in Expected)
      BY <1>1 DEF Tokens
    <3>2. Early(n) + Late(n) = 1
      BY <2>1, <2>2, <3>1
    <3>3. active[Master] /\ requested > 0
      BY <1>1, <3>1, <3>2 DEF Chain
    <3>4. requested \in 1..requested
      BY <1>1, <3>3
    <3>5. ASSUME NEW b, b = requested PROVE Passed(n, b)
      BY <2>2, <3>5 DEF Passed
    <3>6. 2 * requested <= HubAt(s)
      BY <1>6, <3>4, <3>5
    <3> QED BY ONLY <1>1, <1>5, <3>3, <3>6
  <2> QED BY <2>1, <2>2 DEF Late
<1>8. Early(n) = 0
  <2>1. Early(n) \in Nat
    BY <1>1 DEF Atoms
  <2>2. Early(n) + Late(n) <= 1 /\ (Early(n) = 1 => Running(n))
    BY <1>1 DEF Tokens
  <2> QED BY <1>3, <1>7, <2>1, <2>2
<1>9. ASSUME active[s]
      PROVE  uuid[s] = requested /\ requested > 0 /\ active[Master] /\ n \in Expected \ reached
  <2>1. PICK u \in Nat : u = uuid[s] /\ u > 0 /\ u \in 1..requested
    <3>1. uuid[s] \in 0..requested /\ uuid[s] > 0
      BY <1>1, <1>2, <1>9 DEF Typed, HubTyped
    <3> QED BY <1>1, <3>1
  <2>2. HubAt(s) = 2 * u - 1
    BY <1>9, <2>1 DEF HubAt, Number
  <2>3. ~Passed(n, u)
    BY <1>6, <2>1, <2>2
  <2>4. HubAt(Master) < 2 * u
    BY <1>5, <2>1, <2>3 DEF Passed
  <2>5. u = requested /\ active[Master]
    BY <1>1, <1>5, <2>1, <2>2, <2>4
  <2>6. n \notin reached
    BY <2>3, <2>5 DEF Passed
  <2>7. n \in Expected
    BY <1>3, <1>4, <2>1, <2>5 DEF Expected
  <2> QED BY <2>1, <2>5, <2>6, <2>7
<1> QED BY <1>2, <1>3, <1>4, <1>7, <1>8, <1>9

(* SlaveModuleExit keeps the invariant: with a barrier active, the exit of *)
(* a module that was asked comes with an answer, of the same barrier.      *)
LEMMA SlaveModuleExitRight ==
  ASSUME Before, NEW s \in Slaves, SlaveModuleExit(s)
  PROVE  Core'
<1>1. PICK x : x = Head(link[FromManager(s)])
  OBVIOUS
<1>2. /\ Typed /\ Kinds /\ Chain /\ requested \in Nat /\ s \in Hubs /\ s # Master /\ FromMgrQ(s) = link[FromManager(s)]
  BY BeforeHas, QueueLinks DEF FromMgrQ
<1>3. /\ FromMgrQ(s) # <<>> /\ x.type = "ModuleExit" /\ x = Head(FromMgrQ(s))
      /\ Transmit(FromManager(s), Along(Up(s), IF active[s] THEN <<Reached(uuid[s], x.module), x>> ELSE <<x>>))
      /\ UNCHANGED <<active, uuid, participants, reached, tracked, manager, inbox, outbox, process, script>>
  BY <1>1, <1>2 DEF SlaveModuleExit, AtHead
<1>4. /\ FromMgrQ(s) \in Seq(UpKind(s, requested)) /\ UpQ(s) \in Seq(UpKind(s, requested))
      /\ x \in UpKind(s, requested)
  BY <1>2, <1>3 DEF Kinds
<1>5. PICK n \in Modules : HubOf[n] = s /\ (x = Reached(requested, n) \/ x = Exit(n, FALSE))
  BY <1>2, <1>4, UpKinded
<1>6. x = Exit(n, FALSE) /\ x \in ExitOf(n) /\ x \notin ReachedBy(n) /\ x.module = n
  <2>1. Reached(requested, n).type = "BarrierReached"
    BY DEF Reached
  <2>2. x = Exit(n, FALSE)
    BY <1>3, <1>5, <2>1
  <2>3. x.module = n
    BY <2>2 DEF Exit
  <2> QED BY <1>2, <2>2, <2>3, AboutOne
<1>7. /\ Atoms(n) /\ Staged(n) /\ Tokens(n) /\ ExitOrder(n) /\ PastRight(n) /\ Works(n)
  BY BeforeHas
<1>8. ExitsF(n) = ExitsF(n)' + 1 /\ AnswersF(n) = AnswersF(n)' /\ ExitsF(n)' \in Nat /\ FromMgrQ(s)' = Tail(FromMgrQ(s))
  <2>1. FromMgrQ(s)' = Tail(FromMgrQ(s))
    BY <1>2, <1>3, SlavePassesUp
  <2>2. \A S : Count(FromMgrQ(s), S) = Count(Tail(FromMgrQ(s)), S) + One(Head(FromMgrQ(s)) \in S)
               /\ Count(Tail(FromMgrQ(s)), S) \in Nat
    BY <1>3, <1>4, CountTail
  <2>3. /\ AnswersF(n) = AnswersF(n)' + One(x \in ReachedBy(n)) /\ ExitsF(n) = ExitsF(n)' + One(x \in ExitOf(n))
        /\ AnswersF(n)' \in Nat /\ ExitsF(n)' \in Nat
    BY <1>3, <1>5, <2>1, <2>2 DEF AnswersF, ExitsF
  <2>4. One(x \in ReachedBy(n)) = 0 /\ One(x \in ExitOf(n)) = 1
    BY <1>6 DEF One
  <2> QED BY <2>1, <2>3, <2>4
<1>9. /\ Tracked(n) /\ Spawns(n) = 0 /\ ~Running(n) /\ Exited(n) /\ ExitsF(n) = 1 /\ ExitsU(n) = 0
      /\ Late(n) = 0 /\ Early(n) = 0 /\ AnswersF(n) = 0 /\ AnswersU(n) = 0
      /\ active[s] => uuid[s] = requested /\ requested > 0 /\ active[Master] /\ n \in Expected \ reached
  <2>1. ExitsF(n) > 0
    BY <1>8
  <2> QED BY <1>5, <2>1, ExitComes
<1>10. PICK answer : answer = Reached(requested, n)
  OBVIOUS
<1>11. answer \in ReachedBy(n) /\ answer \notin ExitOf(n) /\ answer \in UpKind(s, requested)
  BY <1>2, <1>5, <1>10, AboutOne DEF UpKind, At
<1>12. PICK between : IF active[s] THEN Appends(between, UpQ(s), answer) ELSE between = UpQ(s)
  BY DEF Appends
<1>13. /\ \A h \in Hubs : /\ DownQ(h)' = DownQ(h) /\ ToMgrQ(h)' = ToMgrQ(h)
                          /\ FromMgrQ(h)' = IF h = s THEN Tail(FromMgrQ(h)) ELSE FromMgrQ(h)
                          /\ h # s => UpQ(h)' = UpQ(h)
       /\ UpQ(s)' = Append(between, x)
  <2>1. PICK msgs : msgs = IF active[s] THEN <<answer, x>> ELSE <<x>>
    OBVIOUS
  <2>2. Transmit(FromManager(s), Along(Up(s), msgs))
    BY <1>3, <1>6, <1>9, <1>10, <2>1
  <2>3. \A h \in Hubs :
          /\ DownQ(h)' = DownQ(h) /\ ToMgrQ(h)' = ToMgrQ(h)
          /\ FromMgrQ(h)' = IF h = s THEN Tail(FromMgrQ(h)) ELSE FromMgrQ(h)
          /\ UpQ(h)' = IF h = s THEN UpQ(h) \o msgs ELSE UpQ(h)
    BY <1>2, <1>3, <2>2, SlavePassesUp
  <2>4. UpQ(s) \o <<x>> = Append(UpQ(s), x) /\ UpQ(s) \o <<answer, x>> = Append(Append(UpQ(s), answer), x)
    BY <1>4, <1>11, TwoAppended
  <2>5. UpQ(s) \o msgs = Append(between, x)
    BY <1>12, <2>1, <2>4 DEF Appends
  <2> QED BY <1>2, <2>3, <2>5
<1>14. between \in Seq(UpKind(s, requested)) /\ UpQ(s)' \in Seq(UpKind(s, requested))
  BY <1>4, <1>11, <1>12, <1>13, SeqAppended DEF Appends
<1>15. PICK q : Appends(q, between, x)
  BY DEF Appends
<1>16. UpQ(s)' = q
  BY <1>13, <1>15 DEF Appends
<1>17. \A m \in Modules \ {n} : HubOf[m] = s =>
        AnswersU(m)' = AnswersU(m) /\ ExitsU(m)' = ExitsU(m) /\ (UpOrder(m) => UpOrder(m)')
  <2>1. ASSUME NEW m \in Modules \ {n}, HubOf[m] = s
        PROVE  AnswersU(m)' = AnswersU(m) /\ ExitsU(m)' = ExitsU(m) /\ (UpOrder(m) => UpOrder(m)')
    <3>1. HubOf'[m] = s /\ m # n
      BY <2>1
    <3>2. /\ Count(between, ReachedBy(m)) = Count(UpQ(s), ReachedBy(m))
          /\ Count(between, ExitOf(m)) = Count(UpQ(s), ExitOf(m))
          /\ NoneAfter(UpQ(s), ExitOf(m), ReachedBy(m)) => NoneAfter(between, ExitOf(m), ReachedBy(m))
      <4>1. CASE active[s]
        BY <1>4, <1>11, <1>12, <3>1, <4>1, UpAppended
      <4>2. CASE ~active[s]
        BY <1>12, <4>2
      <4> QED BY <4>1, <4>2
    <3>3. /\ Count(q, ReachedBy(m)) = Count(between, ReachedBy(m)) /\ Count(q, ExitOf(m)) = Count(between, ExitOf(m))
          /\ NoneAfter(between, ExitOf(m), ReachedBy(m)) => NoneAfter(q, ExitOf(m), ReachedBy(m))
      <4>1. between \in Seq(UpKind(s, requested)) /\ (x \in ReachedBy(n) \/ x \in ExitOf(n)) /\ Appends(q, between, x)
        BY <1>6, <1>14, <1>15
      <4> QED BY <3>1, <4>1, UpAppended
    <3> QED BY <1>16, <2>1, <3>2, <3>3 DEF AnswersU, ExitsU, UpOrder
  <2> QED BY <2>1
<1>18. /\ Count(between, ReachedBy(n)) = One(active[s]) /\ Count(between, ExitOf(n)) = 0
       /\ NoneAfter(between, ExitOf(n), ReachedBy(n))
  <2>1. /\ Count(UpQ(s), ReachedBy(n)) = 0 /\ Count(UpQ(s), ExitOf(n)) = 0
        /\ NoneAfter(UpQ(s), ExitOf(n), ReachedBy(n))
    BY <1>5, <1>7, <1>9 DEF AnswersU, ExitsU, ExitOrder, UpOrder
  <2>2. CASE active[s]
    <3>1. between = Append(UpQ(s), answer) /\ One(active[s]) = 1
      BY <1>12, <2>2 DEF Appends, One
    <3>2. One(answer \in ReachedBy(n)) = 1 /\ One(answer \in ExitOf(n)) = 0
      BY <1>11 DEF One
    <3>3. \A S : Count(between, S) = Count(UpQ(s), S) + One(answer \in S)
      BY <1>4, <3>1, CountAppend
    <3>4. NoneAfter(between, ExitOf(n), ReachedBy(n))
      BY <1>4, <2>1, <3>1, NoneAfterAppend
    <3> QED BY <2>1, <3>1, <3>2, <3>3, <3>4
  <2>3. CASE ~active[s]
    BY <1>12, <2>1, <2>3 DEF One
  <2> QED BY <2>2, <2>3
<1>19. /\ AnswersU(n)' = One(active[s]) /\ ExitsU(n)' = 1 /\ UpOrder(n)' /\ Late(n)' = One(active[s])
       /\ ExitsF(n)' = 0 /\ AnswersF(n)' = 0
  <2>1. One(x \in ReachedBy(n)) = 0 /\ One(x \in ExitOf(n)) = 1
    BY <1>6 DEF One
  <2>2. UpQ(s)' = Append(between, x) /\ HubOf'[n] = s
    BY <1>5, <1>13
  <2>3. Count(UpQ(s)', ReachedBy(n)) = One(active[s]) /\ Count(UpQ(s)', ExitOf(n)) = 1
    <3>1. \A S : Count(UpQ(s)', S) = Count(between, S) + One(x \in S)
      BY <1>14, <2>2, CountAppend
    <3>2. One(active[s]) \in Nat
      BY DEF One
    <3> QED BY <1>18, <2>1, <3>1, <3>2
  <2>4. NoneAfter(UpQ(s)', ExitOf(n), ReachedBy(n))
    BY <1>6, <1>14, <1>18, <2>2, NoneAfterAppend
  <2>5. AnswersF(n)' = 0 /\ ExitsF(n)' = 0
    BY <1>8, <1>9
  <2>6. AnswersU(n)' = One(active[s]) /\ ExitsU(n)' = 1 /\ UpOrder(n)'
    BY <2>2, <2>3, <2>4 DEF AnswersU, ExitsU, UpOrder
  <2>7. Late(n)' = One(active[s])
    <3>1. One(active[s]) \in Nat
      BY DEF One
    <3> QED BY <2>5, <2>6, <3>1 DEF Late
  <2> QED BY <2>5, <2>6, <2>7
<1>20. Spawns(n)' = Spawns(n)
  <2>1. HubOf[n] \in Hubs
    BY <1>2, <1>5
  <2> QED BY <1>13, <2>1, SpawnsUntouched
<1>21. UNCHANGED <<active, uuid, reached, tracked, inbox, outbox, delayed, answered, alive, requested, joined, killed>>
  BY <1>3 DEF process, script
<1>22. /\ ManagerKept(n) /\ HubKept(n) /\ TrackedKept(n) /\ BarrierKept(n)
       /\ ProcKept(n) /\ StatusKept(n) /\ OutKept(n) /\ InKept(n) /\ OwnKept(n)
       /\ (n \in Expected \ reached)' = (n \in Expected \ reached) /\ HubAt(HubOf[n])' = HubAt(HubOf[n])
  <2>1. ManagerKept(n) /\ HubKept(n) /\ HubAt(HubOf[n])' = HubAt(HubOf[n])
    BY <1>2, <1>3, <1>5, <1>21, ManagerUntouched, HubUntouched
  <2>2. ProcKept(n)
    BY <1>21, InSame, OutSame, OwnUntouched, StatusSame DEF ProcKept
  <2>3. (n \in Expected \ reached)' = (n \in Expected \ reached)
    BY <1>21 DEF Expected, Tracked
  <2> QED BY <2>1, <2>2, <2>3 DEF HubKept, ProcKept
<1>23. Staged(n)'
  <2>1. Spawns(n)' + One(Running(n)') + ExitsF(n)' + ExitsU(n)' = One(Tracked(n)')
    <3>1. One(Running(n)') = 0 /\ One(Tracked(n)') = 1
      BY <1>9, <1>22 DEF One, ManagerKept, TrackedKept
    <3> QED BY <1>9, <1>19, <1>20, <3>1
  <2>2. ~NotYet(n)' /\ ~IsUp(n)' /\ Tracked(n)'
    BY <1>7, <1>9, <1>22 DEF StatusKept, TrackedKept, Atoms
  <2> QED BY <1>7, <1>22, <2>1, <2>2 DEF Staged, ManagerKept, TrackedKept, OutKept, OwnKept, StatusKept, InKept
<1>24. Tokens(n)'
  <2>1. Waits(n)' = Waits(n) /\ Answers(n)' = Answers(n)
    BY <1>22 DEF Waits, StatusKept, OwnKept, OutKept
  <2>2. Early(n)' = 0
    BY <1>9, <1>22, <2>1 DEF Early, InKept
  <2>3. One(active[s]) = 0 \/ (One(active[s]) = 1 /\ active[s])
    BY DEF One
  <2>4. Waits(n)' => Deferred(n)' = requested'
    BY <1>7, <1>21, <1>22, <2>1 DEF Tokens, OwnKept
  <2>5. active[s] => active'[Master] /\ (n \in Expected \ reached)'
    BY <1>9, <1>21, <1>22
  <2> QED BY <1>19, <2>2, <2>3, <2>4, <2>5 DEF Tokens
<1>25. ExitOrder(n)'
  BY <1>19 DEF ExitOrder
<1>26. PastRight(n)'
  BY <1>9, <1>19, <1>20, <1>22 DEF PastRight, ManagerKept
<1>27. Works(n)'
  BY <1>7, <1>21, <1>22, WorksFrame
<1>28. Mod(n)'
  BY <1>23, <1>24, <1>25, <1>26, <1>27 DEF Mod
<1> QED BY <1>3, <1>5, <1>6, <1>13, <1>14, <1>17, <1>28, SlaveUpStep

-----------------------------------------------------------------------------
(* The master hub *)

(* What changes when the master hub takes the first message that comes     *)
(* from hub k: it is about module n.                                       *)
LEMMA TakenUp ==
  ASSUME Before, NEW k \in Hubs, ArrivingQ(k) # <<>>, NEW x, x = Head(ArrivingQ(k)),
         \A h \in Hubs : /\ FromMgrQ(h)' = IF h = k /\ h = Master THEN Tail(FromMgrQ(h)) ELSE FromMgrQ(h)
                         /\ UpQ(h)' = IF h = k /\ h # Master THEN Tail(UpQ(h)) ELSE UpQ(h)
  PROVE  \E n \in Modules :
           /\ HubOf[n] = k /\ (x = Reached(requested, n) \/ x = Exit(n, FALSE))
           /\ \A m \in Modules \ {n} :
                /\ ExitsF(m)' = ExitsF(m) /\ ExitsU(m)' = ExitsU(m)
                /\ AnswersF(m)' = AnswersF(m) /\ AnswersU(m)' = AnswersU(m) /\ (UpOrder(m) => UpOrder(m)')
           /\ UpOrder(n)'
           /\ x = Reached(requested, n) =>
                Late(n)' = Late(n) - 1 /\ ExitsF(n)' = ExitsF(n) /\ ExitsU(n)' = ExitsU(n)
           /\ x = Exit(n, FALSE) =>
                /\ AnswersF(n)' = AnswersF(n) /\ AnswersU(n)' = AnswersU(n)
                /\ k = Master => ExitsF(n)' = ExitsF(n) - 1 /\ ExitsU(n)' = ExitsU(n) /\ ExitsF(n) > 0
                /\ k # Master => /\ ExitsU(n)' = ExitsU(n) - 1 /\ ExitsF(n)' = ExitsF(n) /\ ExitsU(n) > 0
                                 /\ AnswersU(n) = 0
<1>1. Kinds /\ requested \in Nat
  BY BeforeHas
<1>2. PICK q : q = ArrivingQ(k)
  OBVIOUS
<1>3. q \in Seq(UpKind(k, requested)) /\ q # <<>> /\ x = Head(q) /\ x \in UpKind(k, requested)
  <2>1. q \in Seq(UpKind(k, requested))
    BY <1>1, <1>2 DEF Kinds, ArrivingQ
  <2> QED BY <1>2, <2>1
<1>4. PICK n \in Modules : HubOf[n] = k /\ (x = Reached(requested, n) \/ x = Exit(n, FALSE))
  BY <1>1, <1>3, UpKinded
<1>5. /\ x = Reached(requested, n) => x \in ReachedBy(n) /\ x \notin ExitOf(n)
      /\ x = Exit(n, FALSE) => x \in ExitOf(n) /\ x \notin ReachedBy(n)
      /\ \A m : x \in ReachedBy(m) \/ x \in ExitOf(m) => m = n
  <2>1. /\ Reached(requested, n) \in ReachedBy(n) /\ Reached(requested, n) \notin ExitOf(n)
        /\ Exit(n, FALSE) \in ExitOf(n) /\ Exit(n, FALSE) \notin ReachedBy(n)
        /\ \A m : /\ Reached(requested, n) \in ReachedBy(m) => m = n
                  /\ Reached(requested, n) \notin ExitOf(m) /\ Exit(n, FALSE) \notin ReachedBy(m)
                  /\ Exit(n, FALSE) \in ExitOf(m) => m = n
    BY <1>1, <1>4, AboutOne
  <2> QED BY <1>4, <2>1
<1>6. \A S : /\ Count(q, S) = Count(Tail(q), S) + One(x \in S)
             /\ Count(q, S) \in Nat /\ Count(Tail(q), S) \in Nat
  BY <1>3, CountTail
<1>7. \A X, Y : NoneAfter(q, X, Y) => NoneAfter(Tail(q), X, Y) /\ (x \in X => Count(Tail(q), Y) = 0)
  BY <1>3, NoneAfterTail
<1>8. ASSUME NEW m \in Modules, HubOf[m] # k
      PROVE  /\ ExitsF(m)' = ExitsF(m) /\ ExitsU(m)' = ExitsU(m)
             /\ AnswersF(m)' = AnswersF(m) /\ AnswersU(m)' = AnswersU(m) /\ UpOrder(m)' = UpOrder(m)
  <2>1. FromMgrQ(HubOf[m])' = FromMgrQ(HubOf[m]) /\ UpQ(HubOf[m])' = UpQ(HubOf[m])
    BY <1>8, Constants
  <2> QED BY <2>1 DEF ExitsF, ExitsU, AnswersF, AnswersU, UpOrder
<1>9. /\ k = Master => FromMgrQ(k) = q /\ FromMgrQ(k)' = Tail(q) /\ UpQ(k)' = UpQ(k)
      /\ k # Master => UpQ(k) = q /\ UpQ(k)' = Tail(q) /\ FromMgrQ(k)' = FromMgrQ(k)
  BY <1>2 DEF ArrivingQ
<1>10. ASSUME NEW m \in Modules, HubOf[m] = k
       PROVE  /\ k = Master => /\ ExitsF(m) = ExitsF(m)' + One(x \in ExitOf(m)) /\ ExitsF(m)' \in Nat
                               /\ AnswersF(m) = AnswersF(m)' + One(x \in ReachedBy(m)) /\ AnswersF(m)' \in Nat
                               /\ ExitsU(m)' = ExitsU(m) /\ AnswersU(m)' = AnswersU(m) /\ UpOrder(m)' = UpOrder(m)
              /\ k # Master => /\ ExitsU(m) = ExitsU(m)' + One(x \in ExitOf(m)) /\ ExitsU(m)' \in Nat
                               /\ AnswersU(m) = AnswersU(m)' + One(x \in ReachedBy(m)) /\ AnswersU(m)' \in Nat
                               /\ ExitsF(m)' = ExitsF(m) /\ AnswersF(m)' = AnswersF(m)
                               /\ UpOrder(m) => UpOrder(m)' /\ (x \in ExitOf(m) => AnswersU(m)' = 0)
  <2>1. HubOf'[m] = k
    BY <1>10
  <2>2. CASE k = Master
    BY <1>6, <1>9, <1>10, <2>1, <2>2 DEF ExitsF, ExitsU, AnswersF, AnswersU, UpOrder
  <2>3. CASE k # Master
    BY <1>6, <1>7, <1>9, <1>10, <2>1, <2>3 DEF ExitsF, ExitsU, AnswersF, AnswersU, UpOrder
  <2> QED BY <2>2, <2>3
<1>11. ASSUME NEW m \in Modules \ {n}
       PROVE  /\ ExitsF(m)' = ExitsF(m) /\ ExitsU(m)' = ExitsU(m)
              /\ AnswersF(m)' = AnswersF(m) /\ AnswersU(m)' = AnswersU(m) /\ (UpOrder(m) => UpOrder(m)')
  <2>1. CASE HubOf[m] # k
    BY <1>8, <2>1
  <2>2. CASE HubOf[m] = k
    <3>1. One(x \in ExitOf(m)) = 0 /\ One(x \in ReachedBy(m)) = 0
      BY <1>5 DEF One
    <3> QED BY <1>10, <2>2, <3>1
  <2> QED BY <2>1, <2>2
<1>12. Atoms(n) /\ ExitOrder(n) /\ UpOrder(n)
  BY BeforeHas DEF ExitOrder
<1>13. UpOrder(n)'
  BY <1>4, <1>10, <1>12
<1>14. ASSUME x = Reached(requested, n)
       PROVE  Late(n)' = Late(n) - 1 /\ ExitsF(n)' = ExitsF(n) /\ ExitsU(n)' = ExitsU(n)
  <2>1. One(x \in ExitOf(n)) = 0 /\ One(x \in ReachedBy(n)) = 1
    BY <1>5, <1>14 DEF One
  <2>2. AnswersF(n) \in Nat /\ AnswersU(n) \in Nat
    BY <1>12 DEF Atoms
  <2> QED BY <1>4, <1>10, <2>1, <2>2 DEF Late
<1>15. ASSUME x = Exit(n, FALSE)
       PROVE  /\ AnswersF(n)' = AnswersF(n) /\ AnswersU(n)' = AnswersU(n)
              /\ k = Master => ExitsF(n)' = ExitsF(n) - 1 /\ ExitsU(n)' = ExitsU(n) /\ ExitsF(n) > 0
              /\ k # Master => /\ ExitsU(n)' = ExitsU(n) - 1 /\ ExitsF(n)' = ExitsF(n) /\ ExitsU(n) > 0
                               /\ AnswersU(n) = 0
  <2>1. One(x \in ExitOf(n)) = 1 /\ One(x \in ReachedBy(n)) = 0 /\ x \in ExitOf(n)
    BY <1>5, <1>15 DEF One
  <2>2. ExitsF(n) \in Nat /\ ExitsU(n) \in Nat /\ AnswersF(n) \in Nat /\ AnswersU(n) \in Nat
    BY <1>12 DEF Atoms
  <2>3. CASE k = Master
    BY <1>4, <1>10, <2>1, <2>2, <2>3
  <2>4. CASE k # Master
    BY <1>4, <1>10, <1>12, <2>1, <2>2, <2>4
  <2> QED BY <2>3, <2>4
<1> QED BY <1>4, <1>11, <1>13, <1>14, <1>15

(* The master hub has heard of module n, which has answered or exited.     *)
Heard(n) ==
  /\ UNCHANGED <<uuid, participants, manager, inbox, outbox, process, requested, joined, killed>>
  /\ \A h \in Hubs : FromMgrQ(h)' \in Seq(UpKind(h, requested)) /\ UpQ(h)' \in Seq(UpKind(h, requested))
  /\ \A m \in Modules \ {n} :
       /\ tracked'[m] = tracked[m]
       /\ ExitsF(m)' = ExitsF(m) /\ ExitsU(m)' = ExitsU(m)
       /\ AnswersF(m)' = AnswersF(m) /\ AnswersU(m)' = AnswersU(m) /\ (UpOrder(m) => UpOrder(m)')
  /\ Late(n)' = 0 /\ Early(n) = 0 /\ UpOrder(n)'
  /\ \/ /\ tracked'[n] = tracked[n] /\ ExitsF(n)' = ExitsF(n) /\ ExitsU(n)' = ExitsU(n) /\ Late(n) = 1
     \/ /\ tracked'[n] = "quit" /\ Exited(n) /\ ~Running(n) /\ Spawns(n) = 0
        /\ ExitsF(n)' = 0 /\ ExitsU(n)' = 0

(* What the master hub's new state must keep for a module.                 *)
Grown == \A h \in Hubs : HubAt(h)' \in Nat /\ HubAt(h) <= HubAt(h)'
PassedBefore(m) ==
  \A b \in 1..requested : Tracked(m)' /\ joined[m] < b /\ Passed(m, b)' => Passed(m, b)
StillAwaited(m) ==
  Early(m) + Late(m) = 1 =>
    active'[Master] /\ (m \in Expected \ reached)' /\ HubAt(Master)' = HubAt(Master)

(* What the master hub hears of n leaves the invariant about another       *)
(* module, unless that is released.                                        *)
LEMMA HeardOther ==
  ASSUME Before, NEW n \in Modules, Heard(n), NEW m \in Modules \ {n}, Spawns(m)' = Spawns(m),
         Grown, PassedBefore(m), StillAwaited(m)
  PROVE  Mod(m)'
<1>1. /\ Typed /\ Chain /\ requested \in Nat /\ HubOf[m] \in Hubs /\ Master \in Hubs
      /\ Atoms(m) /\ Staged(m) /\ Tokens(m) /\ ExitOrder(m) /\ PastRight(m) /\ Works(m)
  BY BeforeHas, Constants
<1>2. UNCHANGED <<manager, inbox, outbox, delayed, answered, alive, requested, joined, killed>>
  BY DEF Heard, process
<1>3. QueuesKept(m)
  BY DEF Heard, QueuesKept
<1>4. ManagerKept(m)
  BY <1>2, ManagerUntouched
<1>5. ProcKept(m) /\ StatusKept(m) /\ OutKept(m) /\ InKept(m) /\ OwnKept(m)
  BY <1>2, InSame, OutSame, OwnUntouched, StatusSame DEF ProcKept
<1>6. TrackedKept(m)
  <2>1. tracked'[m] = tracked[m]
    BY DEF Heard
  <2> QED BY <1>2, <2>1 DEF TrackedKept, Unknown, Tracked, Gone
<1>7. Staged(m)'
  BY <1>1, <1>3, <1>4, <1>5, <1>6, StagedFrame
<1>8. Tokens(m)'
  <2>1. Waits(m)' = Waits(m) /\ Answers(m)' = Answers(m) /\ Late(m)' = Late(m)
    BY <1>3, <1>5 DEF Waits, StatusKept, OwnKept, OutKept, QueuesKept, Late
  <2>2. Early(m)' = Early(m)
    BY <1>5, <2>1 DEF Early, InKept
  <2>3. Early(m) = 1 => Late(m) = 0 /\ Early(m) + Late(m) = 1
    BY <1>1 DEF Tokens, Atoms
  <2>4. Running(m)' = Running(m) /\ MgrAt(HubOf[m])' = MgrAt(HubOf[m]) /\ Deferred(m)' = Deferred(m)
    BY <1>4, <1>5 DEF ManagerKept, OwnKept
  <2> QED BY <1>1, <1>2, <2>1, <2>2, <2>3, <2>4 DEF Tokens, StillAwaited
<1>9. ExitOrder(m)'
  BY <1>1, <1>3, ExitOrderFrame
<1>10. PastRight(m)'
  <2>1. Spawns(m)' = Spawns(m) /\ Running(m)' = Running(m) /\ ExitsF(m)' = ExitsF(m) /\ Tracked(m)' = Tracked(m)
    BY <1>3, <1>4, <1>6 DEF QueuesKept, ManagerKept, TrackedKept
  <2>2. \A b : Answered(m, b)' = Answered(m, b)
    BY <1>4 DEF Answered, ManagerKept
  <2>3. \A b \in Int : 2 * b <= HubAt(HubOf[m]) => 2 * b <= HubAt(HubOf[m])'
    <3>1. HubAt(HubOf[m]) \in Nat /\ HubAt(HubOf[m])' \in Nat /\ HubAt(HubOf[m]) <= HubAt(HubOf[m])'
      BY <1>1 DEF Chain, Grown
    <3> QED BY ONLY <3>1
  <2> QED BY <1>1, <1>2, <2>1, <2>2, <2>3 DEF PastRight, PassedBefore
<1>11. Works(m)'
  BY <1>1, <1>2, <1>4, <1>5, WorksFrame
<1> QED BY <1>7, <1>8, <1>9, <1>10, <1>11 DEF Mod

(* What is left of n once the master hub has heard of it.                  *)
LEMMA HeardOne ==
  ASSUME Before, NEW n \in Modules, Heard(n), Spawns(n)' = Spawns(n), Grown, PassedBefore(n)
  PROVE  Mod(n)'
<1>1. /\ Typed /\ Chain /\ requested \in Nat /\ HubOf[n] \in Hubs /\ Master \in Hubs
      /\ Atoms(n) /\ Staged(n) /\ Tokens(n) /\ ExitOrder(n) /\ PastRight(n) /\ Works(n)
      /\ AnswersF(n)' \in Nat /\ AnswersU(n)' \in Nat
  BY BeforeHas, Constants, AtomsThen DEF Atoms
<1>2. UNCHANGED <<manager, inbox, outbox, delayed, answered, alive, requested, joined, killed>>
  BY DEF Heard, process
<1>3. ManagerKept(n)
  BY <1>2, ManagerUntouched
<1>4. ProcKept(n) /\ StatusKept(n) /\ OutKept(n) /\ InKept(n) /\ OwnKept(n)
  BY <1>2, InSame, OutSame, OwnUntouched, StatusSame DEF ProcKept
<1>5. Late(n)' = 0 /\ Early(n) = 0 /\ UpOrder(n)' /\ AnswersF(n)' = 0
  BY <1>1 DEF Heard, Late
<1>6. Tokens(n)'
  <2>1. Waits(n)' = Waits(n) /\ Answers(n)' = Answers(n)
    BY <1>4 DEF Waits, StatusKept, OwnKept, OutKept
  <2>2. Early(n)' = 0
    BY <1>4, <1>5, <2>1 DEF Early, InKept
  <2>3. Waits(n)' => Deferred(n)' = requested'
    BY <1>1, <1>2, <1>4, <2>1 DEF Tokens, OwnKept
  <2> QED BY <1>5, <2>2, <2>3 DEF Tokens
<1>7. ExitOrder(n)'
  BY <1>5 DEF ExitOrder
<1>8. Works(n)'
  BY <1>1, <1>2, <1>3, <1>4, WorksFrame
<1>9. CASE tracked'[n] = tracked[n] /\ ExitsF(n)' = ExitsF(n) /\ ExitsU(n)' = ExitsU(n)
  <2>1. TrackedKept(n)
    BY <1>2, <1>9 DEF TrackedKept, Unknown, Tracked, Gone
  <2>2. Staged(n)'
    BY <1>1, <1>3, <1>4, <1>9, <2>1 DEF Staged, ManagerKept, TrackedKept, OutKept, OwnKept, StatusKept, InKept
  <2>3. PastRight(n)'
    <3>1. Running(n)' = Running(n) /\ Tracked(n)' = Tracked(n)
      BY <1>3, <2>1 DEF ManagerKept, TrackedKept
    <3>2. \A b : Answered(n, b)' = Answered(n, b)
      BY <1>3 DEF Answered, ManagerKept
    <3>3. \A b \in Int : 2 * b <= HubAt(HubOf[n]) => 2 * b <= HubAt(HubOf[n])'
      <4>1. HubAt(HubOf[n]) \in Nat /\ HubAt(HubOf[n])' \in Nat /\ HubAt(HubOf[n]) <= HubAt(HubOf[n])'
        BY <1>1 DEF Chain, Grown
      <4> QED BY ONLY <4>1
    <3>4. ASSUME NEW b \in 1..requested, Tracked(n)', joined[n] < b, Passed(n, b)'
          PROVE  Spawns(n)' = 0 /\ (Running(n)' => Answered(n, b)') /\ (ExitsF(n)' > 0 => 2 * b <= HubAt(HubOf[n])')
      <4>1. Passed(n, b) /\ Tracked(n) /\ b \in Int
        BY <1>1, <3>1, <3>4 DEF PassedBefore
      <4>2. Spawns(n) = 0 /\ (Running(n) => Answered(n, b)) /\ (ExitsF(n) > 0 => 2 * b <= HubAt(HubOf[n]))
        BY <1>1, <3>4, <4>1 DEF PastRight
      <4> QED BY <1>9, <3>1, <3>2, <3>3, <4>1, <4>2
    <3>5. requested' = requested /\ joined' = joined
      BY <1>2
    <3> QED BY <3>4, <3>5 DEF PastRight
  <2> QED BY <1>6, <1>7, <1>8, <2>2, <2>3 DEF Mod
<1>10. CASE /\ tracked'[n] = "quit" /\ Exited(n) /\ ~Running(n) /\ Spawns(n) = 0
            /\ ExitsF(n)' = 0 /\ ExitsU(n)' = 0
  <2>1. Gone(n)' /\ ~Tracked(n)' /\ ~Running(n)' /\ Exited(n)' /\ ~NotYet(n)' /\ ~IsUp(n)'
    BY <1>1, <1>3, <1>4, <1>10 DEF Gone, Tracked, ManagerKept, StatusKept, Atoms
  <2>2. Spawns(n)' + One(Running(n)') + ExitsF(n)' + ExitsU(n)' = One(Tracked(n)')
    <3>1. One(Running(n)') = 0 /\ One(Tracked(n)') = 0
      BY <2>1 DEF One
    <3> QED BY <1>10, <3>1
  <2>3. Staged(n)'
    BY <1>1, <1>2, <1>3, <1>4, <1>10, <2>1, <2>2 DEF Staged, ManagerKept, OutKept, InKept
  <2>4. PastRight(n)'
    BY <2>1 DEF PastRight
  <2> QED BY <1>6, <1>7, <1>8, <2>3, <2>4 DEF Mod
<1> QED BY <1>9, <1>10 DEF Heard

(* The barrier is complete when all that are expected have been heard of.  *)
LEMMA ReleaseWhen ==
  ASSUME Before, active[Master], NEW n \in Expected
  PROVE  Complete(reached \cup {n}) <=> Expected \subseteq reached \cup {n}
<1>1. Typed /\ MasterRight /\ IsFiniteSet(Modules) /\ participants = Cardinality(reached \cup Expected)
  BY BeforeHas, Constants DEF MasterRight
<1>2. PICK all : all = reached \cup Expected
  OBVIOUS
<1>3. PICK set : set = reached \cup {n}
  OBVIOUS
<1>4. all \in SUBSET Modules /\ set \in SUBSET all
  BY <1>1, <1>2, <1>3 DEF Typed, HubTyped, Expected
<1>5. IsFiniteSet(all)
  BY <1>1, <1>4, FS_Subset
<1>6. Cardinality(all) = Cardinality(set) => all = set
  BY <1>4, <1>5, FS_Subset
<1>7. Complete(set) <=> Cardinality(set) = Cardinality(all)
  BY <1>1, <1>2 DEF Complete
<1>8. all = set <=> Expected \subseteq set
  BY <1>2, <1>3
<1> QED BY <1>3, <1>6, <1>7, <1>8

(* The master hub counts n and goes on waiting.                            *)
LEMMA HeardStays ==
  ASSUME Before, NEW n \in Modules, Heard(n), UNCHANGED <<active, pending>>,
         \A h \in Hubs : DownQ(h)' = DownQ(h) /\ ToMgrQ(h)' = ToMgrQ(h),
         \/ active[Master] /\ n \in Expected /\ ~Complete(reached \cup {n}) /\ reached' = reached \cup {n}
         \/ ~active[Master] /\ reached' = reached
  PROVE  Core'
<1>1. /\ Typed /\ MasterRight /\ Kinds /\ Ways /\ Chain /\ requested \in Nat /\ Master \in Hubs
      /\ \A m \in Modules : Atoms(m) /\ Tokens(m)
  BY BeforeHas, Constants
<1>2. UNCHANGED <<uuid, participants, manager, inbox, outbox, delayed, answered, alive, requested, joined, killed>>
  BY DEF Heard, process
<1>3. \A h \in Hubs : HubAt(h)' = HubAt(h) /\ MgrAt(h)' = MgrAt(h)
  BY <1>2 DEF HubAt, MgrAt, manager
<1>4. Grown
  BY <1>1, <1>3 DEF Grown, Chain
<1>5. \A m \in Modules : Spawns(m)' = Spawns(m)
  BY SpawnsUntouched, Constants
<1>6. \A m \in Modules \ {n} : /\ Tracked(m)' = Tracked(m) /\ (m \in Expected)' = (m \in Expected)
                               /\ (m \in reached)' = (m \in reached) /\ Late(m)' = Late(m)
  <2>1. \A m \in Modules \ {n} : Tracked(m)' = Tracked(m) /\ Late(m)' = Late(m)
    BY DEF Heard, Tracked, Late
  <2> QED BY <1>2, <2>1 DEF Expected
<1>7. \A m \in Modules : PassedBefore(m)
  <2>1. ASSUME NEW m \in Modules, NEW b \in 1..requested, Tracked(m)', Passed(m, b)'
        PROVE  Passed(m, b)
    <3>1. HubAt(Master)' = HubAt(Master) /\ requested' = requested
      BY <1>1, <1>2, <1>3
    <3>2. CASE m # n
      BY <1>6, <2>1, <3>1, <3>2 DEF Passed
    <3>3. CASE m = n
      <4>1. Late(n) = 1 \/ ~Tracked(n)'
        BY DEF Heard, Tracked
      <4>2. Late(n) = 1
        BY <2>1, <3>3, <4>1
      <4> QED BY <2>1, <3>1, <3>3, <4>2 DEF Passed
    <3> QED BY <3>2, <3>3
  <2> QED BY <2>1 DEF PassedBefore
<1>8. ASSUME NEW m \in Modules \ {n}
      PROVE  StillAwaited(m)
  <2>1. ASSUME Early(m) + Late(m) = 1
        PROVE  active'[Master] /\ (m \in Expected \ reached)'
    <3>1. active[Master] /\ m \in Expected \ reached
      BY <1>1, <2>1 DEF Tokens
    <3> QED BY <1>6, <3>1
  <2> QED BY <1>1, <1>3, <2>1 DEF StillAwaited
<1>9. \A m \in Modules : Mod(m)'
  <2>1. Mod(n)'
    BY <1>4, <1>5, <1>7, HeardOne
  <2>2. \A m \in Modules \ {n} : Mod(m)'
    BY <1>4, <1>5, <1>7, <1>8, HeardOther
  <2> QED BY <2>1, <2>2
<1>10. MasterRight'
  <2>1. uuid'[Master] = requested' /\ pending' = IF active'[Master] THEN {requested'} ELSE {}
    BY <1>1, <1>2 DEF MasterRight
  <2>2. CASE ~active[Master]
    <3>1. reached' = {}
      BY <1>1, <2>2 DEF MasterRight
    <3> QED BY <2>1, <2>2, <3>1 DEF MasterRight
  <2>3. CASE active[Master]
    <3>1. n \in Expected /\ ~Complete(reached \cup {n}) /\ reached' = reached \cup {n}
      BY <2>3
    <3>2. ~(Expected \subseteq reached \cup {n})
      BY <2>3, <3>1, ReleaseWhen
    <3>3. Expected \subseteq Modules /\ Expected' \subseteq Modules
      BY DEF Expected
    <3>4. \A m \in Modules : m # n => (m \in Expected' <=> m \in Expected)
      BY <1>6
    <3>5. reached' \cup Expected' = reached \cup Expected
      BY <3>1, <3>3, <3>4
    <3>6. ~(Expected' \subseteq reached')
      BY <3>1, <3>2, <3>3, <3>4
    <3>7. participants' = Cardinality(reached' \cup Expected')
      BY <1>1, <1>2, <2>3, <3>5 DEF MasterRight
    <3> QED BY <2>1, <2>3, <3>6, <3>7 DEF MasterRight
  <2> QED BY <2>2, <2>3
<1>11. Ways'
  BY <1>1, <1>2, <1>3, WaysUntouched
<1>12. Kinds'
  <2>1. \A m \in Modules : In(m)' = In(m) /\ Out(m)' = Out(m)
    BY <1>2, InSame, OutSame
  <2>2. \A h \in Hubs : UpKind(h, requested)' = UpKind(h, requested)
    BY <1>2 DEF UpKind, At
  <2>3. \A h \in Hubs : FromMgrQ(h)' \in Seq(UpKind(h, requested)) /\ UpQ(h)' \in Seq(UpKind(h, requested))
    BY DEF Heard
  <2> QED BY <1>1, <1>2, <2>1, <2>2, <2>3 DEF Kinds
<1> QED BY <1>9, <1>10, <1>11, <1>12, CoreNext

(* The master hub counts n, the last one, and releases the barrier:        *)
(* everybody else that it waits for has answered.                          *)
LEMMA HeardReleases ==
  ASSUME Before, NEW n \in Modules, Heard(n), active[Master], n \in Expected, Complete(reached \cup {n}),
         active' = [active EXCEPT ![Master] = FALSE], reached' = {}, pending' = pending \ {requested},
         NEW x, x = Reached(requested, HubId), \A m \in Modules : Spawns(m)' = Spawns(m),
         \A h \in Hubs :
           /\ DownQ(h)' = IF h = Master THEN DownQ(h) ELSE Append(DownQ(h), x)
           /\ ToMgrQ(h)' = IF h = Master THEN Append(ToMgrQ(h), x) ELSE ToMgrQ(h)
  PROVE  Core'
<1>1. /\ Typed /\ MasterRight /\ Kinds /\ Ways /\ Chain /\ requested \in Nat /\ Master \in Hubs
      /\ \A m \in Modules : Atoms(m) /\ Tokens(m)
  BY BeforeHas, Constants
<1>2. UNCHANGED <<uuid, participants, manager, inbox, outbox, delayed, answered, alive, requested, joined, killed>>
  BY DEF Heard, process
<1>3. /\ ~active'[Master] /\ HubAt(Master) = 2 * requested - 1 /\ HubAt(Master)' = 2 * requested /\ requested > 0
      /\ \A h \in Hubs \ {Master} : HubAt(h)' = HubAt(h)
      /\ \A h \in Hubs : MgrAt(h)' = MgrAt(h)
  <2>1. DOMAIN active = Hubs
    BY <1>1 DEF Typed, HubTyped
  <2>2. ~active'[Master] /\ uuid'[Master] = requested /\ \A h \in Hubs \ {Master} : active'[h] = active[h]
    BY <1>1, <1>2, <2>1 DEF MasterRight
  <2>3. HubAt(Master)' = 2 * requested
    BY <2>2 DEF HubAt, Number
  <2>4. \A h \in Hubs \ {Master} : HubAt(h)' = HubAt(h)
    BY <1>2, <2>2 DEF HubAt
  <2>5. HubAt(Master) = 2 * requested - 1 /\ requested > 0
    BY <1>1 DEF Chain
  <2>6. \A h \in Hubs : MgrAt(h)' = MgrAt(h)
    BY <1>2 DEF MgrAt, manager
  <2> QED BY <2>2, <2>3, <2>4, <2>5, <2>6
<1>4. Grown
  <2>1. HubAt(Master)' \in Nat /\ HubAt(Master) <= HubAt(Master)'
    BY <1>1, <1>3
  <2>2. \A h \in Hubs : HubAt(h) \in Nat
    BY <1>1 DEF Chain
  <2> QED BY <1>3, <2>1, <2>2 DEF Grown
<1>5. Expected \subseteq reached \cup {n}
  BY ReleaseWhen
<1>6. \A m \in Modules \ {n} : Tracked(m)' = Tracked(m)
  BY DEF Heard, Tracked
<1>7. \A m \in Modules : PassedBefore(m)
  <2>1. ASSUME NEW m \in Modules, NEW b \in 1..requested, Tracked(m)', joined[m] < b
        PROVE  Passed(m, b)
    <3>1. CASE b # requested
      <4>1. 2 * b <= HubAt(Master)
        BY <1>1, <1>3, <3>1
      <4> QED BY <4>1 DEF Passed
    <3>2. CASE b = requested /\ m # n
      <4>1. m \in Expected
        BY <1>6, <2>1, <3>2 DEF Expected
      <4>2. m \in reached
        BY <1>5, <3>2, <4>1
      <4> QED BY <3>2, <4>2 DEF Passed
    <3>3. CASE b = requested /\ m = n
      <4>1. Late(n) = 1 \/ ~Tracked(n)'
        BY DEF Heard, Tracked
      <4>2. Late(n) = 1
        BY <2>1, <3>3, <4>1
      <4> QED BY <3>3, <4>2 DEF Passed
    <3> QED BY <3>1, <3>2, <3>3
  <2> QED BY <2>1 DEF PassedBefore
<1>8. ASSUME NEW m \in Modules \ {n}
      PROVE  StillAwaited(m)
  <2>1. Early(m) + Late(m) # 1
    BY <1>1, <1>5 DEF Tokens
  <2> QED BY <2>1 DEF StillAwaited
<1>9. \A m \in Modules : Mod(m)'
  <2>1. Mod(n)'
    BY <1>4, <1>7, HeardOne
  <2>2. \A m \in Modules \ {n} : Mod(m)'
    BY <1>4, <1>7, <1>8, HeardOther
  <2> QED BY <2>1, <2>2
<1>10. MasterRight'
  BY <1>1, <1>2, <1>3 DEF MasterRight
<1>11. Ways'
  <2>1. IsEvent(x) /\ Event(x) = 2 * requested
    BY DEF IsEvent, Event, Number, Reached
  <2>2. Event(x) = HubAt(Master) + 1 /\ HubAt(Master) \in Nat /\ HubAt(Master)' = HubAt(Master) + 1
    BY <1>1, <1>3, <2>1
  <2>3. ASSUME NEW h \in Hubs
        PROVE  Brings(DownQ(h)', HubAt(h)', HubAt(Master)', joined') /\ Brings(ToMgrQ(h)', MgrAt(h)', HubAt(h)', joined')
    <3>1. /\ Brings(DownQ(h), HubAt(h), HubAt(Master), joined) /\ Brings(ToMgrQ(h), MgrAt(h), HubAt(h), joined)
          /\ DownQ(h) \in Seq(DownMsgs(requested)) /\ ToMgrQ(h) \in Seq(DownMsgs(requested))
      BY <1>1, QueuesTyped DEF Ways
    <3>2. CASE h = Master
      <4>1. DownQ(h)' = <<>> /\ ToMgrQ(h)' = Append(ToMgrQ(h), x)
        BY <3>2 DEF DownQ
      <4>2. Brings(DownQ(h)', HubAt(h)', HubAt(Master)', joined')
        <5>1. HubAt(Master)' \in Nat
          BY <2>2
        <5> QED BY <3>2, <4>1, <5>1, BringsNothing
      <4>3. Brings(Append(ToMgrQ(h), x), MgrAt(h), HubAt(Master) + 1, joined)
        BY <2>1, <2>2, <3>1, <3>2, BringsEvent
      <4> QED BY <1>2, <1>3, <2>2, <3>2, <4>1, <4>2, <4>3
    <3>3. CASE h # Master
      <4>1. DownQ(h)' = Append(DownQ(h), x) /\ ToMgrQ(h)' = ToMgrQ(h) /\ HubAt(h)' = HubAt(h)
        BY <1>3, <3>3
      <4>2. Brings(Append(DownQ(h), x), HubAt(h), HubAt(Master) + 1, joined)
        BY <2>1, <2>2, <3>1, BringsEvent
      <4> QED BY <1>2, <1>3, <2>2, <3>1, <4>1, <4>2
    <3> QED BY <3>2, <3>3
  <2> QED BY <2>3 DEF Ways
<1>12. Kinds'
  <2>1. \A m \in Modules : In(m)' = In(m) /\ Out(m)' = Out(m)
    BY <1>2, InSame, OutSame
  <2>2. \A h \in Hubs : UpKind(h, requested)' = UpKind(h, requested)
    BY <1>2 DEF UpKind, At
  <2>3. \A h \in Hubs : FromMgrQ(h)' \in Seq(UpKind(h, requested)) /\ UpQ(h)' \in Seq(UpKind(h, requested))
    BY DEF Heard
  <2>4. x \in DownKind(requested, killed)
    BY <1>1, <1>3 DEF DownKind
  <2>5. ASSUME NEW h \in Hubs
        PROVE  DownQ(h)' \in Seq(DownKind(requested, killed)) /\ ToMgrQ(h)' \in Seq(DownKind(requested, killed))
    <3>1. DownQ(h) \in Seq(DownKind(requested, killed)) /\ ToMgrQ(h) \in Seq(DownKind(requested, killed))
      BY <1>1 DEF Kinds
    <3> QED BY <2>4, <3>1, SeqAppended
  <2> QED BY <1>1, <1>2, <2>1, <2>2, <2>3, <2>5 DEF Kinds
<1> QED BY <1>9, <1>10, <1>11, <1>12, CoreNext

(* What changes when a module has reached a barrier.                       *)
LEMMA ArrivesEffects ==
  ASSUME Typed, NEW l \in Incoming, NEW k \in Hubs, l = Arriving(k), link[l] # <<>>, NEW n \in Modules, NEW b, Arrives(l, n, b)
  PROVE  /\ \A h \in Hubs : /\ FromMgrQ(h)' = IF h = k /\ h = Master THEN Tail(FromMgrQ(h)) ELSE FromMgrQ(h)
                            /\ UpQ(h)' = IF h = k /\ h # Master THEN Tail(UpQ(h)) ELSE UpQ(h)
         /\ \A m \in Modules : Spawns(m)' = Spawns(m)
         /\ Complete(reached \cup {n}) =>
              /\ active' = [active EXCEPT ![Master] = FALSE] /\ reached' = {} /\ pending' = pending \ {b}
              /\ \A x : x = Reached(b, HubId) => \A h \in Hubs :
                   /\ DownQ(h)' = IF h = Master THEN DownQ(h) ELSE Append(DownQ(h), x)
                   /\ ToMgrQ(h)' = IF h = Master THEN Append(ToMgrQ(h), x) ELSE ToMgrQ(h)
         /\ ~Complete(reached \cup {n}) =>
              /\ reached' = reached \cup {n} /\ UNCHANGED <<active, pending>>
              /\ \A h \in Hubs : DownQ(h)' = DownQ(h) /\ ToMgrQ(h)' = ToMgrQ(h)
<1>1. l \in Links /\ l \notin DownLinks /\ link[Arriving(k)] # <<>>
  BY IncomingOf
<1>2. \A m \in Modules : Spawns(m)' = Spawns(m)
  BY ArrivesSpawns, Constants DEF Spawns
<1>3. CASE Complete(reached \cup {n})
  <2>1. /\ active' = [active EXCEPT ![Master] = FALSE] /\ reached' = {} /\ pending' = pending \ {b}
        /\ Transmit(l, ToAll(Reached(b, HubId)))
    BY <1>3 DEF Arrives
  <2>2. PICK x : x = Reached(b, HubId)
    OBVIOUS
  <2>3. \A j \in UpLinks : j \notin DOMAIN ToAll(x)
    <3>1. DOMAIN ToAll(x) = {Down(h) : h \in Slaves} \cup {ToManager(Master)}
      BY DEF ToAll
    <3>2. Master \in Hubs
      BY Constants
    <3> QED BY <3>1, <3>2, LinksDiffer DEF UpLinks, Slaves
  <2>4. PICK out : out = ToAll(x)
    OBVIOUS
  <2>5. \A h \in Hubs : /\ FromMgrQ(h)' = IF h = k /\ h = Master THEN Tail(FromMgrQ(h)) ELSE FromMgrQ(h)
                        /\ UpQ(h)' = IF h = k /\ h # Master THEN Tail(UpQ(h)) ELSE UpQ(h)
    <3>1. Transmit(Arriving(k), out) /\ \A j \in UpLinks : j \notin DOMAIN out
      BY <2>1, <2>2, <2>3, <2>4
    <3> QED BY <1>1, <3>1, MasterTakes
  <2>6. \A h \in Hubs :
          /\ DownQ(h)' = IF h = Master THEN DownQ(h) ELSE Append(DownQ(h), x)
          /\ ToMgrQ(h)' = IF h = Master THEN Append(ToMgrQ(h), x) ELSE ToMgrQ(h)
    <3>1. Transmit(l, ToAll(x))
      BY <2>1, <2>2
    <3> QED BY <1>1, <3>1, AllGet
  <2> QED BY <1>2, <1>3, <2>1, <2>2, <2>5, <2>6
<1>4. CASE ~Complete(reached \cup {n})
  <2>1. reached' = reached \cup {n} /\ UNCHANGED <<active, pending>> /\ Transmit(l, Nothing)
    BY <1>4 DEF Arrives
  <2>2. PICK out : out = Nothing
    OBVIOUS
  <2>3. Transmit(Arriving(k), out) /\ DOMAIN out = {} /\ \A j \in UpLinks : j \notin DOMAIN out
    BY <2>1, <2>2, NoDomain
  <2>4. \A h \in Hubs : /\ FromMgrQ(h)' = IF h = k /\ h = Master THEN Tail(FromMgrQ(h)) ELSE FromMgrQ(h)
                        /\ UpQ(h)' = IF h = k /\ h # Master THEN Tail(UpQ(h)) ELSE UpQ(h)
                        /\ DownQ(h)' = DownQ(h) /\ ToMgrQ(h)' = ToMgrQ(h)
    BY <1>1, <2>3, MasterTakes
  <2> QED BY <1>2, <1>4, <2>1, <2>4
<1> QED BY <1>3, <1>4

(* The queues from the managers when the master hub takes a message.       *)
LEMMA UpTyped ==
  ASSUME Before, NEW k \in Hubs, ArrivingQ(k) # <<>>,
         \A h \in Hubs : /\ FromMgrQ(h)' = IF h = k /\ h = Master THEN Tail(FromMgrQ(h)) ELSE FromMgrQ(h)
                         /\ UpQ(h)' = IF h = k /\ h # Master THEN Tail(UpQ(h)) ELSE UpQ(h)
  PROVE  \A h \in Hubs : FromMgrQ(h)' \in Seq(UpKind(h, requested)) /\ UpQ(h)' \in Seq(UpKind(h, requested))
<1> SUFFICES ASSUME NEW h \in Hubs
             PROVE  FromMgrQ(h)' \in Seq(UpKind(h, requested)) /\ UpQ(h)' \in Seq(UpKind(h, requested))
  OBVIOUS
<1>1. FromMgrQ(h) \in Seq(UpKind(h, requested)) /\ UpQ(h) \in Seq(UpKind(h, requested))
  BY BeforeHas DEF Kinds
<1>2. CASE h = k /\ h = Master
  <2>1. FromMgrQ(h) # <<>> /\ FromMgrQ(h)' = Tail(FromMgrQ(h)) /\ UpQ(h)' = UpQ(h)
    BY <1>2 DEF ArrivingQ
  <2> QED BY <1>1, <2>1
<1>3. CASE h = k /\ h # Master
  <2>1. UpQ(h) # <<>> /\ UpQ(h)' = Tail(UpQ(h)) /\ FromMgrQ(h)' = FromMgrQ(h)
    BY <1>3 DEF ArrivingQ
  <2> QED BY <1>1, <2>1
<1>4. CASE h # k
  BY <1>1, <1>4
<1> QED BY <1>2, <1>3, <1>4

(* MasterBarrierReached keeps the invariant.                               *)
LEMMA MasterBarrierReachedRight ==
  ASSUME Before, NEW l \in Incoming, MasterBarrierReached(l)
  PROVE  Core'
<1>1. PICK k \in Hubs : l = Arriving(k) /\ link[l] = ArrivingQ(k)
  BY IncomingOf
<1>2. PICK x : x = Head(ArrivingQ(k))
  OBVIOUS
<1>3. /\ ArrivingQ(k) # <<>> /\ link[l] # <<>> /\ x.type = "BarrierReached" /\ Arrives(l, x.from, x.id)
      /\ UNCHANGED <<uuid, participants, tracked, manager, inbox, outbox, process, requested, joined, killed>>
  BY <1>1, <1>2 DEF MasterBarrierReached, AtHead
<1>4. Typed /\ requested \in Nat /\ Kinds
  BY BeforeHas
<1>5. PICK n \in Modules : x = Reached(requested, n)
  <2>1. x \in UpKind(k, requested)
    <3>1. ArrivingQ(k) \in Seq(UpKind(k, requested))
      BY <1>4 DEF Kinds, ArrivingQ
    <3> QED BY <1>2, <1>3, <3>1
  <2>2. PICK m \in Modules : HubOf[m] = k /\ (x = Reached(requested, m) \/ x = Exit(m, FALSE))
    BY <1>4, <2>1, UpKinded
  <2>3. Exit(m, FALSE).type = "ModuleExit"
    BY DEF Exit
  <2>4. x # Exit(m, FALSE)
    BY <1>3, <2>3
  <2> QED BY <2>2, <2>4
<1>6. Arrives(l, n, requested)
  <2>1. x.from = n /\ x.id = requested
    BY <1>5 DEF Reached
  <2> QED BY <1>3, <2>1
<1>7. /\ \A h \in Hubs : /\ FromMgrQ(h)' = IF h = k /\ h = Master THEN Tail(FromMgrQ(h)) ELSE FromMgrQ(h)
                         /\ UpQ(h)' = IF h = k /\ h # Master THEN Tail(UpQ(h)) ELSE UpQ(h)
      /\ \A m \in Modules : Spawns(m)' = Spawns(m)
      /\ Complete(reached \cup {n}) =>
           /\ active' = [active EXCEPT ![Master] = FALSE] /\ reached' = {} /\ pending' = pending \ {requested}
           /\ \A y : y = Reached(requested, HubId) => \A h \in Hubs :
                /\ DownQ(h)' = IF h = Master THEN DownQ(h) ELSE Append(DownQ(h), y)
                /\ ToMgrQ(h)' = IF h = Master THEN Append(ToMgrQ(h), y) ELSE ToMgrQ(h)
      /\ ~Complete(reached \cup {n}) =>
           /\ reached' = reached \cup {n} /\ UNCHANGED <<active, pending>>
           /\ \A h \in Hubs : DownQ(h)' = DownQ(h) /\ ToMgrQ(h)' = ToMgrQ(h)
  BY <1>1, <1>3, <1>4, <1>6, ArrivesEffects
<1>8. \E m \in Modules :
           /\ HubOf[m] = k /\ (x = Reached(requested, m) \/ x = Exit(m, FALSE))
           /\ \A o \in Modules \ {m} :
                /\ ExitsF(o)' = ExitsF(o) /\ ExitsU(o)' = ExitsU(o)
                /\ AnswersF(o)' = AnswersF(o) /\ AnswersU(o)' = AnswersU(o) /\ (UpOrder(o) => UpOrder(o)')
           /\ UpOrder(m)'
           /\ x = Reached(requested, m) =>
                Late(m)' = Late(m) - 1 /\ ExitsF(m)' = ExitsF(m) /\ ExitsU(m)' = ExitsU(m)
  BY <1>2, <1>3, <1>7, TakenUp
<1>9. /\ \A o \in Modules \ {n} :
           /\ ExitsF(o)' = ExitsF(o) /\ ExitsU(o)' = ExitsU(o)
           /\ AnswersF(o)' = AnswersF(o) /\ AnswersU(o)' = AnswersU(o) /\ (UpOrder(o) => UpOrder(o)')
      /\ UpOrder(n)' /\ Late(n)' = Late(n) - 1 /\ ExitsF(n)' = ExitsF(n) /\ ExitsU(n)' = ExitsU(n)
  <2>1. \A m : x # Exit(m, FALSE)
    BY <1>3 DEF Exit
  <2>2. \A m : x = Reached(requested, m) => m = n
    BY <1>5 DEF Reached
  <2> QED BY <1>8, <2>1, <2>2
<1>10. Late(n) = 1 /\ Early(n) = 0 /\ Late(n)' = 0 /\ active[Master] /\ n \in Expected
  <2>1. Late(n) \in Nat /\ Late(n)' \in Nat /\ Early(n) \in Nat
    BY BeforeHas, AtomsThen DEF Atoms
  <2>2. Early(n) + Late(n) <= 1 /\ (Early(n) + Late(n) = 1 => active[Master] /\ n \in Expected)
    BY BeforeHas DEF Tokens
  <2> QED BY <1>9, <2>1, <2>2
<1>11. Heard(n)
  <2>1. \A h \in Hubs : FromMgrQ(h)' \in Seq(UpKind(h, requested)) /\ UpQ(h)' \in Seq(UpKind(h, requested))
    BY <1>3, <1>7, UpTyped
  <2> QED BY <1>3, <1>9, <1>10, <2>1 DEF Heard
<1>12. CASE Complete(reached \cup {n})
  <2>1. PICK y : y = Reached(requested, HubId)
    OBVIOUS
  <2> QED BY <1>7, <1>10, <1>11, <1>12, <2>1, HeardReleases
<1>13. CASE ~Complete(reached \cup {n})
  BY <1>7, <1>10, <1>11, <1>13, HeardStays
<1> QED BY <1>12, <1>13

(* MasterModuleExit keeps the invariant: at the master an exit counts as   *)
(* an answer.                                                              *)
LEMMA MasterModuleExitRight ==
  ASSUME Before, NEW l \in Incoming, MasterModuleExit(l)
  PROVE  Core'
<1>1. PICK k \in Hubs : l = Arriving(k) /\ link[l] = ArrivingQ(k) /\ l \in Links /\ l \notin DownLinks
  BY IncomingOf
<1>2. PICK x : x = Head(ArrivingQ(k))
  OBVIOUS
<1>3. /\ ArrivingQ(k) # <<>> /\ link[l] # <<>> /\ x.type = "ModuleExit"
      /\ UNCHANGED <<uuid, participants, manager, inbox, outbox, process, requested, joined, killed>>
      /\ tracked' = [tracked EXCEPT ![x.module] = IF x.crashed THEN "crashed" ELSE "quit"]
      /\ IF active[Master] THEN Arrives(l, x.module, uuid[Master])
         ELSE Transmit(l, Nothing) /\ UNCHANGED <<active, reached, pending>>
  BY <1>1, <1>2 DEF MasterModuleExit, AtHead
<1>4. Typed /\ requested \in Nat /\ Kinds /\ Chain /\ MasterRight /\ Master \in Hubs
  BY BeforeHas, Constants
<1>5. PICK n \in Modules : HubOf[n] = k /\ x = Exit(n, FALSE)
  <2>1. x \in UpKind(k, requested)
    <3>1. ArrivingQ(k) \in Seq(UpKind(k, requested))
      BY <1>4 DEF Kinds, ArrivingQ
    <3> QED BY <1>2, <1>3, <3>1
  <2>2. PICK m \in Modules : HubOf[m] = k /\ (x = Reached(requested, m) \/ x = Exit(m, FALSE))
    BY <1>4, <2>1, UpKinded
  <2>3. Reached(requested, m).type = "BarrierReached"
    BY DEF Reached
  <2>4. x # Reached(requested, m)
    BY <1>3, <2>3
  <2> QED BY <2>2, <2>4
<1>6. x.module = n /\ ~x.crashed /\ tracked' = [tracked EXCEPT ![n] = "quit"] /\ uuid[Master] = requested
  <2>1. x.module = n /\ ~x.crashed
    BY <1>5 DEF Exit
  <2> QED BY <1>3, <1>4, <2>1 DEF MasterRight
<1>7. /\ \A h \in Hubs : /\ FromMgrQ(h)' = IF h = k /\ h = Master THEN Tail(FromMgrQ(h)) ELSE FromMgrQ(h)
                         /\ UpQ(h)' = IF h = k /\ h # Master THEN Tail(UpQ(h)) ELSE UpQ(h)
      /\ \A m \in Modules : Spawns(m)' = Spawns(m)
      /\ active[Master] /\ Complete(reached \cup {n}) =>
           /\ active' = [active EXCEPT ![Master] = FALSE] /\ reached' = {} /\ pending' = pending \ {requested}
           /\ \A y : y = Reached(requested, HubId) => \A h \in Hubs :
                /\ DownQ(h)' = IF h = Master THEN DownQ(h) ELSE Append(DownQ(h), y)
                /\ ToMgrQ(h)' = IF h = Master THEN Append(ToMgrQ(h), y) ELSE ToMgrQ(h)
      /\ active[Master] /\ ~Complete(reached \cup {n}) => reached' = reached \cup {n}
      /\ ~active[Master] => reached' = reached
      /\ ~(active[Master] /\ Complete(reached \cup {n})) =>
           /\ UNCHANGED <<active, pending>>
           /\ \A h \in Hubs : DownQ(h)' = DownQ(h) /\ ToMgrQ(h)' = ToMgrQ(h)
  <2>1. CASE active[Master]
    <3>1. Arrives(l, n, requested)
      BY <1>3, <1>6, <2>1
    <3>2. /\ \A h \in Hubs : /\ FromMgrQ(h)' = IF h = k /\ h = Master THEN Tail(FromMgrQ(h)) ELSE FromMgrQ(h)
                             /\ UpQ(h)' = IF h = k /\ h # Master THEN Tail(UpQ(h)) ELSE UpQ(h)
          /\ \A m \in Modules : Spawns(m)' = Spawns(m)
          /\ Complete(reached \cup {n}) =>
               /\ active' = [active EXCEPT ![Master] = FALSE] /\ reached' = {} /\ pending' = pending \ {requested}
               /\ \A y : y = Reached(requested, HubId) => \A h \in Hubs :
                    /\ DownQ(h)' = IF h = Master THEN DownQ(h) ELSE Append(DownQ(h), y)
                    /\ ToMgrQ(h)' = IF h = Master THEN Append(ToMgrQ(h), y) ELSE ToMgrQ(h)
          /\ ~Complete(reached \cup {n}) =>
               /\ reached' = reached \cup {n} /\ UNCHANGED <<active, pending>>
               /\ \A h \in Hubs : DownQ(h)' = DownQ(h) /\ ToMgrQ(h)' = ToMgrQ(h)
      BY <1>1, <1>3, <1>4, <3>1, ArrivesEffects
    <3> QED BY <2>1, <3>2
  <2>2. CASE ~active[Master]
    <3>1. Transmit(l, Nothing) /\ UNCHANGED <<active, reached, pending>>
      BY <1>3, <2>2
    <3>2. PICK out : out = Nothing
      OBVIOUS
    <3>3. Transmit(Arriving(k), out) /\ DOMAIN out = {} /\ (\A j \in UpLinks : j \notin DOMAIN out) /\ link[Arriving(k)] # <<>>
      BY <1>1, <1>3, <3>1, <3>2, NoDomain
    <3>4. \A h \in Hubs : /\ FromMgrQ(h)' = IF h = k /\ h = Master THEN Tail(FromMgrQ(h)) ELSE FromMgrQ(h)
                          /\ UpQ(h)' = IF h = k /\ h # Master THEN Tail(UpQ(h)) ELSE UpQ(h)
                          /\ DownQ(h)' = DownQ(h) /\ ToMgrQ(h)' = ToMgrQ(h)
      BY <1>4, <3>3, MasterTakes
    <3>5. \A m \in Modules : Spawns(m)' = Spawns(m)
      BY <3>4, SpawnsUntouched, Constants
    <3> QED BY <2>2, <3>1, <3>4, <3>5
  <2> QED BY <2>1, <2>2
<1>8. /\ \A o \in Modules \ {n} :
           /\ ExitsF(o)' = ExitsF(o) /\ ExitsU(o)' = ExitsU(o)
           /\ AnswersF(o)' = AnswersF(o) /\ AnswersU(o)' = AnswersU(o) /\ (UpOrder(o) => UpOrder(o)')
      /\ UpOrder(n)' /\ AnswersF(n)' = AnswersF(n) /\ AnswersU(n)' = AnswersU(n)
      /\ k = Master => ExitsF(n)' = ExitsF(n) - 1 /\ ExitsU(n)' = ExitsU(n) /\ ExitsF(n) > 0
      /\ k # Master => /\ ExitsU(n)' = ExitsU(n) - 1 /\ ExitsF(n)' = ExitsF(n) /\ ExitsU(n) > 0
                       /\ AnswersU(n) = 0
  <2>1. \E m \in Modules :
           /\ HubOf[m] = k /\ (x = Reached(requested, m) \/ x = Exit(m, FALSE))
           /\ \A o \in Modules \ {m} :
                /\ ExitsF(o)' = ExitsF(o) /\ ExitsU(o)' = ExitsU(o)
                /\ AnswersF(o)' = AnswersF(o) /\ AnswersU(o)' = AnswersU(o) /\ (UpOrder(o) => UpOrder(o)')
           /\ UpOrder(m)'
           /\ x = Reached(requested, m) =>
                Late(m)' = Late(m) - 1 /\ ExitsF(m)' = ExitsF(m) /\ ExitsU(m)' = ExitsU(m)
           /\ x = Exit(m, FALSE) =>
                /\ AnswersF(m)' = AnswersF(m) /\ AnswersU(m)' = AnswersU(m)
                /\ k = Master => ExitsF(m)' = ExitsF(m) - 1 /\ ExitsU(m)' = ExitsU(m) /\ ExitsF(m) > 0
                /\ k # Master => /\ ExitsU(m)' = ExitsU(m) - 1 /\ ExitsF(m)' = ExitsF(m) /\ ExitsU(m) > 0
                                 /\ AnswersU(m) = 0
    <3>1. \A h \in Hubs : /\ FromMgrQ(h)' = IF h = k /\ h = Master THEN Tail(FromMgrQ(h)) ELSE FromMgrQ(h)
                          /\ UpQ(h)' = IF h = k /\ h # Master THEN Tail(UpQ(h)) ELSE UpQ(h)
      BY <1>7
    <3>2. ArrivingQ(k) # <<>>
      BY <1>3
    <3> QED BY ONLY Before, <3>1, <3>2, <1>2, TakenUp, k \in Hubs
  <2>2. \A m : x # Reached(requested, m)
    BY <1>3 DEF Reached
  <2>3. \A m : x = Exit(m, FALSE) => m = n
    BY <1>5 DEF Exit
  <2> QED BY <2>1, <2>2, <2>3
<1>9. /\ Tracked(n) /\ Exited(n) /\ ~Running(n) /\ Spawns(n) = 0 /\ ExitsF(n)' = 0 /\ ExitsU(n)' = 0
      /\ Late(n)' = 0 /\ Early(n) = 0 /\ (active[Master] => n \in Expected)
  <2>1. /\ Atoms(n) /\ Staged(n) /\ Tokens(n) /\ ExitOrder(n) /\ (n \in killed => joined[n] = 0)
        /\ (NotYet(n) \/ IsUp(n) \/ Exited(n))
    BY BeforeHas
  <2>2. CASE k = Master
    <3>1. /\ Tracked(n) /\ Exited(n) /\ ~Running(n) /\ Spawns(n) = 0 /\ ExitsF(n) = 1 /\ ExitsU(n) = 0
          /\ AnswersF(n) = 0 /\ AnswersU(n) = 0 /\ Early(n) = 0 /\ (active[Master] => n \in Expected \ reached)
      BY <1>5, <1>8, <2>2, ExitComes
    <3> QED BY <1>8, <2>2, <3>1 DEF Late
  <2>3. CASE k # Master
    <3>1. One(Tracked(n)) = 0 \/ (One(Tracked(n)) = 1 /\ Tracked(n))
      BY DEF One
    <3>2. One(Running(n)) \in Nat /\ (One(Running(n)) = 0 => ~Running(n))
      BY DEF One
    <3>3. Spawns(n) + One(Running(n)) + ExitsF(n) + ExitsU(n) = One(Tracked(n))
      BY <2>1 DEF Staged
    <3>4. Spawns(n) \in Nat /\ ExitsF(n) \in Nat /\ ExitsU(n) \in Nat /\ Early(n) \in Nat
      BY <2>1 DEF Atoms
    <3>5. Tracked(n) /\ ~Running(n) /\ Spawns(n) = 0 /\ ExitsF(n) = 0 /\ ExitsU(n) = 1
      BY <1>8, <2>3, <3>1, <3>2, <3>3, <3>4
    <3>6. Exited(n) /\ joined[n] = 0
      BY <2>1, <3>5 DEF Staged
    <3>7. AnswersF(n) = 0 /\ AnswersU(n) = 0
      BY <1>8, <2>1, <2>3 DEF ExitOrder
    <3>8. Late(n) = 0 /\ Late(n)' = 0
      BY <1>8, <3>7 DEF Late
    <3>9. Early(n) = 0
      BY <2>1, <3>4, <3>5, <3>8 DEF Tokens
    <3>10. active[Master] => n \in Expected
      BY <1>4, <3>5, <3>6 DEF Expected, Chain
    <3> QED BY <1>8, <2>3, <3>5, <3>6, <3>8, <3>9, <3>10
  <2> QED BY <2>2, <2>3
<1>10. Heard(n)
  <2>1. \A h \in Hubs : FromMgrQ(h)' \in Seq(UpKind(h, requested)) /\ UpQ(h)' \in Seq(UpKind(h, requested))
    BY <1>3, <1>7, UpTyped
  <2>2. DOMAIN tracked = Modules
    BY <1>4 DEF Typed, HubTyped
  <2>3. tracked'[n] = "quit" /\ \A m \in Modules \ {n} : tracked'[m] = tracked[m]
    BY <1>6, <2>2
  <2> QED BY <1>3, <1>8, <1>9, <2>1, <2>3 DEF Heard
<1>11. CASE active[Master] /\ Complete(reached \cup {n})
  <2>1. PICK y : y = Reached(requested, HubId)
    OBVIOUS
  <2> QED BY <1>7, <1>9, <1>10, <1>11, <2>1, HeardReleases
<1>12. CASE ~(active[Master] /\ Complete(reached \cup {n}))
  BY <1>7, <1>9, <1>10, <1>12, HeardStays
<1> QED BY <1>11, <1>12

-----------------------------------------------------------------------------
(* Scripts                                                                 *)

(* With more modules that were killed, more messages may be under way.     *)
LEMMA KindsWider ==
  ASSUME NEW b, NEW K, NEW L, K \subseteq L
  PROVE  /\ \A q : q \in Seq(DownKind(b, K)) => q \in Seq(DownKind(b, L))
         /\ \A m, q : q \in Seq(InKind(m, b, K)) => q \in Seq(InKind(m, b, L))
<1>1. DownKind(b, K) \subseteq DownKind(b, L) /\ \A m : InKind(m, b, K) \subseteq InKind(m, b, L)
  BY DEF DownKind, InKind
<1> QED BY <1>1, SeqWider

(* The master hub sends x towards module n.                                *)
LEMMA RoutedKinds ==
  ASSUME Before, NEW n \in Modules, NEW x, Deliver(Route(n, x)), x \in DownKind(requested, killed'),
         killed \subseteq killed', requested' = requested, UNCHANGED <<inbox, outbox>>
  PROVE  Kinds'
<1>1. Typed /\ Kinds
  BY BeforeHas
<1>2. \A h \in Hubs :
        /\ DownQ(h)' = IF h = HubOf[n] /\ h # Master THEN Append(DownQ(h), x) ELSE DownQ(h)
        /\ ToMgrQ(h)' = IF h = HubOf[n] /\ h = Master THEN Append(ToMgrQ(h), x) ELSE ToMgrQ(h)
        /\ FromMgrQ(h)' = FromMgrQ(h) /\ UpQ(h)' = UpQ(h)
  BY <1>1, RouteGets
<1>3. \A m \in Modules : In(m)' = In(m) /\ Out(m)' = Out(m)
  BY InSame, OutSame
<1>4. ASSUME NEW h \in Hubs
      PROVE  DownQ(h)' \in Seq(DownKind(requested, killed')) /\ ToMgrQ(h)' \in Seq(DownKind(requested, killed'))
  <2>1. DownQ(h) \in Seq(DownKind(requested, killed)) /\ ToMgrQ(h) \in Seq(DownKind(requested, killed))
    BY <1>1 DEF Kinds
  <2>2. DownQ(h) \in Seq(DownKind(requested, killed')) /\ ToMgrQ(h) \in Seq(DownKind(requested, killed'))
    BY <2>1, KindsWider
  <2>3. /\ Append(DownQ(h), x) \in Seq(DownKind(requested, killed'))
        /\ Append(ToMgrQ(h), x) \in Seq(DownKind(requested, killed'))
    BY <2>2, SeqAppended
  <2> QED BY <1>2, <2>2, <2>3
<1>5. \A h \in Hubs : FromMgrQ(h)' \in Seq(UpKind(h, requested)) /\ UpQ(h)' \in Seq(UpKind(h, requested))
  BY <1>1, <1>2 DEF Kinds
<1>6. \A m \in Modules : In(m)' \in Seq(InKind(m, requested, killed')) /\ Out(m)' \in Seq(OutKind(m, requested))
  <2>1. \A m \in Modules : In(m) \in Seq(InKind(m, requested, killed)) /\ Out(m) \in Seq(OutKind(m, requested))
    BY <1>1 DEF Kinds
  <2>2. \A m \in Modules : In(m) \in Seq(InKind(m, requested, killed'))
    BY <2>1, KindsWider
  <2> QED BY <1>3, <2>1, <2>2
<1> QED BY <1>4, <1>5, <1>6 DEF Kinds

(* What is routed to a module keeps Ways.                                  *)
LEMMA RoutedWays ==
  ASSUME Before, NEW n \in Modules, NEW x, Deliver(Route(n, x)), ~IsEvent(x),
         x.type = "Spawn" => 2 * joined'[x.module] <= HubAt(Master) + 1,
         UNCHANGED <<active, uuid, manager>>,
         \A m \in Modules : joined'[m] = joined[m] \/ \A h \in Hubs : SpawnsAt(h, m) = 0
  PROVE  Ways'
<1>1. Typed /\ Ways /\ Chain /\ Master \in Hubs /\ requested \in Nat /\ HubAt(Master) \in Nat
  BY BeforeHas, Constants DEF Chain
<1>2. \A h \in Hubs :
        /\ DownQ(h)' = IF h = HubOf[n] /\ h # Master THEN Append(DownQ(h), x) ELSE DownQ(h)
        /\ ToMgrQ(h)' = IF h = HubOf[n] /\ h = Master THEN Append(ToMgrQ(h), x) ELSE ToMgrQ(h)
  BY <1>1, RouteGets
<1>3. \A h \in Hubs : HubAt(h)' = HubAt(h) /\ MgrAt(h)' = MgrAt(h)
  BY DEF HubAt, MgrAt, manager
<1>4. ASSUME NEW h \in Hubs
      PROVE  Brings(DownQ(h)', HubAt(h)', HubAt(Master)', joined') /\ Brings(ToMgrQ(h)', MgrAt(h)', HubAt(h)', joined')
  <2>1. /\ DownQ(h) \in Seq(DownMsgs(requested)) /\ ToMgrQ(h) \in Seq(DownMsgs(requested))
        /\ Brings(DownQ(h), HubAt(h), HubAt(Master), joined) /\ Brings(ToMgrQ(h), MgrAt(h), HubAt(h), joined)
    BY <1>1, QueuesTyped DEF Ways
  <2>2. ASSUME NEW y \in DownMsgs(requested), y.type = "Spawn"
        PROVE  y.module \in Modules /\ y \in SpawnOf(y.module)
    BY <1>1, <2>2, DownMsgRead DEF ToModule, SpawnOf
  <2>3. \A i \in 1..Len(DownQ(h)) : DownQ(h)[i].type = "Spawn" => joined'[DownQ(h)[i].module] = joined[DownQ(h)[i].module]
    <3> SUFFICES ASSUME NEW i \in 1..Len(DownQ(h)), DownQ(h)[i].type = "Spawn"
                 PROVE  joined'[DownQ(h)[i].module] = joined[DownQ(h)[i].module]
      OBVIOUS
    <3>1. PICK m : m = DownQ(h)[i].module
      OBVIOUS
    <3>2. m \in Modules /\ DownQ(h)[i] \in SpawnOf(m)
      BY <2>1, <2>2, <3>1
    <3>3. Count(DownQ(h), SpawnOf(m)) # 0
      BY <2>1, <3>2, CountNat
    <3>4. Count(DownQ(h), SpawnOf(m)) \in Nat /\ Count(ToMgrQ(h), SpawnOf(m)) \in Nat
      BY <1>1, <3>2, SpawnsNat
    <3>5. SpawnsAt(h, m) # 0
      BY ONLY <3>3, <3>4 DEF SpawnsAt
    <3> QED BY <3>1, <3>2, <3>5
  <2>4. \A i \in 1..Len(ToMgrQ(h)) : ToMgrQ(h)[i].type = "Spawn" => joined'[ToMgrQ(h)[i].module] = joined[ToMgrQ(h)[i].module]
    <3> SUFFICES ASSUME NEW i \in 1..Len(ToMgrQ(h)), ToMgrQ(h)[i].type = "Spawn"
                 PROVE  joined'[ToMgrQ(h)[i].module] = joined[ToMgrQ(h)[i].module]
      OBVIOUS
    <3>1. PICK m : m = ToMgrQ(h)[i].module
      OBVIOUS
    <3>2. m \in Modules /\ ToMgrQ(h)[i] \in SpawnOf(m)
      BY <2>1, <2>2, <3>1
    <3>3. Count(ToMgrQ(h), SpawnOf(m)) # 0
      BY <2>1, <3>2, CountNat
    <3>4. Count(DownQ(h), SpawnOf(m)) \in Nat /\ Count(ToMgrQ(h), SpawnOf(m)) \in Nat
      BY <1>1, <3>2, SpawnsNat
    <3>5. SpawnsAt(h, m) # 0
      BY ONLY <3>3, <3>4 DEF SpawnsAt
    <3> QED BY <3>1, <3>2, <3>5
  <2>5. PICK J : J = joined'
    OBVIOUS
  <2>6. Brings(DownQ(h), HubAt(h), HubAt(Master), J) /\ Brings(ToMgrQ(h), MgrAt(h), HubAt(h), J)
    BY <2>1, <2>3, <2>4, <2>5, BringsJoined
  <2>7. Brings(Append(DownQ(h), x), HubAt(h), HubAt(Master), J)
    BY <1>1, <2>1, <2>5, <2>6, BringsOther
  <2>8. h = Master => Brings(Append(ToMgrQ(h), x), MgrAt(h), HubAt(h), J)
    BY <1>1, <2>1, <2>5, <2>6, BringsOther
  <2> QED BY <1>1, <1>2, <1>3, <2>5, <2>6, <2>7, <2>8
<1> QED BY <1>4 DEF Ways

(* What is routed that is not Spawn.                                       *)
LEMMA RoutedStep ==
  ASSUME Before, NEW n \in Modules, NEW x, Deliver(Route(n, x)), x \in DownKind(requested, killed'),
         x.type \notin {"Spawn", "Barrier", "BarrierReached"}, killed \subseteq killed',
         UNCHANGED <<hub, manager, inbox, outbox, process, requested, pending, joined>>
  PROVE  Core'
<1>1. /\ Typed /\ MasterRight /\ Chain /\ \A m \in Modules : Mod(m)
      /\ UNCHANGED <<active, uuid, participants, reached, tracked, alive, delayed, answered>>
      /\ requested \in Nat
  BY BeforeHas DEF hub, process
<1>2. /\ (\A h \in Hubs : HubAt(h)' = HubAt(h)) /\ \A m \in Modules : HubKept(m)
  BY <1>1, HubUntouched
<1>3. \A m \in Modules : ManagerKept(m)
  BY ManagerUntouched
<1>4. \A m \in Modules : ProcKept(m)
  BY <1>1, InSame, OutSame, OwnUntouched, StatusSame DEF ProcKept
<1>5. ASSUME NEW m \in Modules
      PROVE  QueuesKept(m)
  <2>1. HubOf[m] \in Hubs
    BY Constants
  <2>2. x \notin SpawnOf(m)
    BY OfTypes
  <2>3. Spawns(m)' = Spawns(m) + (IF HubOf[m] = HubOf[n] THEN One(x \in SpawnOf(m)) ELSE 0)
    BY <1>1, <2>1, RoutedSpawns DEF Spawns
  <2>4. Spawns(m)' = Spawns(m)
    BY <1>1, <2>2, <2>3, AtomsTyped DEF One, Atoms
  <2>5. FromMgrQ(HubOf[m])' = FromMgrQ(HubOf[m]) /\ UpQ(HubOf[m])' = UpQ(HubOf[m])
    BY <1>1, <2>1, RouteGets
  <2> QED BY <2>4, <2>5, QueuesUntouched
<1>6. \A m \in Modules : Mod(m)'
  <2>1. \A m \in Modules : ModSame(m)
    BY <1>2, <1>3, <1>4, <1>5 DEF ModSame
  <2> QED BY <1>1, <2>1, ModFrame
<1>7. MasterRight'
  BY <1>1, <1>2, MasterUntouched DEF HubKept, TrackedKept
<1>8. Ways'
  BY <1>1, RoutedWays DEF IsEvent
<1>9. Kinds'
  BY RoutedKinds
<1> QED BY <1>6, <1>7, <1>8, <1>9, CoreNext

(* Execute keeps the invariant.                                            *)
LEMMA ExecuteRight ==
  ASSUME Before, NEW n \in Modules, Execute(n)
  PROVE  Core'
<1>1. /\ Deliver(Route(n, To("Upstream", n))) /\ killed' = killed
      /\ UNCHANGED <<hub, manager, inbox, outbox, process, requested, pending, joined>>
  BY DEF Execute
<1>2. PICK x : x = To("Upstream", n)
  OBVIOUS
<1>3. x.type = "Upstream" /\ x \in DownKind(requested, killed)
  BY <1>2 DEF To, DownKind
<1> QED BY <1>1, <1>2, <1>3, RoutedStep

(* Kill keeps the invariant.                                               *)
LEMMA KillRight ==
  ASSUME Before, NEW n \in Modules, Kill(n)
  PROVE  Core'
<1>1. tracked[n] # "crashed"
  BY BeforeHas DEF Staged, Unknown, Tracked, Gone
<1>2. /\ Deliver(Route(n, To("Kill", n))) /\ killed' = killed \cup {n}
      /\ UNCHANGED <<hub, manager, inbox, outbox, process, requested, pending, joined>>
  BY <1>1 DEF Kill
<1>3. PICK x : x = To("Kill", n)
  OBVIOUS
<1>4. x.type = "Kill" /\ x \in DownKind(requested, killed')
  BY <1>2, <1>3 DEF To, DownKind
<1> QED BY <1>2, <1>3, <1>4, RoutedStep

(* A module is asked for.                                                  *)
LEMMA SpawnRight ==
  ASSUME Before, NEW n \in Modules, Spawn(n)
  PROVE  Core'
<1>1. /\ Typed /\ MasterRight /\ Chain /\ requested \in Nat /\ Master \in Hubs
      /\ \A m \in Modules : Mod(m) /\ Atoms(m) /\ HubOf[m] \in Hubs
  BY BeforeHas, Constants
<1>2. PICK x : x = To("Spawn", n)
  OBVIOUS
<1>3. /\ Deliver(Route(n, x)) /\ Unknown(n)
      /\ tracked' = [tracked EXCEPT ![n] = "running"] /\ joined' = [joined EXCEPT ![n] = requested]
      /\ UNCHANGED <<active, uuid, participants, reached, manager, inbox, outbox, process, requested, pending, killed>>
      /\ UNCHANGED <<alive, delayed, answered>>
  BY <1>2 DEF Spawn, Unknown, process
<1>4. /\ x.type = "Spawn" /\ x.module = n /\ x \in DownKind(requested, killed) /\ ~IsEvent(x)
      /\ x \in SpawnOf(n) /\ \A m \in Modules \ {n} : x \notin SpawnOf(m)
  <2>1. x.type = "Spawn" /\ x.module = n
    BY <1>2 DEF To
  <2>2. x \in DownKind(requested, killed) /\ x \in SpawnOf(n)
    BY <1>2 DEF DownKind, SpawnOf
  <2> QED BY <2>1, <2>2, OfTypes DEF IsEvent
<1>5. /\ tracked'[n] = "running" /\ joined'[n] = requested
      /\ \A m \in Modules \ {n} : tracked'[m] = tracked[m] /\ joined'[m] = joined[m]
  BY <1>1, <1>3 DEF Typed, HubTyped, ScriptTyped
<1>6. (\A h \in Hubs : SpawnsAt(h, n) = 0) /\ NotYet(n) /\ n \notin killed /\ Spawns(n) = 0
  <2>1. Spawns(n) = 0 /\ n \notin killed /\ NotYet(n)
    BY <1>3 DEF StartedOnce, Before
  <2>2. \A h \in Hubs : HubOf[n] # h => SpawnsAt(h, n) = 0
    BY DEF StartedOnce, Before
  <2> QED BY <2>1, <2>2 DEF Spawns
<1>7. Kinds'
  BY <1>3, <1>4, RoutedKinds
<1>8. Ways'
  <2>1. 2 * joined'[x.module] <= HubAt(Master) + 1
    BY <1>1, <1>4, <1>5 DEF Chain
  <2>2. \A m \in Modules : joined'[m] = joined[m] \/ \A h \in Hubs : SpawnsAt(h, m) = 0
    BY <1>5, <1>6
  <2> QED BY <1>3, <1>4, <2>1, <2>2, RoutedWays
<1>9. \A h \in Hubs : HubAt(h)' = HubAt(h) /\ HubAt(h) \in Nat
  BY <1>1, <1>3 DEF HubAt, Chain
<1>10. \A m \in Modules : ManagerKept(m)
  BY <1>3, ManagerUntouched
<1>11. \A m \in Modules : ProcKept(m)
  BY <1>3, InSame, OutSame, OwnUntouched, StatusSame DEF ProcKept
<1>12. /\ \A m \in Modules : BarrierKept(m)
       /\ \A m \in Modules \ {n} : TrackedKept(m)
  <2>1. \A m \in Modules \ {n} : TrackedKept(m)
    BY <1>3, <1>5 DEF TrackedKept, Unknown, Tracked, Gone
  <2> QED BY <1>1, <1>3, <1>9, <2>1 DEF BarrierKept
<1>13. ASSUME NEW m \in Modules
       PROVE  /\ FromMgrQ(HubOf[m])' = FromMgrQ(HubOf[m]) /\ UpQ(HubOf[m])' = UpQ(HubOf[m])
              /\ Spawns(m)' = IF m = n THEN 1 ELSE Spawns(m)
  <2>1. FromMgrQ(HubOf[m])' = FromMgrQ(HubOf[m]) /\ UpQ(HubOf[m])' = UpQ(HubOf[m])
    BY <1>1, <1>3, RouteGets
  <2>2. Spawns(m)' = Spawns(m) + (IF HubOf[m] = HubOf[n] THEN One(x \in SpawnOf(m)) ELSE 0)
    BY <1>1, <1>3, RoutedSpawns DEF Spawns
  <2>3. m = n => One(x \in SpawnOf(m)) = 1
    BY <1>4 DEF One
  <2>4. m # n => One(x \in SpawnOf(m)) = 0
    BY <1>4 DEF One
  <2>5. Spawns(m) \in Nat
    BY <1>1 DEF Atoms
  <2>6. Spawns(m)' = IF m = n THEN 1 ELSE Spawns(m)
    BY ONLY <1>6, <2>2, <2>3, <2>4, <2>5
  <2> QED BY <2>1, <2>6
<1>14. \A m \in Modules \ {n} : Mod(m)'
  <2>1. ASSUME NEW m \in Modules \ {n}
        PROVE  Mod(m)'
    <3>1. QueuesKept(m)
      BY <1>13, QueuesUntouched
    <3>2. ModSame(m)
      BY <1>10, <1>11, <1>12, <3>1 DEF ModSame, HubKept
    <3> QED BY <1>1, <3>2, ModFrame
  <2> QED BY <2>1
<1>15. /\ ExitsF(n)' = ExitsF(n) /\ ExitsU(n)' = ExitsU(n) /\ AnswersF(n)' = AnswersF(n)
       /\ AnswersU(n)' = AnswersU(n) /\ UpOrder(n)' = UpOrder(n)
  BY <1>13 DEF ExitsF, ExitsU, AnswersF, AnswersU, UpOrder
<1>16. ~Running(n) /\ ExitsF(n) = 0 /\ ExitsU(n) = 0 /\ ~Tracked(n)
  <2>1. NotYet(n) => ~Running(n) /\ ExitsF(n) = 0 /\ ExitsU(n) = 0
    BY <1>1 DEF Mod, Staged
  <2> QED BY <1>1, <1>3, <1>6, <2>1 DEF Atoms
<1>17. Staged(n)'
  <2>1. Tracked(n)' /\ ~Unknown(n)' /\ ~Gone(n)'
    BY <1>5 DEF Tracked, Unknown, Gone
  <2>2. Spawns(n)' = 1 /\ ~Running(n)' /\ ExitsF(n)' = 0 /\ ExitsU(n)' = 0
    BY <1>10, <1>13, <1>15, <1>16 DEF ManagerKept
  <2>3. One(Tracked(n)') = 1 /\ One(Running(n)') = 0
    BY <2>1, <2>2 DEF One
  <2>4. Spawns(n)' + One(Running(n)') + ExitsF(n)' + ExitsU(n)' = One(Tracked(n)')
    BY ONLY <2>2, <2>3
  <2>5. NotYet(n)' /\ ~IsUp(n)' /\ ~Exited(n)'
    BY <1>1, <1>6, <1>11 DEF ProcKept, StatusKept, Atoms
  <2>6. n \notin Initial /\ In(n) = <<>> /\ Out(n) = <<>> /\ Deferred(n) = 0 /\ ~Broken(n) /\ ExitLast(n) /\ ~HeldBack(n)
    BY <1>1, <1>6, <1>16 DEF Mod, Staged
  <2>7. In(n)' = <<>> /\ Out(n)' = <<>> /\ Deferred(n)' = 0 /\ ~Broken(n)' /\ ExitLast(n)' /\ ~HeldBack(n)'
    BY <1>10, <1>11, <2>6 DEF ManagerKept, ProcKept, InKept, OutKept, OwnKept
  <2> QED BY ONLY <2>1, <2>2, <2>4, <2>5, <2>6, <2>7 DEF Staged
<1>18. Tokens(n)'
  <2>1. Waits(n)' = Waits(n) /\ Early(n)' = Early(n) /\ Late(n)' = Late(n)
    BY <1>11, <1>15 DEF Waits, Early, Late, ProcKept, StatusKept, OutKept, InKept, OwnKept, One
  <2>2. Early(n) + Late(n) <= 1 /\ Early(n) + Late(n) # 1 /\ (Waits(n) => Deferred(n) = requested)
    BY <1>1, <1>16 DEF Mod, Tokens, Expected
  <2>3. Early(n) \in Nat /\ Late(n) \in Nat
    BY <1>1 DEF Atoms
  <2>4. Early(n)' = 0 /\ Late(n)' = 0
    BY ONLY <2>1, <2>2, <2>3
  <2>5. Deferred(n)' = Deferred(n) /\ requested' = requested
    BY <1>3, <1>11 DEF ProcKept, OwnKept
  <2> QED BY <2>1, <2>2, <2>4, <2>5 DEF Tokens
<1>19. ExitOrder(n)'
  BY <1>1, <1>15 DEF Mod, ExitOrder
<1>20. PastRight(n)'
  BY <1>1, <1>3, <1>5 DEF PastRight
<1>21. Works(n)'
  <2>1. (Answers(n) > 0 => Last(n) = requested) /\ OldFirst(n, requested)
    BY <1>1 DEF Mod, Works
  <2> QED BY <1>1, <1>3, <1>5, <1>11, <2>1 DEF Works, ProcKept, OutKept, OwnKept
<1>22. MasterRight'
  <2>1. Expected' = Expected
    <3>1. n \notin Expected /\ n \notin Expected'
      BY <1>1, <1>3, <1>5, <1>16 DEF Expected
    <3>2. \A m \in Modules \ {n} : m \in Expected' <=> m \in Expected
      BY <1>3, <1>5 DEF Expected, Tracked
    <3>3. Expected \subseteq Modules /\ Expected' \subseteq Modules
      BY DEF Expected
    <3> QED BY <3>1, <3>2, <3>3
  <2> QED BY <1>1, <1>3, <2>1 DEF MasterRight
<1>23. \A m \in Modules : Mod(m)'
  <2>1. Mod(n)'
    BY <1>17, <1>18, <1>19, <1>20, <1>21 DEF Mod
  <2> QED BY <1>14, <2>1
<1> QED BY <1>7, <1>8, <1>22, <1>23, CoreNext

(* With nothing under way, the queues hold no answers.                     *)
LEMMA KindsAfterwards ==
  ASSUME Before, \A m \in Modules : Early(m) = 0 /\ Late(m) = 0, NEW r \in Nat, r = requested + 1
  PROVE  /\ \A h \in Hubs : FromMgrQ(h) \in Seq(UpKind(h, r)) /\ UpQ(h) \in Seq(UpKind(h, r))
         /\ \A m \in Modules : In(m) \in Seq(InKind(m, r, killed)) /\ Out(m) \in Seq(OutKind(m, r))
<1>1. Kinds /\ requested \in Nat /\ \A m \in Modules : Atoms(m)
  BY BeforeHas
<1>2. \A m \in Modules : Asked(m) = 0 /\ Answers(m) = 0 /\ AnswersF(m) = 0 /\ AnswersU(m) = 0
  BY <1>1 DEF Atoms, Early, Late, One
<1>3. ASSUME NEW h \in Hubs
      PROVE  FromMgrQ(h) \in Seq(UpKind(h, r)) /\ UpQ(h) \in Seq(UpKind(h, r))
  <2>1. PICK S : S = {Reached(requested, m) : m \in At(h)}
    OBVIOUS
  <2>2. \A x \in UpKind(h, requested) : x \in S \/ x \in UpKind(h, r)
    BY <2>1 DEF UpKind
  <2>3. \A x \in S : \E m \in Modules : HubOf[m] = h /\ x \in ReachedBy(m)
    BY <1>1, <2>1, OfTypes DEF At
  <2>4. FromMgrQ(h) \in Seq(UpKind(h, requested)) /\ UpQ(h) \in Seq(UpKind(h, requested))
    BY <1>1 DEF Kinds
  <2>5. \A m \in Modules : HubOf[m] = h => Count(FromMgrQ(h), ReachedBy(m)) = 0 /\ Count(UpQ(h), ReachedBy(m)) = 0
    BY <1>2 DEF AnswersF, AnswersU
  <2>6. \A i \in 1..Len(FromMgrQ(h)) : FromMgrQ(h)[i] \notin S
    BY <2>3, <2>4, <2>5, CountNat
  <2>7. \A i \in 1..Len(UpQ(h)) : UpQ(h)[i] \notin S
    BY <2>3, <2>4, <2>5, CountNat
  <2>8. Count(FromMgrQ(h), S) = 0 /\ Count(UpQ(h), S) = 0
    BY <2>4, <2>6, <2>7, CountNat
  <2> QED BY <2>2, <2>4, <2>8, SeqWithout
<1>4. ASSUME NEW m \in Modules
      PROVE  In(m) \in Seq(InKind(m, r, killed)) /\ Out(m) \in Seq(OutKind(m, r))
  <2>1. In(m) \in Seq(InKind(m, requested, killed)) /\ Out(m) \in Seq(OutKind(m, requested))
    BY <1>1 DEF Kinds
  <2>2. \A x \in InKind(m, requested, killed) : x \in Barriers \/ x \in InKind(m, r, killed)
    BY <1>1, OfTypes DEF InKind
  <2>3. \A x \in OutKind(m, requested) : x \in ReachedBy(m) \/ x \in OutKind(m, r)
    <3>1. \A c \in 0..requested : c \in 0..r
      BY <1>1
    <3>2. Reached(requested, m) \in ReachedBy(m)
      BY <1>1, OfTypes
    <3> QED BY <3>1, <3>2 DEF OutKind
  <2>4. Count(In(m), Barriers) = 0 /\ Count(Out(m), ReachedBy(m)) = 0
    BY <1>2 DEF Asked, Answers
  <2>5. In(m) \in Seq(InKind(m, r, killed))
    BY <2>1, <2>2, <2>4, SeqWithout
  <2>6. Out(m) \in Seq(OutKind(m, r))
    BY <2>1, <2>3, <2>4, SeqWithout
  <2> QED BY <2>5, <2>6
<1> QED BY <1>3, <1>4

(* A module that is never asked to exit runs when a barrier is requested.  *)
LEMMA SomeoneRuns ==
  ASSUME Before
  PROVE  NumRunning # {}
<1>1. PICK m \in Initial : m \notin Killable
  BY DEF Before, Sound, SomeoneStays
<1>2. m \in Modules /\ m \notin killed
  BY <1>1, BarrierAssumption DEF Before, StartedOnce
<1>3. Staged(m) /\ Atoms(m) /\ (NotYet(m) \/ IsUp(m) \/ Exited(m))
  BY <1>2, BeforeHas
<1>4. Running(m)
  BY <1>1, <1>2, <1>3 DEF Staged
<1>5. Tracked(m)
  BY <1>2, <1>3, <1>4, RunningOnly
<1> QED BY <1>2, <1>5 DEF NumRunning, Tracked

(* RequestBarrier keeps the invariant: nothing of the last barrier is      *)
(* left, and all that run are asked.                                       *)
LEMMA RequestBarrierRight ==
  ASSUME Before, RequestBarrier
  PROVE  Core'
<1>1. /\ Typed /\ MasterRight /\ Kinds /\ Ways /\ Chain /\ requested \in Nat /\ Master \in Hubs
      /\ \A m \in Modules : Mod(m) /\ Atoms(m) /\ HubOf[m] \in Hubs
  BY BeforeHas, Constants
<1>2. PICK r \in Nat : r = requested + 1
  BY <1>1
<1>3. PICK x : x = BarrierMsg(r)
  OBVIOUS
<1>4. /\ requested' = r /\ Cardinality(pending) < 1 /\ participants' = Cardinality(NumRunning)
      /\ active' = [active EXCEPT ![Master] = TRUE] /\ uuid' = [uuid EXCEPT ![Master] = r]
      /\ Deliver(ToAll(x)) /\ pending' = pending \cup {r}
      /\ UNCHANGED <<reached, tracked, manager, inbox, outbox, process, joined, killed>>
      /\ UNCHANGED <<alive, delayed, answered>>
  <2>1. Clients = 1
    BY DEF Before, Sound
  <2>2. requested' = r
    BY <1>2 DEF RequestBarrier
  <2> QED BY <1>3, <2>1, <2>2, SomeoneRuns DEF RequestBarrier, process
<1>5. ~active[Master] /\ pending = {} /\ reached = {} /\ HubAt(Master) = 2 * requested
  <2>1. ~active[Master]
    <3>1. pending = {requested} => Cardinality(pending) = 1
      BY FS_Singleton
    <3> QED BY <1>1, <1>4, <3>1 DEF MasterRight
  <2> QED BY <1>1, <2>1 DEF MasterRight, Chain
<1>6. ASSUME NEW m \in Modules
      PROVE  /\ Early(m) = 0 /\ Late(m) = 0 /\ Asked(m) = 0 /\ Answers(m) = 0 /\ AnswersF(m) = 0
             /\ AnswersU(m) = 0 /\ ~Waits(m)
  <2>1. /\ Early(m) \in Nat /\ Late(m) \in Nat /\ Asked(m) \in Nat /\ Answers(m) \in Nat
        /\ AnswersF(m) \in Nat /\ AnswersU(m) \in Nat
    BY <1>1 DEF Atoms
  <2>2. Early(m) + Late(m) <= 1 /\ Early(m) + Late(m) # 1
    BY <1>1, <1>5 DEF Mod, Tokens
  <2>3. Early(m) = 0 /\ Late(m) = 0
    BY ONLY <2>1, <2>2
  <2>4. Early(m) = Asked(m) + One(Waits(m)) + Answers(m) /\ Late(m) = AnswersF(m) + AnswersU(m)
    BY DEF Early, Late
  <2>5. PICK w \in Nat : w = One(Waits(m))
    BY DEF One
  <2>6. Asked(m) = 0 /\ w = 0 /\ Answers(m) = 0 /\ AnswersF(m) = 0 /\ AnswersU(m) = 0
    <3>1. Early(m) = Asked(m) + w + Answers(m) /\ Late(m) = AnswersF(m) + AnswersU(m)
      BY <2>4, <2>5
    <3>2. Asked(m) + w + Answers(m) = 0 /\ AnswersF(m) + AnswersU(m) = 0
      BY <2>3, <3>1
    <3>3. \A i, j, k \in Nat : i + j + k = 0 => i = 0 /\ j = 0 /\ k = 0
      OBVIOUS
    <3>4. \A i, j \in Nat : i + j = 0 => i = 0 /\ j = 0
      OBVIOUS
    <3>5. Asked(m) = 0 /\ w = 0 /\ Answers(m) = 0
      BY <2>1, <3>2, <3>3
    <3>6. AnswersF(m) = 0 /\ AnswersU(m) = 0
      BY <2>1, <3>2, <3>4
    <3> QED BY <3>5, <3>6
  <2>7. ~Waits(m)
    BY <2>5, <2>6 DEF One
  <2> QED BY <2>3, <2>6, <2>7
<1>7. \A h \in Hubs :
        /\ DownQ(h)' = IF h = Master THEN DownQ(h) ELSE Append(DownQ(h), x)
        /\ ToMgrQ(h)' = IF h = Master THEN Append(ToMgrQ(h), x) ELSE ToMgrQ(h)
        /\ FromMgrQ(h)' = FromMgrQ(h) /\ UpQ(h)' = UpQ(h)
  BY <1>1, <1>4, AllGetOnly
<1>8. \A m \in Modules : QueuesKept(m)
  <2>1. ASSUME NEW m \in Modules
        PROVE  Spawns(m)' = Spawns(m)
    <3>1. x.type # "Spawn"
      BY <1>3 DEF BarrierMsg
    <3>2. Transmit(Nothing, ToAll(x)) /\ Nothing \notin Links /\ Nothing \notin DownLinks
      BY <1>4, LinksTwoWays DEF Deliver, Nothing
    <3> QED BY <1>1, <3>1, <3>2, SentDownSpawns DEF Spawns
  <2> QED BY <1>1, <1>7, <2>1, QueuesUntouched
<1>9. /\ active'[Master] /\ uuid'[Master] = r /\ HubAt(Master)' = 2 * r - 1
      /\ \A h \in Hubs \ {Master} : HubAt(h)' = HubAt(h)
      /\ \A h \in Hubs : MgrAt(h)' = MgrAt(h)
  <2>1. active'[Master] /\ uuid'[Master] = r /\ \A h \in Hubs \ {Master} : active'[h] = active[h] /\ uuid'[h] = uuid[h]
    BY <1>1, <1>4 DEF Typed, HubTyped
  <2>2. HubAt(Master)' = 2 * r - 1
    BY <2>1 DEF HubAt, Number
  <2>3. \A h \in Hubs \ {Master} : HubAt(h)' = HubAt(h)
    BY <2>1 DEF HubAt
  <2>4. \A h \in Hubs : MgrAt(h)' = MgrAt(h)
    BY <1>4 DEF MgrAt, manager
  <2> QED BY <2>1, <2>2, <2>3, <2>4
<1>10. \A m \in Modules : ManagerKept(m)
  BY <1>4, ManagerUntouched
<1>11. \A m \in Modules : ProcKept(m)
  BY <1>4, InSame, OutSame, OwnUntouched, StatusSame DEF ProcKept
<1>12. \A m \in Modules : TrackedKept(m)
  BY <1>4 DEF TrackedKept, Unknown, Tracked, Gone
<1>13. MasterRight'
  <2>1. Expected' = NumRunning
    <3>1. \A m \in Modules : joined[m] < r
      BY <1>1, <1>2 DEF Atoms
    <3> QED BY <1>4, <3>1 DEF Expected, NumRunning, Tracked
  <2>2. reached' \cup Expected' = NumRunning /\ ~(Expected' \subseteq reached')
    BY <1>4, <1>5, <2>1, SomeoneRuns
  <2>3. pending' = {r}
    BY <1>4, <1>5
  <2> QED BY <1>4, <1>9, <2>2, <2>3 DEF MasterRight
<1>14. Kinds'
  <2>1. /\ \A h \in Hubs : FromMgrQ(h) \in Seq(UpKind(h, r)) /\ UpQ(h) \in Seq(UpKind(h, r))
        /\ \A m \in Modules : In(m) \in Seq(InKind(m, r, killed)) /\ Out(m) \in Seq(OutKind(m, r))
    BY <1>2, <1>6, KindsAfterwards
  <2>2. \A m \in Modules : In(m)' = In(m) /\ Out(m)' = Out(m)
    BY <1>4, InSame, OutSame
  <2>3. x \in DownKind(r, killed) /\ DownKind(requested, killed) \subseteq DownKind(r, killed)
    <3>1. r \in 1..r /\ \A c \in 1..requested : c \in 1..r
      BY <1>1, <1>2
    <3> QED BY <1>3, <3>1 DEF DownKind
  <2>4. ASSUME NEW h \in Hubs
        PROVE  DownQ(h)' \in Seq(DownKind(r, killed)) /\ ToMgrQ(h)' \in Seq(DownKind(r, killed))
    <3>1. DownQ(h) \in Seq(DownKind(requested, killed)) /\ ToMgrQ(h) \in Seq(DownKind(requested, killed))
      BY <1>1 DEF Kinds
    <3>2. DownQ(h) \in Seq(DownKind(r, killed)) /\ ToMgrQ(h) \in Seq(DownKind(r, killed))
      BY <2>3, <3>1, SeqWider
    <3>3. Append(DownQ(h), x) \in Seq(DownKind(r, killed)) /\ Append(ToMgrQ(h), x) \in Seq(DownKind(r, killed))
      BY <2>3, <3>2, SeqAppended
    <3> QED BY <1>7, <3>2, <3>3
  <2>5. \A h \in Hubs : FromMgrQ(h)' \in Seq(UpKind(h, r)) /\ UpQ(h)' \in Seq(UpKind(h, r))
    BY <1>7, <2>1
  <2>6. \A m \in Modules : In(m)' \in Seq(InKind(m, r, killed)) /\ Out(m)' \in Seq(OutKind(m, r))
    BY <2>1, <2>2
  <2>7. requested' = r /\ killed' = killed
    BY <1>4
  <2> QED BY <2>4, <2>5, <2>6, <2>7 DEF Kinds
<1>15. Ways'
  <2>1. IsEvent(x) /\ Event(x) = 2 * r - 1
    BY <1>3 DEF IsEvent, Event, Number, BarrierMsg
  <2>2. Event(x) = HubAt(Master) + 1 /\ HubAt(Master) \in Nat /\ HubAt(Master)' = HubAt(Master) + 1
    BY <1>1, <1>2, <1>5, <1>9, <2>1
  <2>3. ASSUME NEW h \in Hubs
        PROVE  Brings(DownQ(h)', HubAt(h)', HubAt(Master)', joined') /\ Brings(ToMgrQ(h)', MgrAt(h)', HubAt(h)', joined')
    <3>1. /\ Brings(DownQ(h), HubAt(h), HubAt(Master), joined) /\ Brings(ToMgrQ(h), MgrAt(h), HubAt(h), joined)
          /\ DownQ(h) \in Seq(DownMsgs(requested)) /\ ToMgrQ(h) \in Seq(DownMsgs(requested))
      BY <1>1, QueuesTyped DEF Ways
    <3>2. CASE h = Master
      <4>1. DownQ(h)' = <<>> /\ ToMgrQ(h)' = Append(ToMgrQ(h), x)
        BY <1>7, <3>2 DEF DownQ
      <4>2. Brings(DownQ(h)', HubAt(h)', HubAt(Master)', joined')
        <5>1. HubAt(Master)' \in Nat
          BY <2>2
        <5> QED BY <3>2, <4>1, <5>1, BringsNothing
      <4>3. Brings(Append(ToMgrQ(h), x), MgrAt(h), HubAt(Master) + 1, joined)
        BY <2>1, <2>2, <3>1, <3>2, BringsEvent
      <4> QED BY <1>4, <1>9, <2>2, <3>2, <4>1, <4>2, <4>3
    <3>3. CASE h # Master
      <4>1. DownQ(h)' = Append(DownQ(h), x) /\ ToMgrQ(h)' = ToMgrQ(h) /\ HubAt(h)' = HubAt(h)
        BY <1>7, <1>9, <3>3
      <4>2. Brings(Append(DownQ(h), x), HubAt(h), HubAt(Master) + 1, joined)
        BY <2>1, <2>2, <3>1, BringsEvent
      <4> QED BY <1>4, <1>9, <2>2, <3>1, <4>1, <4>2
    <3> QED BY <3>2, <3>3
  <2> QED BY <2>3 DEF Ways
<1>16. ASSUME NEW m \in Modules
       PROVE  Mod(m)'
  <2>1. Staged(m)'
    BY <1>1, <1>8, <1>10, <1>11, <1>12, StagedFrame DEF Mod
  <2>2. Late(m)' = 0 /\ ExitOrder(m)'
    <3>1. Late(m)' = Late(m)
      BY <1>8 DEF Late, QueuesKept
    <3> QED BY <1>1, <1>6, <1>8, <3>1, ExitOrderFrame DEF Mod
  <2>3. Tokens(m)'
    <3>1. Early(m)' = Early(m) /\ Waits(m)' = Waits(m)
      BY <1>11 DEF Early, Waits, One, ProcKept, StatusKept, OutKept, InKept, OwnKept
    <3>2. Early(m)' = 0 /\ ~Waits(m)'
      BY <1>6, <3>1
    <3> QED BY <2>2, <3>2 DEF Tokens
  <2>4. MgrAt(HubOf[m]) \in Nat /\ MgrAt(HubOf[m]) <= 2 * requested
    <3>1. PICK h \in Hubs : h = HubOf[m]
      BY <1>1
    <3>2. MgrAt(h) \in Nat /\ HubAt(h) \in Nat /\ MgrAt(h) <= HubAt(h) /\ HubAt(h) <= HubAt(Master)
      BY <1>1 DEF Chain
    <3>3. MgrAt(h) <= 2 * requested
      BY <1>1, <1>5, <3>2
    <3> QED BY <3>1, <3>2, <3>3
  <2>5. \A b \in Nat : Answered(m, b)' = Answered(m, b) /\ (Answered(m, b) => b <= requested)
    <3>1. \A b : Answered(m, b)' = Answered(m, b)
      BY <1>10 DEF Answered, ManagerKept
    <3>2. \A b \in Nat : 2 * b <= MgrAt(HubOf[m]) => b <= requested
      BY <1>1, <2>4
    <3>3. \A b \in Nat : MgrAt(HubOf[m]) + 1 = 2 * b => b <= requested
      BY <1>1, <2>4
    <3> QED BY <3>1, <3>2, <3>3 DEF Answered
  <2>6. PastRight(m)'
    <3> SUFFICES ASSUME NEW b \in 1..r, Tracked(m)', joined'[m] < b, Passed(m, b)'
                 PROVE  /\ Spawns(m)' = 0
                        /\ Running(m)' => Answered(m, b)'
                        /\ ExitsF(m)' > 0 => 2 * b <= HubAt(HubOf[m])'
      BY <1>4 DEF PastRight
    <3>1. 2 * b <= 2 * r - 1
      BY <1>4, <1>5, <1>9, <2>2 DEF Passed
    <3>2. b \in 1..requested /\ 2 * b <= HubAt(Master)
      BY <1>1, <1>2, <1>5, <3>1
    <3>3. Tracked(m) /\ joined[m] < b /\ Passed(m, b)
      BY <1>12, <3>2 DEF TrackedKept, Passed
    <3>4. /\ Spawns(m) = 0
          /\ Running(m) => Answered(m, b)
          /\ ExitsF(m) > 0 => 2 * b <= HubAt(HubOf[m])
      BY <1>1, <3>2, <3>3 DEF Mod, PastRight
    <3>5. ExitsF(m) > 0 => 2 * b <= HubAt(HubOf[m])'
      <4>1. CASE HubOf[m] = Master
        <5>1. 2 * b <= HubAt(Master)'
          BY <1>9, <3>1
        <5> QED BY <4>1, <5>1
      <4>2. CASE HubOf[m] # Master
        BY <1>1, <1>9, <3>4, <4>2
      <4> QED BY <4>1, <4>2
    <3> QED BY <1>8, <1>10, <2>5, <3>2, <3>4, <3>5 DEF QueuesKept, ManagerKept
  <2>7. Works(m)'
    <3>1. Answers(m)' = 0 /\ Out(m)' = Out(m) /\ Last(m)' = Last(m) /\ Running(m)' = Running(m) /\ joined'[m] = joined[m]
      BY <1>6, <1>10, <1>11, <1>12 DEF ProcKept, OutKept, OwnKept, ManagerKept, TrackedKept
    <3>2. OldFirst(m, r)
      BY <1>1, <1>6, NoneAfterNone DEF OldFirst, Answers, Kinds
    <3>3. OldFirst(m, requested)' 
      BY <1>4, <3>1, <3>2 DEF OldFirst
    <3>4. \A b \in 1..r : Running(m)' /\ joined'[m] < b /\ Answered(m, b)' => Last(m)' >= b /\ Old(m, b)' = 0
      <4> SUFFICES ASSUME NEW b \in 1..r, Running(m), joined[m] < b, Answered(m, b)
                   PROVE  Last(m) >= b /\ Old(m, b) = 0
        BY <2>5, <3>1 DEF Old
      <4>1. b \in 1..requested
        BY <1>1, <2>5
      <4> QED BY <1>1, <4>1 DEF Mod, Works
    <3> QED BY <1>4, <3>1, <3>3, <3>4 DEF Works
  <2> QED BY <2>1, <2>2, <2>3, <2>6, <2>7 DEF Mod
<1> QED BY <1>13, <1>14, <1>15, <1>16, CoreNext

-----------------------------------------------------------------------------
(* All steps                                                               *)

(* Every step keeps the invariant.                                         *)
LEMMA NextRight ==
  ASSUME Before, Next
  PROVE  Core'
<1>1. CASE RequestBarrier
  BY <1>1, RequestBarrierRight
<1>2. CASE MasterHub
  BY <1>2, MasterBarrierReachedRight, MasterModuleExitRight DEF MasterHub
<1>3. ASSUME NEW m \in Modules,
             Spawn(m) \/ Kill(m) \/ Execute(m) \/ Quit(m) \/ Crash(m) \/ CheckChildProcesses(m)
      PROVE  Core'
  <2>1. ~Crash(m) /\ ~CheckChildProcesses(m)
    BY <1>3 DEF Crash, CheckChildProcesses, Before, Good, Typed, ProcTyped
  <2> QED BY <1>3, <2>1, SpawnRight, KillRight, ExecuteRight, QuitRight
<1>4. ASSUME NEW h \in Slaves, SlaveHub(h)
      PROVE  Core'
  BY <1>4, SlaveBarrierRight, SlaveBarrierReachedRight, RelayDownRight, RelayUpRight, SlaveModuleExitRight
     DEF SlaveHub
<1>5. ASSUME NEW g \in Managers, Manager(g)
      PROVE  Core'
  BY <1>5, MgrBarrierRight, MgrBarrierReachedRight, MgrSpawnRight, MgrToModuleRight, NoExitDown DEF Manager
<1>6. ASSUME NEW p \in Procs, FromProc(p) \/ Proc(p) \/ SendWork(p)
      PROVE  Core'
  BY <1>6, NoneDropped, TakeWorkRight, TakeBarrierReachedRight, TakeModuleExitRight, OnBarrierRight,
     OnUpstreamRight, FinishExecutionRight, SendWorkRight DEF FromProc, Proc
<1> QED BY <1>1, <1>2, <1>3, <1>4, <1>5, <1>6 DEF Next

(* So does a step that changes nothing.                                    *)
LEMMA StutterRight ==
  ASSUME Before, UNCHANGED vars
  PROVE  Core'
<1>1. /\ Typed /\ MasterRight /\ Kinds /\ Ways /\ Chain /\ \A m \in Modules : Mod(m)
      /\ UNCHANGED <<active, uuid, participants, reached, tracked, alive, delayed, answered, inbox, outbox,
                     requested, pending, joined, killed, link, manager>>
  BY BeforeHas DEF vars, hub, process, script
<1>2. (\A h \in Hubs : HubAt(h)' = HubAt(h)) /\ \A m \in Modules : HubKept(m)
  BY <1>1, HubUntouched
<1>3. (\A h \in Hubs : MgrAt(h)' = MgrAt(h)) /\ \A m \in Modules : ManagerKept(m)
  BY <1>1, ManagerUntouched
<1>4. \A m \in Modules : ProcKept(m) /\ In(m)' = In(m) /\ Out(m)' = Out(m)
  BY <1>1, InSame, OutSame, OwnUntouched, StatusSame DEF ProcKept
<1>5. /\ \A h \in Hubs : /\ DownQ(h)' = DownQ(h) /\ ToMgrQ(h)' = ToMgrQ(h)
                         /\ FromMgrQ(h)' = FromMgrQ(h) /\ UpQ(h)' = UpQ(h)
      /\ \A m \in Modules : QueuesKept(m)
  BY <1>1, LinkUntouched
<1>6. \A m \in Modules : Mod(m)'
  <2>1. \A m \in Modules : ModSame(m)
    BY <1>2, <1>3, <1>4, <1>5 DEF ModSame
  <2> QED BY <1>1, <2>1, ModFrame
<1>7. MasterRight'
  BY <1>1, <1>2, MasterUntouched DEF HubKept, TrackedKept
<1>8. Ways'
  BY <1>1, <1>2, <1>3, <1>5, WaysUntouched
<1>9. Kinds'
  BY <1>1, <1>4, <1>5 DEF Kinds
<1> QED BY <1>6, <1>7, <1>8, <1>9, CoreNext

(* Which neither starts a module nor makes a state good.                   *)
LEMMA StutterOnce ==
  ASSUME Typed, Typed', StartedOnce, UNCHANGED vars
  PROVE  StartedOnce' /\ (Good' => Good)
<1>1. UNCHANGED <<tracked, alive, killed, joined, link>>
  BY DEF vars, hub, process, script
<1>2. \A h \in Hubs, m \in Modules : SpawnsAt(h, m)' = SpawnsAt(h, m)
  BY <1>1, LinkSame DEF SpawnsAt
<1>3. StartedOnce'
  BY <1>1, <1>2, OnceKept DEF Unknown, NotYet
<1> QED BY <1>1, <1>3 DEF Good

(* IInv is inductive.                                                      *)
LEMMA Inductive ==
  ASSUME Sound, Typed, Typed', IInv, [Next]_vars
  PROVE  IInv'
<1>1. OneRank /\ StartedOnce
  BY DEF Sound, IInv
<1>2. StartedOnce'
  BY <1>1, NextOnce, StutterOnce
<1>3. ASSUME Good'
      PROVE  Core'
  <2>1. Good
    BY <1>1, <1>3, GoodBefore, StutterOnce
  <2>2. Before
    BY <1>1, <1>2, <1>3, <2>1 DEF Before, IInv
  <2> QED BY <2>2, NextRight, StutterRight
<1> QED BY <1>2, <1>3 DEF IInv

(* IInv holds at the start.                                                *)
LEMMA InitIInv ==
  ASSUME Init, Typed
  PROVE  IInv
<1>1. \A h \in Hubs : DownQ(h) = <<>> /\ ToMgrQ(h) = <<>> /\ FromMgrQ(h) = <<>> /\ UpQ(h) = <<>>
  BY QueueLinks DEF Init, DownQ, ToMgrQ, FromMgrQ, UpQ
<1>2. \A S : Count(<<>>, S) = 0
  BY CountSingle
<1>3. \A m \in Modules : HubOf[m] \in Hubs /\ <<HubOf[m], 0>> \in Managers /\ <<m, 0>> \in Procs
  BY Constants
<1>4. \A h \in Hubs, m \in Modules : SpawnsAt(h, m) = 0
  BY <1>1, <1>2 DEF SpawnsAt
<1>5. \A m \in Modules : /\ Spawns(m) = 0 /\ ExitsF(m) = 0 /\ ExitsU(m) = 0 /\ AnswersF(m) = 0 /\ AnswersU(m) = 0
                         /\ UpOrder(m)
  BY <1>1, <1>2, <1>3, <1>4, NoneEmpty DEF Spawns, ExitsF, ExitsU, AnswersF, AnswersU, UpOrder
<1>6. \A m \in Modules : /\ In(m) = <<>> /\ Out(m) = <<>> /\ Deferred(m) = 0
                         /\ Asked(m) = 0 /\ Answers(m) = 0 /\ Exits(m) = 0 /\ ExitLast(m) /\ \A b : OldFirst(m, b)
  <2>1. \A m \in Modules : In(m) = <<>> /\ Out(m) = <<>> /\ Deferred(m) = 0
    BY <1>3 DEF Init, In, Out, Deferred
  <2> QED BY <1>2, <2>1, NoneEmpty DEF Asked, Answers, Exits, ExitLast, OldFirst
<1>7. /\ requested = 0 /\ pending = {} /\ reached = {} /\ killed = {} /\ ~active[Master] /\ uuid[Master] = 0
      /\ \A h \in Hubs : HubAt(h) = 0 /\ MgrAt(h) = 0
  <2>1. requested = 0 /\ pending = {} /\ reached = {} /\ killed = {}
    BY DEF Init
  <2>2. \A h \in Hubs : /\ ~active[h] /\ uuid[h] = 0 /\ <<h, 0>> \in Managers
                        /\ ~mgrActive[<<h, 0>>] /\ mgrUuid[<<h, 0>>] = 0
    BY Constants DEF Init
  <2>3. \A told, b : ~told /\ b = 0 => Number(told, b) = 0
    BY DEF Number
  <2>4. \A h \in Hubs : HubAt(h) = 0 /\ MgrAt(h) = 0
    BY <2>2, <2>3 DEF HubAt, MgrAt
  <2>5. ~active[Master] /\ uuid[Master] = 0
    BY <2>2, Constants
  <2> QED BY <2>1, <2>4, <2>5
<1>8. ASSUME NEW m \in Modules
      PROVE  /\ joined[m] = 0 /\ ~HeldBack(m) /\ ~Broken(m)
             /\ m \in Initial => Tracked(m) /\ Running(m) /\ IsUp(m) /\ ~NotYet(m) /\ ~Exited(m) /\ ~Unknown(m)
             /\ m \notin Initial => Unknown(m) /\ ~Running(m) /\ NotYet(m) /\ ~Tracked(m) /\ ~IsUp(m) /\ ~Exited(m) /\ ~Gone(m)
  BY <1>3 DEF Init, HeldBack, Broken, Tracked, Running, IsUp, NotYet, Exited, Unknown, Gone
<1>9. StartedOnce
  BY <1>4, <1>5, <1>7, <1>8 DEF StartedOnce
<1>10. MasterRight
  BY <1>7 DEF MasterRight
<1>11. Kinds
  <2>1. \A X : <<>> \in Seq(X)
    OBVIOUS
  <2> QED BY <1>1, <1>6, <2>1 DEF Kinds
<1>12. Ways
  BY <1>1, <1>7, Constants, BringsNothing DEF Ways
<1>13. ASSUME NEW m \in Modules
       PROVE  Staged(m) /\ Tokens(m) /\ ExitOrder(m) /\ PastRight(m) /\ Works(m)
  <2>1. Spawns(m) + One(Running(m)) + ExitsF(m) + ExitsU(m) = One(Tracked(m))
    <3>1. CASE m \in Initial
      <4>1. One(Running(m)) = 1 /\ One(Tracked(m)) = 1
        BY <1>8, <3>1 DEF One
      <4> QED BY <1>5, <4>1
    <3>2. CASE m \notin Initial
      <4>1. One(Running(m)) = 0 /\ One(Tracked(m)) = 0
        BY <1>8, <3>2 DEF One
      <4> QED BY <1>5, <4>1
    <3> QED BY <3>1, <3>2
  <2>2. 2 * joined[m] <= MgrAt(HubOf[m]) + 1
    <3>1. PICK k : k = MgrAt(HubOf[m])
      OBVIOUS
    <3>2. k = 0 /\ joined[m] = 0
      BY <1>3, <1>7, <1>8, <3>1
    <3> QED BY <3>1, <3>2
  <2>3. Unknown(m) \/ Tracked(m) \/ Gone(m)
    BY <1>8
  <2>4. Staged(m)
    BY <1>5, <1>6, <1>8, <2>1, <2>2, <2>3 DEF Staged
  <2>5. Early(m) = 0 /\ Late(m) = 0 /\ ~Waits(m)
    BY <1>5, <1>6 DEF Early, Late, Waits, One
  <2>6. Tokens(m)
    BY <2>5 DEF Tokens
  <2>7. ExitOrder(m)
    BY <1>5 DEF ExitOrder
  <2>8. PastRight(m) /\ Works(m)
    BY <1>6, <1>7 DEF PastRight, Works
  <2> QED BY <2>4, <2>6, <2>7, <2>8
<1>14. Core
  BY <1>10, <1>11, <1>12, <1>13 DEF Core
<1> QED BY <1>9, <1>14 DEF IInv

-----------------------------------------------------------------------------
(* What the invariant says to a reader of the code                         *)

(* A release tells of a barrier that was active, and a barrier of one that *)
(* was not.                                                                *)
LEMMA DownExpected ==
  ASSUME Typed, Ways, MasterRight
  PROVE  /\ \A h \in Slaves :
              /\ AtHead(link[Down(h)], "Barrier") => ~active[h]
              /\ AtHead(link[Down(h)], "BarrierReached") => active[h] /\ uuid[h] = Head(link[Down(h)]).id
         /\ \A h \in Hubs : AtHead(ToMgrQ(h), "BarrierReached") => mgrActive[<<h, 0>>]
<1>1. Chain /\ requested \in Nat /\ Master \in Hubs
  BY ChainHolds, Constants DEF Chain
<1>2. ASSUME NEW h \in Slaves, link[Down(h)] # <<>>
      PROVE  /\ AtHead(link[Down(h)], "Barrier") => ~active[h]
             /\ AtHead(link[Down(h)], "BarrierReached") => active[h] /\ uuid[h] = Head(link[Down(h)]).id
  <2>1. h \in Hubs /\ DownQ(h) = link[Down(h)] /\ DownQ(h) # <<>>
    BY <1>2, QueueLinks DEF DownQ
  <2>2. DownQ(h) \in Seq(DownMsgs(requested)) /\ Brings(DownQ(h), Number(active[h], uuid[h]), HubAt(Master), joined)
    BY <2>1, QueuesTyped DEF Ways, HubAt
  <2>3. active[h] \in BOOLEAN /\ uuid[h] \in Nat /\ HubAt(Master) \in Nat
    BY <1>1, <2>1 DEF Typed, HubTyped, Chain
  <2>4. /\ Head(DownQ(h)).type = "Barrier" => ~active[h]
        /\ Head(DownQ(h)).type = "BarrierReached" => active[h] /\ uuid[h] = Head(DownQ(h)).id
    BY <1>1, <2>1, <2>2, <2>3, NextEvent
  <2> QED BY <2>1, <2>4 DEF AtHead
<1>3. ASSUME NEW h \in Hubs, AtHead(ToMgrQ(h), "BarrierReached")
      PROVE  mgrActive[<<h, 0>>]
  <2>1. ToMgrQ(h) # <<>> /\ Head(ToMgrQ(h)).type = "BarrierReached"
    BY <1>3 DEF AtHead
  <2>2. /\ ToMgrQ(h) \in Seq(DownMsgs(requested))
        /\ Brings(ToMgrQ(h), Number(mgrActive[<<h, 0>>], mgrUuid[<<h, 0>>]), HubAt(h), joined)
    BY QueuesTyped DEF Ways, MgrAt
  <2>3. mgrActive[<<h, 0>>] \in BOOLEAN /\ mgrUuid[<<h, 0>>] \in Nat /\ HubAt(h) \in Nat
    BY <1>1, Constants DEF Typed, ManagerTyped, Chain
  <2> QED BY <1>1, <2>1, <2>2, <2>3, NextEvent
<1> QED BY <1>2, <1>3 DEF AtHead

(* An answer that arrives at the master hub is one to its barrier.         *)
LEMMA UpExpected ==
  ASSUME Typed, OneRank, MasterRight, Kinds, \A m \in Modules : Tokens(m), NEW l \in Incoming, AtHead(link[l], "BarrierReached")
  PROVE  active[Master] /\ uuid[Master] = Head(link[l]).id
<1>1. requested \in Nat /\ \A m \in Modules : Atoms(m)
  BY AtomsTyped, RequestedTyped
<1>2. PICK k \in Hubs : link[l] = ArrivingQ(k)
  BY IncomingOf
<1>3. PICK x : x = Head(ArrivingQ(k))
  OBVIOUS
<1>4. ArrivingQ(k) # <<>> /\ x.type = "BarrierReached" /\ Head(link[l]) = x
  BY <1>2, <1>3 DEF AtHead
<1>5. ArrivingQ(k) \in Seq(UpKind(k, requested)) /\ x \in UpKind(k, requested)
  <2>1. ArrivingQ(k) \in Seq(UpKind(k, requested))
    BY DEF Kinds, ArrivingQ
  <2> QED BY <1>3, <1>4, <2>1
<1>6. PICK n \in Modules : HubOf[n] = k /\ (x = Reached(requested, n) \/ x = Exit(n, FALSE))
  BY <1>1, <1>5, UpKinded
<1>7. x = Reached(requested, n)
  <2>1. Exit(n, FALSE).type = "ModuleExit"
    BY DEF Exit
  <2> QED BY <1>4, <1>6, <2>1
<1>8. x.id = requested /\ x \in ReachedBy(n)
  BY <1>1, <1>7, OfTypes DEF Reached
<1>9. Count(ArrivingQ(k), ReachedBy(n)) # 0
  <2>1. 1 \in 1..Len(ArrivingQ(k)) /\ ArrivingQ(k)[1] = x
    BY <1>3, <1>4, <1>5
  <2> QED BY <1>5, <1>8, <2>1, CountNat
<1>10. Late(n) # 0
  <2>1. AnswersF(n) # 0 \/ AnswersU(n) # 0
    BY <1>6, <1>9 DEF AnswersF, AnswersU, ArrivingQ
  <2>2. AnswersF(n) \in Nat /\ AnswersU(n) \in Nat /\ Late(n) = AnswersF(n) + AnswersU(n)
    BY <1>1 DEF Atoms, Late
  <2> QED BY <2>1, <2>2
<1>11. active[Master]
  BY <1>1, <1>10 DEF Tokens, Atoms
<1> QED BY <1>4, <1>8, <1>11 DEF MasterRight

(* An answer that a manager is to take is one to its barrier.              *)
LEMMA OutExpected ==
  ASSUME Typed, OneRank, MasterRight, Kinds, Chain, NEW m \in Modules, Tokens(m), AtHead(Out(m), "BarrierReached")
  PROVE  MgrOn(m)
<1>1. requested \in Nat /\ Atoms(m) /\ HubOf[m] \in Hubs
  BY AtomsTyped, RequestedTyped
<1>2. Out(m) # <<>> /\ Head(Out(m)).type = "BarrierReached" /\ Out(m) \in Seq(OutKind(m, requested))
  BY DEF AtHead, Kinds
<1>3. Head(Out(m)) \in ReachedBy(m)
  <2>1. PICK x : x = Head(Out(m))
    OBVIOUS
  <2>2. x \in OutKind(m, requested) /\ x.type = "BarrierReached"
    BY <1>2, <2>1
  <2>3. x \in ReachedBy(m)
    BY <2>2, Kinded
  <2> QED BY <2>1, <2>3
<1>4. Answers(m) # 0
  <2>1. 1 \in 1..Len(Out(m)) /\ Out(m)[1] = Head(Out(m))
    BY <1>2
  <2> QED BY <1>2, <1>3, <2>1, CountNat DEF Answers
<1>5. Early(m) # 0
  <2>1. One(Waits(m)) \in Nat /\ Asked(m) \in Nat /\ Answers(m) \in Nat
    BY <1>1 DEF Atoms, One
  <2>2. Early(m) = Asked(m) + One(Waits(m)) + Answers(m)
    BY DEF Early
  <2> QED BY <1>4, <2>1, <2>2
<1>6. Early(m) = 1 /\ Early(m) + Late(m) = 1
  <2>1. Early(m) \in Nat /\ Late(m) \in Nat /\ Early(m) + Late(m) <= 1
    BY <1>1 DEF Atoms, Tokens
  <2> QED BY <1>5, <2>1
<1>7. active[Master] /\ MgrAt(HubOf[m]) = HubAt(Master)
  BY <1>6 DEF Tokens
<1>8. HubAt(Master) = 2 * requested - 1
  BY <1>7 DEF Chain
<1>9. mgrUuid[<<HubOf[m], 0>>] \in Nat
  BY <1>1, Constants DEF Typed, ManagerTyped
<1>10. MgrAt(HubOf[m]) # 2 * mgrUuid[<<HubOf[m], 0>>]
  BY <1>1, <1>7, <1>8, <1>9
<1> QED BY <1>10 DEF MgrAt, Number, MgrOn

(* Before the first request there is nothing that an assertion is about.   *)
LEMMA NoneYet ==
  ASSUME Typed, OneRank, Clients = 1, requested = 0
  PROVE  HubAssertions /\ ManagerAssertion
<1>1. \A x : x \in 1..0 => FALSE
  OBVIOUS
<1>2. (\A h \in Hubs : ~active[h]) /\ reached = {} /\ Master \in Hubs
  BY Constants DEF Typed, HubTyped
<1>3. ASSUME NEW l \in UpLinks PROVE ~AtHead(link[l], "BarrierReached")
  BY <1>1, HeadUp, UpMsgRead DEF AtHead
<1>4. ASSUME NEW l \in DownLinks PROVE ~AtHead(link[l], "BarrierReached") /\ ~AtHead(link[l], "Barrier")
  BY <1>1, HeadDown, DownMsgRead DEF AtHead
<1>5. ASSUME NEW p \in Procs PROVE ~AtHead(outbox[p], "BarrierReached")
  BY <1>1, HeadOut, OutMsgRead DEF AtHead
<1>6. HubAssertions
  BY <1>2, <1>3, <1>4, LinksTwoWays DEF HubAssertions
<1>7. ManagerAssertion
  BY <1>4, <1>5, LinksTwoWays DEF ManagerAssertion
<1> QED BY <1>6, <1>7

(* Where all answers count, nobody has crashed or was reported, and        *)
(* whoever was killed had been there before.                               *)
LEMMA AllCountedGood ==
  ASSUME Typed, AllCounted, requested # 0
  PROVE  Good
<1>1. 1 \in 1..requested /\ \A m \in Modules : joined[m] \in Nat
  BY RequestedTyped DEF Typed, ScriptTyped
<1>2. Counted(1)
  BY <1>1 DEF AllCounted
<1> QED BY <1>1, <1>2 DEF Counted, Good

(* The assertions of hubs and managers follow from the invariant.          *)
LEMMA CoreAsExpected ==
  ASSUME Typed, Sound, Core
  PROVE  HubAssertions /\ ManagerAssertion
<1>1. Typed /\ OneRank /\ Clients = 1 /\ MasterRight /\ Kinds /\ Ways /\ Chain /\ \A m \in Modules : Tokens(m)
  BY ChainHolds DEF Sound, Core
<1>2. Cardinality(pending) < Clients => ~active[Master] /\ reached = {}
  <2>1. pending = {requested} => Cardinality(pending) = 1
    BY FS_Singleton
  <2> QED BY <1>1, <2>1 DEF MasterRight
<1>3. HubAssertions
  BY <1>1, <1>2, DownExpected, UpExpected DEF HubAssertions
<1>4. ManagerAssertion
  <2>1. ASSUME NEW p \in Procs, AtHead(outbox[p], "BarrierReached")
        PROVE  mgrActive[ManagerOf(p)]
    <3>1. p[1] \in Modules /\ p = <<p[1], 0>> /\ ManagerOf(p) = <<HubOf[p[1]], 0>>
      BY <1>1, OneManager
    <3>2. Out(p[1]) = outbox[p]
      BY <3>1 DEF Out
    <3>3. MgrOn(p[1])
      BY <1>1, <2>1, <3>1, <3>2, OutExpected
    <3> QED BY <3>1, <3>3 DEF MgrOn
  <2>2. ASSUME NEW g \in Managers, AtHead(link[Source(g)], "BarrierReached")
        PROVE  mgrActive[g]
    <3>1. g[1] \in Hubs /\ g = <<g[1], 0>> /\ Source(g) = ToManager(g[1])
      BY <1>1, OneManager
    <3>2. ToMgrQ(g[1]) = link[Source(g)]
      BY <3>1 DEF ToMgrQ
    <3>3. mgrActive[<<g[1], 0>>]
      BY <1>1, <2>2, <3>1, <3>2, DownExpected
    <3> QED BY <3>1, <3>3
  <2> QED BY <2>1, <2>2 DEF ManagerAssertion
<1> QED BY <1>3, <1>4

(* So does AsExpected.                                                     *)
LEMMA ExpectedThen ==
  ASSUME Typed, Sound, IInv
  PROVE  AsExpected
<1>1. CASE requested = 0
  BY <1>1, NoneYet DEF Sound, AsExpected
<1>2. CASE requested # 0
  BY <1>2, AllCountedGood, CoreAsExpected DEF IInv, AsExpected
<1> QED BY <1>1, <1>2

(* And NothingBefore.                                                      *)
LEMMA NothingBeforeThen ==
  ASSUME Typed, Sound, IInv
  PROVE  NothingBefore
<1> SUFFICES ASSUME NEW p \in Procs, NEW i \in DOMAIN outbox[p], NEW b \in 1..MaxBarriers,
                    outbox[p][i].type = "Work", AllCounted, Released(b), b > joined[p[1]]
             PROVE  outbox[p][i].id >= b
  BY DEF NothingBefore
<1>1. PICK m : m = p[1]
  OBVIOUS
<1>2. m \in Modules /\ Out(m) = outbox[p]
  BY <1>1, OneManager DEF Sound, Out
<1>3. requested \in Nat /\ b \in 1..requested /\ b \notin pending /\ joined[m] \in Nat /\ joined[m] < b
  BY <1>1, <1>2, RequestedTyped DEF Released, Typed, ScriptTyped
<1>4. Core
  BY <1>3, AllCountedGood DEF IInv
<1>5. Chain /\ MasterRight /\ Kinds /\ Mod(m) /\ Atoms(m) /\ (NotYet(m) \/ IsUp(m) \/ Exited(m))
  <2>1. Good
    BY <1>3, AllCountedGood
  <2>2. NotYet(m) \/ IsUp(m) \/ Exited(m)
    BY <1>2, <2>1 DEF Good, Typed, ProcTyped, NotYet, IsUp, Exited
  <2> QED BY <1>2, <1>4, <2>2, AtomsTyped, ChainHolds DEF Core, Mod
<1>6. Passed(m, b)
  <2>1. 2 * b <= HubAt(Master)
    <3>1. CASE active[Master]
      <4>1. b # requested
        BY <1>3, <1>5, <3>1 DEF MasterRight
      <4>2. HubAt(Master) = 2 * requested - 1
        BY <1>5, <3>1 DEF Chain
      <4> QED BY <1>3, <4>1, <4>2
    <3>2. CASE ~active[Master]
      <4>1. HubAt(Master) = 2 * requested
        BY <1>5, <3>2 DEF Chain
      <4> QED BY <1>3, <4>1
    <3> QED BY <3>1, <3>2
  <2> QED BY <2>1 DEF Passed
<1>7. Out(m) \in Seq(OutKind(m, requested)) /\ i \in 1..Len(Out(m)) /\ Out(m) # <<>>
  <2>1. Out(m) \in Seq(OutKind(m, requested))
    BY <1>2, <1>5 DEF Kinds
  <2>2. i \in 1..Len(Out(m))
    BY <1>2, <2>1
  <2> QED BY <2>1, <2>2
<1>8. Running(m)
  BY <1>5, <1>7 DEF Mod, Staged
<1>9. Answered(m, b)
  <2>1. Tracked(m)
    BY <1>2, <1>5, <1>8, RunningOnly DEF Mod
  <2> QED BY <1>3, <1>5, <1>6, <1>8, <2>1 DEF Mod, PastRight
<1>10. Old(m, b) = 0
  BY <1>3, <1>5, <1>8, <1>9 DEF Mod, Works
<1>11. PICK x : x = Out(m)[i]
  OBVIOUS
<1>12. x \notin OldWork(b)
  BY <1>7, <1>10, <1>11, CountNat DEF Old
<1>13. x.type = "Work" /\ x.id \in Nat /\ x = Work(x.id)
  <2>1. x \in OutMsgs(requested, m)
    BY <1>2, <1>7, <1>11, QueuesTyped
  <2>2. x.type = "Work"
    BY <1>2, <1>11
  <2>3. x.id \in 0..requested /\ x = Work(x.id)
    BY <1>3, <2>1, <2>2, OutMsgRead
  <2> QED BY <1>3, <2>2, <2>3
<1>14. ~(x.id < b)
  BY <1>3, <1>12, <1>13, OfTypes
<1> QED BY <1>2, <1>3, <1>11, <1>13, <1>14

-----------------------------------------------------------------------------
(* In every reachable state the messages under way, the barrier of the    *)
(* hubs and what the managers hold back fit together (IInv): what          *)
(* hub.cpp and clustermanager.cpp keep in separate processes and never     *)
(* compare.                                                                *)
THEOREM Invariance == Sound => (Spec => [](Typed /\ IInv))
<1> SUFFICES ASSUME Sound PROVE Spec => [](Typed /\ IInv)
  OBVIOUS
<1>1. Init => Typed /\ IInv
  BY InitTyped, InitIInv
<1>2. Typed /\ IInv /\ [Next]_vars => (Typed /\ IInv)'
  BY Inductive, NextTyped
<1> QED BY <1>1, <1>2, PTL DEF Spec

(* The assertions of Hub::handlePriv and ClusterManager::handlePriv on a   *)
(* Barrier and a BarrierReached hold, as long as all answers are counted:  *)
(* for any number of hubs and modules, and whatever is started, killed or  *)
(* executes meanwhile, no answer and no release meets another barrier.     *)
THEOREM AssertionsHold == Sound => (Spec => []AsExpected)
<1> SUFFICES ASSUME Sound PROVE Spec => []AsExpected
  OBVIOUS
<1>1. Typed /\ IInv => AsExpected
  BY ExpectedThen
<1> QED BY <1>1, Invariance, PTL

(* When the master hub releases a barrier, the managers have taken all     *)
(* that its modules had sent before they answered (the manager does not    *)
(* dispatch a module that it holds back until the release).                *)
THEOREM ReleasedIsHandled == Sound => (Spec => []NothingBefore)
<1> SUFFICES ASSUME Sound PROVE Spec => []NothingBefore
  OBVIOUS
<1>1. Typed /\ IInv => NothingBefore
  BY NothingBeforeThen
<1> QED BY <1>1, Invariance, PTL
=============================================================================
