----------------------- MODULE ExecutionStreams_proofs ----------------------
(***************************************************************************)
(* What a module sends of its objects, when every execution makes at most  *)
(* one for each output: exactly one, as an Empty is sent where there is no *)
(* other.  The objects at an input are then numbered one by one, and every *)
(* execution of a module is three steps on each rank: it is prepared,      *)
(* computes once, and is reduced.                                          *)
(***************************************************************************)
EXTENDS Execution_proofs

(* An execution makes at most one object for each output.                  *)
OneObject ==
  /\ \A m \in Modules, r \in Ranks : Produces[m][r] \in 0..1
  /\ Results \subseteq 0..1

(* The executions whose objects a process has sent, and what a message     *)
(* adds to those that have been passed on to input i.                      *)
Made(p) == p.round - One(p.prepared /\ ~p.withOutput)
Makes(a, x, z, i) ==
  IF x.type = "Object" /\ <<x.port, i>> \in Connections THEN z = a + 1 /\ x.round = z ELSE z = a
MakesIn(S, i) == {t \in Nat \X S \X Nat : Makes(t[1], t[2], t[3], i)}

(* The same of those that have been sent to the process at its end.        *)
Adds(a, x, z, i) ==
  IF x.type = "AddObject" /\ x.port = i THEN z = a + 1 /\ x.round = z ELSE z = a
AddsIn(S, i) == {t \in Nat \X S \X Nat : Adds(t[1], t[2], t[3], i)}

(* The steps that a module has taken that was prepared n times, is still   *)
(* prepared if b is 1, and has computed u times.                           *)
Phase(n, b, u) == 2 * n - b + u
Progressed(n, b, u) == u = n \/ (b = 1 /\ u + 1 = n)
Phases(a, x, z) ==
  IF x.type = "Prepare" THEN z = a + 1 /\ \E k \in Nat : a = 3 * k
  ELSE IF x.type = "ComputeObject" THEN z = a + 1 /\ \E k \in Nat : a = 3 * k + 1
  ELSE IF x.type = "Reduce" THEN z = a + 1 /\ \E k \in Nat : a = 3 * k + 2
  ELSE z = a
PhasesIn(S) == {t \in Nat \X S \X Nat : Phases(t[1], t[2], t[3])}

(* For a module d on rank r, where the process has computed u times, and   *)
(* the manager has prepared it n times, told it to compute c times, and    *)
(* passed on a[i] objects to input i: what is in its queue w, what it has  *)
(* got, and what is still to come from upstream.                           *)
Given(r, d, w, count, b, a, u, c, n) ==
  /\ Progressed(n, b, c)
  /\ Walk(w, Phase(module[r][d].round, After(module[r][d]), u), Phase(n, b, c), PhasesIn(QueueMsgs(d)))
  /\ \A i \in ComputeInputs[d] :
       count[i] + c = a[i] /\ Walk(w, u + Len(objects[r][i]), a[i], AddsIn(QueueMsgs(d), i))
Waits(d, count, c, n) == c # n => \E i \in ComputeInputs[d] : count[i] = 0
Taken(r, d, u) ==
  /\ Progressed(module[r][d].round, After(module[r][d]), u)
  /\ module[r][d].prepared /\ u # module[r][d].round => ~module[r][d].withOutput
  /\ \A i \in ComputeInputs[d] : \A k \in 1..Len(objects[r][i]) : objects[r][i][k] = u + k
Comes(r, d, a) ==
  \A i \in ComputeInputs[d] :
    Walk(out[r][Feeder(i)], a[i], Made(module[r][Feeder(i)]), MakesIn(OutMsgs(Feeder(i)), i))
Streams(r, d, a, u, c, n) ==
  /\ a \in [Inputs -> Nat] /\ u \in Nat /\ c \in Nat /\ n \in Nat
  /\ Given(r, d, queue[r][d], numObject[r], One(mod[r][d].prepared), a, u, c, n)
  /\ Waits(d, numObject[r], c, n) /\ Taken(r, d, u) /\ Comes(r, d, a)

(* A source makes its objects once.                                        *)
Producing == {<<"Produce", "Sync", "Finish">>, <<"Sync", "Produce", "Sync", "Finish">>}
SourceReady(r, m) == module[r][m].rest \in Producing => ~module[r][m].withOutput

StreamsOK ==
  /\ \A r \in Ranks, d \in Fed : \E a, u, c, n : Streams(r, d, a, u, c, n)
  /\ \A r \in Ranks, m \in Modules \ Fed : SourceReady(r, m)

(* Membership of a step in MakesIn.                                        *)
LEMMA MakesIff ==
  ASSUME NEW S, NEW i, NEW a, NEW x, NEW z
  PROVE  <<a, x, z>> \in MakesIn(S, i) <=> a \in Nat /\ x \in S /\ z \in Nat /\ Makes(a, x, z, i)
BY DEF MakesIn

(* Membership of a step in AddsIn.                                         *)
LEMMA AddsIff ==
  ASSUME NEW S, NEW i, NEW a, NEW x, NEW z
  PROVE  <<a, x, z>> \in AddsIn(S, i) <=> a \in Nat /\ x \in S /\ z \in Nat /\ Adds(a, x, z, i)
BY DEF AddsIn

(* Membership of a step in PhasesIn.                                       *)
LEMMA PhasesIff ==
  ASSUME NEW S, NEW a, NEW x, NEW z
  PROVE  <<a, x, z>> \in PhasesIn(S) <=> a \in Nat /\ x \in S /\ z \in Nat /\ Phases(a, x, z)
BY DEF PhasesIn

(* The number of steps tells which step is next.                           *)
LEMMA PhaseKind ==
  ASSUME NEW n \in Nat, NEW b \in 0..1, NEW u \in Nat, Progressed(n, b, u), NEW k \in Nat
  PROVE  /\ Phase(n, b, u) = 3 * k => b = 0 /\ n = k /\ u = k
         /\ Phase(n, b, u) = 3 * k + 1 => b = 1 /\ n = k + 1 /\ u = k
         /\ Phase(n, b, u) = 3 * k + 2 => b = 1 /\ n = k + 1 /\ u = k + 1
<1>1. PICK x : x = Phase(n, b, u)
  OBVIOUS
<1>2. x = 2 * n - b + u /\ (u = n \/ (b = 1 /\ u + 1 = n))
  BY <1>1 DEF Phase, Progressed
<1>3. x = 3 * k => b = 0 /\ n = k /\ u = k
  BY ONLY <1>2, n \in Nat, b \in 0..1, u \in Nat, k \in Nat
<1>4. x = 3 * k + 1 => b = 1 /\ n = k + 1 /\ u = k
  BY ONLY <1>2, n \in Nat, b \in 0..1, u \in Nat, k \in Nat
<1>5. x = 3 * k + 2 => b = 1 /\ n = k + 1 /\ u = k + 1
  BY ONLY <1>2, n \in Nat, b \in 0..1, u \in Nat, k \in Nat
<1> QED BY <1>1, <1>3, <1>4, <1>5

(* What is known of a module that was prepared n times and computed u      *)
(* times tells its turns.                                                  *)
LEMMA PhaseUnique ==
  ASSUME NEW n \in Nat, NEW b \in 0..1, NEW u \in Nat, Progressed(n, b, u),
         NEW n2 \in Nat, NEW b2 \in 0..1, NEW u2 \in Nat, Progressed(n2, b2, u2),
         Phase(n, b, u) = Phase(n2, b2, u2)
  PROVE  n = n2 /\ b = b2 /\ u = u2
<1>1. 2 * n - b + u = 2 * n2 - b2 + u2
  BY DEF Phase
<1>2. u = n \/ (b = 1 /\ u + 1 = n)
  BY DEF Progressed
<1>3. u2 = n2 \/ (b2 = 1 /\ u2 + 1 = n2)
  BY DEF Progressed
<1> QED BY ONLY <1>1, <1>2, <1>3, n \in Nat, b \in 0..1, u \in Nat, n2 \in Nat, b2 \in 0..1, u2 \in Nat

(* A module that is told to compute has the objects of the execution that  *)
(* it is in.                                                               *)
LEMMA SameFromStreams ==
  ASSUME IInv, StreamsOK
  PROVE  SameExecution
<1>1. ProcessesOK /\ ChannelsOK
  BY DEF IInv
<1>2. SUFFICES ASSUME NEW r \in Ranks, NEW m \in Modules, Handles(r, m, "ComputeObject"),
                      NEW i \in ComputeInputs[m], objects[r][i] # <<>>
               PROVE  Head(objects[r][i]) = module[r][m].round
  BY DEF SameExecution
<1>3. m \in Fed
  BY <1>2 DEF Fed
<1>4. PICK a, u, c, n : Streams(r, m, a, u, c, n)
  BY <1>3 DEF StreamsOK
<1>5. PICK p, w, b : p = module[r][m] /\ w = queue[r][m] /\ b = One(mod[r][m].prepared)
  OBVIOUS
<1>6. /\ u \in Nat /\ Progressed(p.round, After(p), u)
      /\ Walk(w, Phase(p.round, After(p), u), Phase(n, b, c), PhasesIn(QueueMsgs(m)))
      /\ \A k \in 1..Len(objects[r][i]) : objects[r][i][k] = u + k
  BY <1>4, <1>5 DEF Streams, Given, Taken
<1>7. w \in Seq(QueueMsgs(m)) /\ w # <<>> /\ Head(w).type = "ComputeObject"
  BY <1>1, <1>2, <1>5 DEF Handles, ChannelsOK, QueueFuns, Queues
<1>8. PICK z \in Nat : <<Phase(p.round, After(p), u), Head(w), z>> \in PhasesIn(QueueMsgs(m))
  BY ONLY <1>6, <1>7, WalkHead
<1>9. PICK k \in Nat : Phase(p.round, After(p), u) = 3 * k + 1
  <2>1. Phases(Phase(p.round, After(p), u), Head(w), z)
    BY <1>8, PhasesIff
  <2> QED BY <1>7, <2>1 DEF Phases
<1>10. p.round \in Nat /\ After(p) \in 0..1
  <2>1. p.round \in Nat
    BY <1>1, <1>5, ProcessFacts
  <2> QED BY <2>1 DEF After, One
<1>11. p.round = k + 1 /\ u = k
  BY ONLY <1>6, <1>9, <1>10, PhaseKind
<1>12. objects[r][i] \in Seq(Nat)
  <2>1. objects[r] \in [Inputs -> Seq(Nat)] /\ i \in Inputs
    BY <1>1, FedFacts, ProcessFacts
  <2> QED BY <2>1
<1>13. Head(objects[r][i]) = objects[r][i][1] /\ 1 \in 1..Len(objects[r][i])
  BY <1>2, <1>12
<1> QED BY <1>5, <1>6, <1>11, <1>13

(* No message takes from what has been made or passed on, or steps back.   *)
LEMMA StreamsGrow ==
  ASSUME NEW S, NEW i
  PROVE  /\ \A b, c \in Nat : \A x : <<b, x, c>> \in MakesIn(S, i) => b <= c
         /\ \A b, c \in Nat : \A x : <<b, x, c>> \in AddsIn(S, i) => b <= c
<1>1. ASSUME NEW b \in Nat, NEW c \in Nat, NEW x, <<b, x, c>> \in MakesIn(S, i) PROVE b <= c
  <2>1. Makes(b, x, c, i)
    BY <1>1, MakesIff
  <2>2. c = b + 1 \/ c = b
    BY <2>1 DEF Makes
  <2> QED BY <2>2
<1>2. ASSUME NEW b \in Nat, NEW c \in Nat, NEW x, <<b, x, c>> \in AddsIn(S, i) PROVE b <= c
  <2>1. Adds(b, x, c, i)
    BY <1>2, AddsIff
  <2>2. c = b + 1 \/ c = b
    BY <2>1 DEF Adds
  <2> QED BY <2>2
<1> QED BY <1>1, <1>2

(* The steps and the turns of a module that agree.                         *)
Fit(x, t) ==
  \E m \in Nat, e \in 0..1, v \in Nat : Progressed(m, e, v) /\ x = Phase(m, e, v) /\ t = 2 * m - e

(* They go on agreeing along a queue.                                      *)
LEMMA PhaseTurns ==
  ASSUME NEW d \in Fed, NEW w \in Seq(QueueMsgs(d)), NEW x0, NEW x1, NEW t0, NEW t1, Fit(x0, t0),
         Walk(w, x0, x1, PhasesIn(QueueMsgs(d))), Walk(w, t0, t1, BeginsIn(QueueMsgs(d), d))
  PROVE  Fit(x1, t1)
<1>1. PICK f \in [0..Len(w) -> Nat] :
        /\ f[0] = x0 /\ f[Len(w)] = x1
        /\ \A k \in 1..Len(w) : <<f[k - 1], w[k], f[k]>> \in PhasesIn(QueueMsgs(d))
  BY DEF Walk
<1>2. PICK g \in [0..Len(w) -> Nat] :
        /\ g[0] = t0 /\ g[Len(w)] = t1
        /\ \A k \in 1..Len(w) : <<g[k - 1], w[k], g[k]>> \in BeginsIn(QueueMsgs(d), d)
  BY DEF Walk
<1> DEFINE K == {k \in 0..Len(w) : Fit(f[k], g[k])}
<1>3. Len(w) \in Nat
  OBVIOUS
<1>4. 0 \in K
  BY <1>1, <1>2, <1>3
<1>5. ASSUME NEW k \in 0..Len(w), k < Len(w), k \in K PROVE k + 1 \in K
  <2>1. PICK m \in Nat, e \in 0..1, v \in Nat : Progressed(m, e, v) /\ f[k] = Phase(m, e, v) /\ g[k] = 2 * m - e
    BY <1>5 DEF Fit
  <2>2. k + 1 \in 1..Len(w) /\ (k + 1) - 1 = k /\ k + 1 \in 0..Len(w)
    BY <1>3, <1>5
  <2>3. PICK x : x = w[k + 1] /\ x \in QueueMsgs(d)
    BY <2>2
  <2>4. Phases(f[k], x, f[k + 1]) /\ Begins(g[k], x, g[k + 1], d)
    <3>1. <<f[(k + 1) - 1], w[k + 1], f[k + 1]>> \in PhasesIn(QueueMsgs(d))
      BY <1>1, <2>2
    <3>2. <<g[(k + 1) - 1], w[k + 1], g[k + 1]>> \in BeginsIn(QueueMsgs(d), d)
      BY <1>2, <2>2
    <3> QED BY <2>2, <2>3, <3>1, <3>2, PhasesIff, BeginsIff
  <2>5. x.module = d /\ x.type \in {"AddObject", "Prepare", "Reduce", "ComputeObject"} /\ d \in Modules
    BY <2>3, FedFacts, QueueMsgFacts
  <2>6. CASE x.type = "AddObject"
    <3>1. f[k + 1] = f[k] /\ g[k + 1] = g[k]
      BY <2>4, <2>6 DEF Phases, Begins
    <3> QED BY <1>5, <2>2, <3>1
  <2>7. CASE x.type = "Prepare"
    <3>1. PICK j \in Nat : f[k] = 3 * j /\ f[k + 1] = f[k] + 1
      BY <2>4, <2>7 DEF Phases
    <3>2. e = 0 /\ m = j /\ v = j
      <4>1. Phase(m, e, v) = 3 * j
        BY <2>1, <3>1
      <4> QED BY ONLY <2>1, <4>1, m \in Nat, e \in 0..1, v \in Nat, j \in Nat, PhaseKind
    <3>3. g[k + 1] = g[k] + 1
      BY <2>4, <2>5, <2>7 DEF Begins
    <3>4. Progressed(j + 1, 1, j) /\ f[k + 1] = Phase(j + 1, 1, j) /\ g[k + 1] = 2 * (j + 1) - 1 /\ j + 1 \in Nat
      BY <2>1, <3>1, <3>2, <3>3 DEF Progressed, Phase
    <3> QED BY <2>2, <3>4 DEF Fit
  <2>8. CASE x.type = "ComputeObject"
    <3>1. PICK j \in Nat : f[k] = 3 * j + 1 /\ f[k + 1] = f[k] + 1
      BY <2>4, <2>8 DEF Phases
    <3>2. e = 1 /\ m = j + 1 /\ v = j
      <4>1. Phase(m, e, v) = 3 * j + 1
        BY <2>1, <3>1
      <4> QED BY ONLY <2>1, <4>1, m \in Nat, e \in 0..1, v \in Nat, j \in Nat, PhaseKind
    <3>3. g[k + 1] = g[k]
      BY <2>4, <2>5, <2>8 DEF Begins
    <3>4. Progressed(j + 1, 1, j + 1) /\ f[k + 1] = Phase(j + 1, 1, j + 1) /\ g[k + 1] = 2 * (j + 1) - 1 /\ j + 1 \in Nat
      BY <2>1, <3>1, <3>2, <3>3 DEF Progressed, Phase
    <3> QED BY <2>2, <3>4 DEF Fit
  <2>9. CASE x.type = "Reduce"
    <3>1. PICK j \in Nat : f[k] = 3 * j + 2 /\ f[k + 1] = f[k] + 1
      BY <2>4, <2>9 DEF Phases
    <3>2. e = 1 /\ m = j + 1 /\ v = j + 1
      <4>1. Phase(m, e, v) = 3 * j + 2
        BY <2>1, <3>1
      <4> QED BY ONLY <2>1, <4>1, m \in Nat, e \in 0..1, v \in Nat, j \in Nat, PhaseKind
    <3>3. g[k + 1] = g[k] + 1
      BY <2>4, <2>5, <2>9 DEF Begins
    <3>4. Progressed(j + 1, 0, j + 1) /\ f[k + 1] = Phase(j + 1, 0, j + 1) /\ g[k + 1] = 2 * (j + 1) - 0 /\ j + 1 \in Nat
      BY <2>1, <3>1, <3>2, <3>3 DEF Progressed, Phase
    <3> QED BY <2>2, <3>4 DEF Fit
  <2> QED BY <2>5, <2>6, <2>7, <2>8, <2>9
<1> HIDE DEF K
<1>6. Len(w) \in K
  <2>1. \A k \in 0..Len(w) : k \in K
    BY <1>3, <1>4, <1>5, UpTo
  <2> QED BY <1>3, <2>1
<1> QED BY <1>1, <1>2, <1>6 DEF K

(* Rank 0 has been told of a module upstream that it has executed as often *)
(* as it has ordered m to finish.                                          *)
LEMMA ToldOfAll ==
  ASSUME Steering, IInv, NEW told, NEW mid, NEW mgr, NEW fin, NEW ex, NEW starts, NEW ends, NEW base,
         Numbered(told, mid, mgr, fin, ex, starts, ends, base),
         NEW r \in Ranks, NEW m \in Fed, NEW i \in ComputeInputs[m], NEW n \in Nat,
         2 * n <= starts[m] + ends[m]
  PROVE  Feeder(i) \in Modules /\ 2 * n <= told[r][Feeder(i)]
<1>1. MasterOK /\ ProcessesOK /\ ChannelsOK /\ LocalOK
  BY DEF IInv
<1>2. /\ told \in Numbers /\ mid \in Numbers /\ mgr \in Numbers /\ fin \in Numbers /\ ex \in Who
      /\ starts \in Amounts /\ ends \in Amounts /\ base \in Amounts
      /\ Sent(told, mid) /\ Ordered(mgr, starts, ends) /\ Counting(told, fin, ex)
      /\ Counted(starts, ends) /\ Epoch(fin, ex, base)
  BY DEF Numbered
<1>3. m \in Modules /\ i \in Inputs
  BY FedFacts
<1>14. PICK open \in [Modules -> 0..1] : ResetsOK(open)
  BY DEF IInv, OpenOK
<1>15. PICK s \in Nat, e \in Nat, o \in 0..1 : s = starts[m] /\ e = ends[m] /\ o = open[m]
  BY <1>2, <1>3 DEF Amounts
<1>16. s = e + o
  BY <1>1, <1>2, <1>3, <1>14, <1>15, StartsEnds
<1>17. n <= e
  <2>1. 2 * n <= s + e
    BY <1>15
  <2> QED BY ONLY <1>16, <2>1, n \in Nat, s \in Nat, e \in Nat, o \in 0..1
<1>18. PICK f : f = Feeder(i)
  OBVIOUS
<1>19. f \in Modules
  BY <1>18, FeederFacts
<1>20. n <= done[f]
  <2>1. numFinish[i] + ends[m] = done[f]
    BY <1>2, <1>18 DEF Counted
  <2>2. numFinish[i] \in Nat
    BY <1>1, <1>3 DEF MasterOK
  <2> QED BY <1>15, <1>17, <2>1, <2>2
<1>21. done[f] <= fin[r][f] /\ fin[r][f] \in Nat /\ done[f] \in Nat
  <2>1. /\ fin[r][f] \in {base[f], base[f] + 1}
        /\ done[f] = base[f] \/ (done[f] = base[f] + 1 /\ fin[r][f] = base[f] + 1)
    BY <1>2, <1>19 DEF Epoch
  <2>2. base[f] \in Nat
    BY <1>2, <1>19 DEF Amounts
  <2> QED BY <2>1, <2>2
<1>22. told[r][f] = 2 * fin[r][f] + ex[r][f] /\ ex[r][f] \in 0..1
  BY <1>2, <1>19 DEF Counting, Who
<1>23. 2 * n <= told[r][f]
  <2>1. PICK k \in Nat, g \in 0..1 : k = fin[r][f] /\ g = ex[r][f]
    BY <1>21, <1>22
  <2>2. n <= k
    BY <1>20, <1>21, <2>1
  <2>3. 2 * n <= 2 * k + g
    BY ONLY <2>2, n \in Nat, k \in Nat, g \in 0..1
  <2> QED BY <1>22, <2>1, <2>3
<1> QED BY <1>18, <1>19, <1>23

(* The turns of a manager are told by its steps.                           *)
LEMMA StreamTurns ==
  ASSUME Steering, IInv, NEW told, NEW mid, NEW mgr, NEW starts, NEW ends, Ordered(mgr, starts, ends),
         NEW r \in Ranks, NEW d \in Fed, NEW a, NEW u, NEW c, NEW n, Streams(r, d, a, u, c, n)
  PROVE  /\ n \in Nat /\ c \in Nat /\ d \in Modules
         /\ mgr[r][d] = 2 * n - One(mod[r][d].prepared)
         /\ Progressed(n, One(mod[r][d].prepared), c) /\ One(mod[r][d].prepared) \in 0..1
<1>1. ProcessesOK /\ ChannelsOK
  BY DEF IInv
<1>2. d \in Modules
  BY FedFacts
<1>3. PICK p, w, b : p = module[r][d] /\ w = queue[r][d] /\ b = One(mod[r][d].prepared)
  OBVIOUS
<1>4. PICK n0, b0 : n0 = p.round /\ b0 = After(p)
  OBVIOUS
<1>5. n0 \in Nat /\ b0 \in 0..1 /\ b \in 0..1
  <2>1. p.round \in Nat
    BY <1>1, <1>2, <1>3, ProcessFacts
  <2> QED BY <1>3, <1>4, <2>1 DEF After, One
<1>6. u \in Nat /\ c \in Nat /\ n \in Nat /\ Progressed(n0, b0, u) /\ Progressed(n, b, c)
  BY <1>3, <1>4 DEF Streams, Given, Taken
<1>7. Walk(w, Phase(n0, b0, u), Phase(n, b, c), PhasesIn(QueueMsgs(d)))
  BY <1>3, <1>4 DEF Streams, Given
<1>8. w \in Seq(QueueMsgs(d))
  BY <1>1, <1>2, <1>3 DEF ChannelsOK, QueueFuns, Queues
<1>9. Walk(w, 2 * n0 - b0, mgr[r][d], BeginsIn(QueueMsgs(d), d))
  <2>1. Walk(w, Later(p, d), mgr[r][d], BeginsIn(QueueMsgs(d), d))
    BY <1>2, <1>3 DEF Ordered
  <2>2. Later(p, d) = 2 * n0 - b0
    BY ONLY <1>4, d \in Fed DEF Later
  <2> QED BY <2>1, <2>2
<1>10. PICK t : t = mgr[r][d]
  OBVIOUS
<1>11. PICK x0, x1, t0 : x0 = Phase(n0, b0, u) /\ x1 = Phase(n, b, c) /\ t0 = 2 * n0 - b0
  OBVIOUS
<1>12. Walk(w, x0, x1, PhasesIn(QueueMsgs(d))) /\ Walk(w, t0, t, BeginsIn(QueueMsgs(d), d))
  BY <1>7, <1>9, <1>10, <1>11
<1>13. t = 2 * n - b
  <2>1. Fit(x0, t0)
    BY <1>5, <1>6, <1>11 DEF Fit
  <2>2. Fit(x1, t)
    BY ONLY <1>8, <1>12, <2>1, d \in Fed, PhaseTurns
  <2>3. PICK m \in Nat, e \in 0..1, v \in Nat : Progressed(m, e, v) /\ x1 = Phase(m, e, v) /\ t = 2 * m - e
    BY <2>2 DEF Fit
  <2>4. Phase(n, b, c) = Phase(m, e, v)
    BY <1>11, <2>3
  <2>5. n = m /\ b = e
    BY ONLY <1>5, <1>6, <2>3, <2>4, PhaseUnique
  <2> QED BY <2>3, <2>5
<1> QED BY <1>2, <1>3, <1>5, <1>6, <1>10, <1>13

(* What a process has made is no more than the executions it has begun.    *)
LEMMA MadeBound ==
  ASSUME ProcessesOK, NEW r \in Ranks, NEW m \in Modules
  PROVE  Made(module[r][m]) \in Int /\ Made(module[r][m]) <= module[r][m].round
         /\ (module[r][m].prepared => Made(module[r][m]) >= module[r][m].round - 1)
         /\ (~module[r][m].prepared => Made(module[r][m]) = module[r][m].round)
         /\ module[r][m].round \in Nat
<1>1. PICK p : p = module[r][m]
  OBVIOUS
<1>2. p.round \in Nat
  BY <1>1, ProcessFacts
<1>3. PICK o \in 0..1 : o = One(p.prepared /\ ~p.withOutput) /\ (~p.prepared => o = 0)
  BY DEF One
<1>4. PICK k \in Nat : k = p.round
  BY <1>2
<1>5. Made(p) = k - o
  BY <1>3, <1>4 DEF Made
<1> QED BY <1>1, <1>3, <1>4, <1>5

(* One input of d is fed by a module that is not ahead of it: its feeder   *)
(* has begun no more executions than d, which is about to be prepared if   *)
(* it is not.                                                              *)
LEMMA Ahead ==
  ASSUME Steering, IInv, CountsOK, NEW r \in Ranks, NEW d \in Fed,
         NEW a, NEW u, NEW c, NEW n, Streams(r, d, a, u, c, n)
  PROVE  \E i \in ComputeInputs[d] : Feeder(i) \in Modules
           /\ Made(module[r][Feeder(i)]) <= n + 1 - One(mod[r][d].prepared)
<1>1. ProcessesOK /\ ChannelsOK
  BY DEF IInv
<1>2. PICK told, mid, mgr, fin, ex, starts, ends, base :
        Numbered(told, mid, mgr, fin, ex, starts, ends, base)
  BY DEF CountsOK
<1>3. /\ Sent(told, mid) /\ Ordered(mgr, starts, ends) /\ Epoch(fin, ex, base) /\ Once(starts, base)
      /\ Counting(told, fin, ex) /\ Counted(starts, ends) /\ base \in Amounts
      /\ starts \in Amounts /\ ends \in Amounts /\ fin \in Numbers /\ ex \in Who
  BY <1>2 DEF Numbered
<1>4. PICK b : b = One(mod[r][d].prepared)
  OBVIOUS
<1>5. n \in Nat /\ d \in Modules /\ mgr[r][d] = 2 * n - b /\ b \in 0..1
  BY <1>3, <1>4, StreamTurns
<1>6. PICK i \in ComputeInputs[d] : base[d] = base[Feeder(i)]
  BY <1>3 DEF Once
<1>7. PICK f : f = Feeder(i)
  OBVIOUS
<1>8. f \in Modules
  BY <1>7, FeederFacts
<1>9. PICK e \in Nat : e = base[d] /\ e = base[f]
  BY <1>3, <1>5, <1>6, <1>7 DEF Amounts
<1>10. 2 * e <= 2 * n - b
  <2>1. told[r][d] = 2 * fin[r][d] + ex[r][d] /\ ex[r][d] \in 0..1 /\ fin[r][d] \in {e, e + 1}
    BY <1>3, <1>5, <1>9 DEF Counting, Epoch, Who
  <2>2. /\ told[r][d] \in Nat /\ mid[r][d] \in Nat /\ Turns(module[r][d]) \in Nat
        /\ Later(module[r][d], d) \in Nat /\ mgr[r][d] \in Nat
        /\ told[r][d] <= mid[r][d] /\ mid[r][d] <= Turns(module[r][d])
        /\ Turns(module[r][d]) <= Later(module[r][d], d) /\ Later(module[r][d], d) <= mgr[r][d]
    BY <1>1, <1>3, <1>5, InOrder
  <2>3. told[r][d] <= mgr[r][d]
    BY <2>2
  <2>4. PICK k \in Nat, g \in 0..1 : k = fin[r][d] /\ g = ex[r][d] /\ e <= k
    <3>1. fin[r][d] \in Nat /\ e <= fin[r][d]
      BY <2>1
    <3> QED BY <2>1, <3>1
  <2>5. 2 * k + g <= 2 * n - b
    BY <1>5, <2>1, <2>3, <2>4
  <2> QED BY ONLY <2>4, <2>5, <1>5, e \in Nat, k \in Nat, g \in 0..1
<1>11. module[r][f].round <= e + 1
  <2>1. PICK p, k : p = module[r][f] /\ k = p.round
    OBVIOUS
  <2>2. k \in Nat
    BY <1>1, <1>8, <2>1, ProcessFacts
  <2>3. PICK g \in 0..1 : g = IF f \in Fed THEN After(p) ELSE 0
    BY DEF After, One
  <2>4. Later(p, f) = 2 * k - g
    BY <2>1, <2>3 DEF Later
  <2>5. /\ Later(p, f) \in Nat /\ mgr[r][f] \in Nat /\ starts[f] + ends[f] \in Nat
        /\ Later(p, f) <= mgr[r][f] /\ mgr[r][f] <= starts[f] + ends[f]
    BY <1>1, <1>3, <1>8, <2>1, InOrder
  <2>6. PICK s \in Nat, t \in Nat : s = starts[f] /\ t = ends[f] /\ s <= e + 1
    BY <1>3, <1>8, <1>9 DEF Amounts, Once
  <2>7. t <= s
    <3>1. PICK open \in [Modules -> 0..1] : ResetsOK(open)
      BY DEF IInv, OpenOK
    <3>2. MasterOK
      BY DEF IInv
    <3> QED BY <1>3, <1>8, <2>6, <3>1, <3>2, StartsEnds
  <2>8. 2 * k - g <= s + t
    BY <2>4, <2>5, <2>6
  <2>9. k <= e + 1
    BY ONLY <2>2, <2>3, <2>6, <2>7, <2>8, e \in Nat, s \in Nat, t \in Nat, g \in 0..1
  <2> QED BY <2>1, <2>9
<1>12. PICK y \in Int, k \in Nat : y = Made(module[r][f]) /\ k = module[r][f].round /\ y <= k
  BY <1>1, <1>8, MadeBound
<1>13. e <= n - b
  BY ONLY <1>5, <1>10, e \in Nat
<1>14. y <= n + 1 - b
  BY ONLY <1>5, <1>11, <1>12, <1>13, e \in Nat, y \in Int, k \in Nat
<1> QED BY <1>4, <1>7, <1>8, <1>12, <1>14

(* When a process was known to have executed n times, the objects of these *)
(* executions have been passed on.                                         *)
LEMMA Passed ==
  ASSUME ProcessesOK, ChannelsOK, NEW told, NEW mid, NEW mgr, NEW starts, NEW ends,
         Sent(told, mid), Ordered(mgr, starts, ends),
         NEW r \in Ranks, NEW f \in Modules, NEW i, NEW a0,
         Walk(out[r][f], a0, Made(module[r][f]), MakesIn(OutMsgs(f), i)),
         NEW n \in Nat, 2 * n <= mid[r][f]
  PROVE  n <= a0
<1>1. PICK q, p, t : q = out[r][f] /\ p = module[r][f] /\ t = mid[r][f]
  OBVIOUS
<1>2. q \in Seq(OutMsgs(f)) /\ Walk(q, t, Turns(p), TellsIn(OutMsgs(f), f))
  BY <1>1 DEF ChannelsOK, OutFuns, Outs, Sent
<1>3. t \in Nat /\ Turns(p) \in Nat /\ t <= Turns(p) /\ 2 * n <= t
  BY <1>1, InOrder
<1>4. PICK h \in [0..Len(q) -> Nat] :
        /\ h[0] = t /\ h[Len(q)] = Turns(p)
        /\ \A k \in 1..Len(q) : <<h[k - 1], q[k], h[k]>> \in TellsIn(OutMsgs(f), f)
        /\ \A k \in 0..Len(q) : t <= h[k]
  <2>1. \A b, c \in Nat : \A x : <<b, x, c>> \in TellsIn(OutMsgs(f), f) => b <= c
    BY TurnsGrow
  <2> QED BY ONLY <1>2, <2>1, WalkAbove
<1>5. PICK g \in [0..Len(q) -> Nat] :
        /\ g[0] = a0 /\ g[Len(q)] = Made(p)
        /\ \A k \in 1..Len(q) : <<g[k - 1], q[k], g[k]>> \in MakesIn(OutMsgs(f), i)
  BY <1>1 DEF Walk
<1>6. Len(q) \in Nat /\ a0 \in Nat /\ Made(p) \in Nat
  <2>1. Len(q) \in Nat /\ 0 \in 0..Len(q) /\ Len(q) \in 0..Len(q)
    BY <1>2
  <2> QED BY <1>5, <2>1
<1>7. SUFFICES ASSUME a0 < n PROVE FALSE
  BY <1>6
<1> DEFINE K == {k \in 0..Len(q) : g[k] < n}
<1>8. 0 \in K
  BY <1>5, <1>6, <1>7
<1>9. ASSUME NEW k \in 0..Len(q), k < Len(q), k \in K PROVE k + 1 \in K
  <2>1. k + 1 \in 1..Len(q) /\ k + 1 \in 0..Len(q) /\ (k + 1) - 1 = k
    BY <1>6, <1>9
  <2>2. PICK x : x = q[k + 1]
    OBVIOUS
  <2>3. /\ g[k] \in Nat /\ g[k + 1] \in Nat /\ h[k] \in Nat /\ t <= h[k] /\ g[k] < n
        /\ Makes(g[k], x, g[k + 1], i) /\ Tells(h[k], x, h[k + 1], f) /\ x \in OutMsgs(f)
    <3>1. <<g[k], x, g[k + 1]>> \in MakesIn(OutMsgs(f), i) /\ <<h[k], x, h[k + 1]>> \in TellsIn(OutMsgs(f), f)
      BY <1>4, <1>5, <2>1, <2>2
    <3> QED BY <1>4, <1>5, <1>9, <2>1, <3>1, MakesIff, TellsIff
  <2>4. g[k + 1] = g[k]
    <3>1. SUFFICES ASSUME g[k + 1] # g[k] PROVE FALSE
      OBVIOUS
    <3>2. x.type = "Object" /\ g[k + 1] = g[k] + 1 /\ x.round = g[k + 1]
      BY <2>3, <3>1 DEF Makes
    <3>3. h[k] + 1 = 2 * x.round
      BY <2>3, <3>2 DEF Tells
    <3>4. PICK v \in Nat, w \in Nat : v = g[k] /\ w = h[k]
      BY <2>3
    <3>5. w + 1 = 2 * (v + 1) /\ v < n /\ 2 * n <= w
      BY <1>3, <2>3, <3>2, <3>3, <3>4
    <3> QED BY ONLY <3>5, v \in Nat, w \in Nat, n \in Nat
  <2> QED BY <2>1, <2>3, <2>4
<1> HIDE DEF K
<1>10. Len(q) \in K
  <2>1. \A k \in 0..Len(q) : k \in K
    BY <1>6, <1>8, <1>9, UpTo
  <2> QED BY <1>6, <2>1
<1>11. Made(p) < n
  BY <1>5, <1>10 DEF K
<1>12. PICK k \in Nat : k = p.round
  BY <1>1, ProcessFacts
<1>13. PICK o \in 0..1 : o = One(p.prepared) /\ Turns(p) = 2 * k - o /\ k - o <= Made(p)
  <2>1. PICK o \in 0..1 : o = One(p.prepared)
    BY DEF One
  <2>2. Turns(p) = 2 * k - o
    BY <1>12, <2>1 DEF Turns
  <2>3. (p.prepared => Made(p) >= k - 1) /\ (~p.prepared => Made(p) = k)
    BY <1>1, <1>12, MadeBound
  <2>4. k - o <= Made(p)
    <3>1. CASE p.prepared
      BY <1>6, <2>1, <2>3, <3>1 DEF One
    <3>2. CASE ~p.prepared
      BY <1>6, <2>1, <2>3, <3>2 DEF One
    <3> QED BY <3>1, <3>2
  <2> QED BY <2>1, <2>2, <2>4
<1>14. PICK y \in Nat : y = Made(p)
  BY <1>6
<1>15. 2 * n <= 2 * k - o /\ k - o <= y /\ y < n
  BY <1>3, <1>11, <1>13, <1>14
<1> QED BY ONLY <1>15, n \in Nat, k \in Nat, o \in 0..1, y \in Nat

(* A manager that reduces a module has told it to compute before.          *)
LEMMA ComputedFirst ==
  ASSUME Steering, IInv, CountsOK, NEW r \in Ranks, NEW d \in Fed,
         NEW a, NEW u, NEW c, NEW n, Streams(r, d, a, u, c, n),
         down[r] # <<>>, Head(down[r]).type = "Reduce", Head(down[r]).module = d
  PROVE  c = n /\ mod[r][d].prepared
<1>1. ManagersOK /\ ProcessesOK /\ ChannelsOK
  BY DEF IInv
<1>2. PICK told, mid, mgr, fin, ex, starts, ends, base :
        Numbered(told, mid, mgr, fin, ex, starts, ends, base)
  BY DEF CountsOK
<1>3. Sent(told, mid) /\ Ordered(mgr, starts, ends)
  BY <1>2 DEF Numbered
<1>4. PICK b : b = One(mod[r][d].prepared)
  OBVIOUS
<1>5. n \in Nat /\ c \in Nat /\ d \in Modules /\ mgr[r][d] = 2 * n - b /\ b \in 0..1 /\ Progressed(n, b, c)
  BY <1>3, <1>4, StreamTurns
<1>6. mod[r][d].prepared
  <2>1. FlagsAgree
    BY FlagsFromInv
  <2> QED BY <2>1 DEF FlagsAgree
<1>7. b = 1
  BY <1>4, <1>6 DEF One
<1>8. 2 * n <= starts[d] + ends[d]
  <2>1. Walk(down[r], mgr[r][d], starts[d] + ends[d], BeginsIn(DownMsgs, d)) /\ down[r] \in Seq(DownMsgs)
    BY <1>1, <1>3, <1>5 DEF Ordered, ChannelsOK
  <2>2. PICK q, y, z : q = down[r] /\ y = mgr[r][d] /\ z = starts[d] + ends[d]
    OBVIOUS
  <2>3. q \in Seq(DownMsgs) /\ q # <<>> /\ Walk(q, y, z, BeginsIn(DownMsgs, d)) /\ Tail(q) \in Seq(DownMsgs)
    BY <2>1, <2>2
  <2>4. PICK k \in Nat : <<y, Head(q), k>> \in BeginsIn(DownMsgs, d) /\ Walk(Tail(q), k, z, BeginsIn(DownMsgs, d))
    BY ONLY <2>3, WalkHead
  <2>5. k = y + 1
    <3>1. Begins(y, Head(q), k, d)
      BY <2>4, BeginsIff
    <3> QED BY <2>2, <3>1 DEF Begins
  <2>6. k <= z
    <3>1. \A j, l \in Nat : \A x : <<j, x, l>> \in BeginsIn(DownMsgs, d) => j <= l
      BY TurnsGrow
    <3> QED BY ONLY <2>3, <2>4, <3>1, WalkUp
  <2>7. (2 * n - 1) + 1 = 2 * n
    BY ONLY <1>5
  <2>8. k = 2 * n
    BY <1>5, <1>7, <2>2, <2>5, <2>7
  <2> QED BY <2>2, <2>6, <2>8
<1>9. ASSUME NEW i \in ComputeInputs[d] PROVE n <= a[i]
  <2>1. PICK f : f = Feeder(i)
    OBVIOUS
  <2>2. f \in Modules /\ 2 * n <= told[r][f]
    BY <1>2, <1>5, <1>8, <2>1, ToldOfAll
  <2>3. told[r][f] \in Nat /\ mid[r][f] \in Nat /\ told[r][f] <= mid[r][f]
    BY <1>1, <1>3, <2>2, InOrder
  <2>4. 2 * n <= mid[r][f]
    <3>1. 2 * n \in Nat
      BY <1>5
    <3> QED BY <2>2, <2>3, <3>1
  <2>5. Walk(out[r][f], a[i], Made(module[r][f]), MakesIn(OutMsgs(f), i))
    BY <2>1 DEF Streams, Comes
  <2>6. PICK a0 : a0 = a[i]
    OBVIOUS
  <2>7. n <= a0
    BY <1>1, <1>3, <1>5, <2>2, <2>4, <2>5, <2>6, Passed
  <2> QED BY <2>6, <2>7
<1>10. ASSUME c # n PROVE FALSE
  <2>1. PICK i \in ComputeInputs[d] : numObject[r][i] = 0
    BY <1>10 DEF Streams, Waits
  <2>2. 0 + c = a[i]
    BY <2>1 DEF Streams, Given
  <2>3. n <= c
    BY <1>5, <1>9, <2>2
  <2>4. c = n \/ c + 1 = n
    BY <1>5 DEF Progressed
  <2> QED BY ONLY <1>10, <2>3, <2>4, <1>5
<1> QED BY <1>6, <1>10
-----------------------------------------------------------------------------
(***************************************************************************)
(* The manager of a rank, as it delivers objects and prepares.             *)
(***************************************************************************)
Holds(r, d, s, b, a, u, n) ==
  \E c \in Nat : Given(r, d, s.queue[d], s.count, b, a, u, c, n) /\ Waits(d, s.count, c, n)

(* What is known of d is the same in two states of a manager.              *)
SameFor(t, s, d) == t.queue[d] = s.queue[d] /\ \A i \in ComputeInputs[d] : t.count[i] = s.count[i]

(* checkExecuteObject for another module leaves it.                        *)
LEMMA CheckOthers ==
  ASSUME NEW r, NEW m \in Modules, NEW ready, NEW s, NEW bs, StateOK(s, r, bs), NEW d \in Fed, d # m
  PROVE  SameFor(CheckExecuteObject(r, m, ready, s), s, d)
<1>1. PICK n : n = IF ready THEN Tuples(s.count, m) ELSE 0
  OBVIOUS
<1>2. PICK c : c = Repeat(n, Execute("ComputeObject", m))
  OBVIOUS
<1>3. PICK w, k : w = s.queue /\ k = s.count
  OBVIOUS
<1>4. PICK q, h : /\ q = [w EXCEPT ![m] = @ \o c]
                  /\ h = [i \in Inputs |-> IF i \in ComputeInputs[m] THEN k[i] - n ELSE k[i]]
  OBVIOUS
<1>5. PICK t : t = CheckExecuteObject(r, m, ready, s)
  OBVIOUS
<1>6. t.count = h /\ (t.queue = q \/ t.queue = w)
  BY <1>1, <1>2, <1>3, <1>4, <1>5 DEF CheckExecuteObject
<1>7. w \in [Modules -> UNION {Seq(QueueMsgs(e)) : e \in Modules}] /\ d \in Modules
  BY <1>3, FedFacts DEF StateOK, Queues
<1>8. q[d] = w[d]
  BY <1>4, <1>7
<1>9. \A i \in ComputeInputs[d] : i \in Inputs /\ i \notin ComputeInputs[m]
  <2>1. ASSUME NEW i \in ComputeInputs[d], i \in ComputeInputs[m] PROVE FALSE
    <3>1. ModuleOf[i] = d
      BY <1>7, FedFacts
    <3>2. ModuleOf[i] = m
      BY <2>1, FedFacts
    <3> QED BY <3>1, <3>2
  <2>2. \A i \in ComputeInputs[d] : i \in Inputs
    BY <1>7, FedFacts
  <2> QED BY <2>1, <2>2
<1>10. \A i \in ComputeInputs[d] : h[i] = k[i]
  BY <1>4, <1>9
<1> QED BY <1>3, <1>5, <1>6, <1>8, <1>10 DEF SameFor

(* The counts after an object has been sent to input i.                    *)
LEMMA ArrivesCount ==
  ASSUME NEW r, NEW s, NEW bs, StateOK(s, r, bs), NEW i \in Inputs, NEW n
  PROVE  \A j \in Inputs : Arrives(s, i, n).count[j] = IF j = i THEN s.count[j] + 1 ELSE s.count[j]
<1>1. PICK k, w : k = s.count /\ w = s.queue
  OBVIOUS
<1>2. s = [count |-> k, queue |-> w, cast |-> <<>>] /\ k \in [Inputs -> Nat]
  BY <1>1 DEF StateOK
<1>3. PICK x : x = AddObject(i, n)
  OBVIOUS
<1>4. PICK q : q = [w EXCEPT ![x.module] = Append(@, x)]
  OBVIOUS
<1>5. Send(s, x) = [count |-> k, queue |-> q, cast |-> <<>>]
  <2>1. s.queue = w
    BY ONLY <1>2
  <2>2. Send(s, x) = [s EXCEPT !.queue = q]
    BY ONLY <1>4, <2>1 DEF Send
  <2> QED BY ONLY <1>2, <2>2
<1>6. PICK h : h = [k EXCEPT ![i] = @ + 1]
  OBVIOUS
<1>7. Arrives(s, i, n) = [count |-> h, queue |-> q, cast |-> <<>>]
  BY ONLY <1>3, <1>5, <1>6 DEF Arrives
<1>8. Arrives(s, i, n).count = h
  BY ONLY <1>7
<1> QED BY <1>1, <1>2, <1>6, <1>8

(* One input has as few objects as there are tuples.                       *)
LEMMA TuplesMet ==
  ASSUME NEW count \in [Inputs -> Nat], NEW m \in Fed
  PROVE  \E i \in ComputeInputs[m] : Tuples(count, m) = count[i]
<1> DEFINE S == {count[i] : i \in ComputeInputs[m]}
<1>1. ComputeInputs[m] # {} /\ \A i \in ComputeInputs[m] : count[i] \in Nat
  BY FedFacts
<1>2. S \subseteq Nat /\ S # {}
  BY <1>1
<1>3. Min(S) \in S
  BY <1>2, LeastIs
<1>4. Tuples(count, m) = Min(S)
  BY <1>1 DEF Tuples
<1> QED BY <1>3, <1>4

(* One element, repeated once.                                             *)
LEMMA RepeatOne ==
  ASSUME NEW S, NEW x \in S
  PROVE  Repeat(1, x) = <<x>>
<1>1. Repeat(1, x) \in Seq(S) /\ Len(Repeat(1, x)) = 1 /\ \A k \in 1..1 : Repeat(1, x)[k] = x
  BY RepeatSeq
<1>2. <<x>> \in Seq(S) /\ Len(<<x>>) = 1 /\ \A k \in 1..1 : <<x>>[k] = x
  OBVIOUS
<1> QED BY <1>1, <1>2, SeqEqual

(* What is given to a module when one order to compute is added.           *)
LEMMA GivenCompute ==
  ASSUME NEW r \in Ranks, NEW d \in Fed, NEW w \in Seq(QueueMsgs(d)), NEW count, NEW count2,
         NEW a \in [Inputs -> Nat], NEW u \in Nat, NEW c \in Nat, NEW n \in Nat, c + 1 = n,
         Given(r, d, w, count, 1, a, u, c, n),
         \A i \in ComputeInputs[d] : count[i] \in Nat /\ count2[i] = count[i] - 1
  PROVE  Given(r, d, Append(w, Execute("ComputeObject", d)), count2, 1, a, u, n, n)
<1>1. PICK x, z : x = Execute("ComputeObject", d) /\ z = Append(w, x)
  OBVIOUS
<1>2. x \in QueueMsgs(d) /\ x.type = "ComputeObject"
  BY <1>1, FedFacts, OrderFacts DEF Execute
<1>3. PICK y0, y, y2 : /\ y0 = Phase(module[r][d].round, After(module[r][d]), u)
                       /\ y = Phase(n, 1, c) /\ y2 = Phase(n, 1, n)
  OBVIOUS
<1>4. Walk(w, y0, y, PhasesIn(QueueMsgs(d)))
  BY <1>3 DEF Given
<1>5. y = 3 * c + 1 /\ y2 = y + 1 /\ y \in Nat /\ y2 \in Nat
  <2>1. y = 2 * n - 1 + c /\ y2 = 2 * n - 1 + n
    BY <1>3 DEF Phase
  <2>2. 2 * n - 1 + c = 3 * c + 1 /\ 2 * n - 1 + n = (2 * n - 1 + c) + 1
    BY ONLY c + 1 = n, c \in Nat, n \in Nat
  <2> QED BY <2>1, <2>2
<1>6. <<y, x, y2>> \in PhasesIn(QueueMsgs(d))
  <2>1. Phases(y, x, y2)
    BY <1>2, <1>5 DEF Phases
  <2> QED BY <1>2, <1>5, <2>1, PhasesIff
<1>7. Walk(z, y0, y2, PhasesIn(QueueMsgs(d)))
  BY <1>1, <1>2, <1>4, <1>5, <1>6, WalkAppend
<1>8. ASSUME NEW i \in ComputeInputs[d]
      PROVE  count2[i] + n = a[i] /\ Walk(z, u + Len(objects[r][i]), a[i], AddsIn(QueueMsgs(d), i))
  <2>1. i \in Inputs /\ a[i] \in Nat /\ count[i] \in Nat /\ count2[i] = count[i] - 1 /\ count[i] + c = a[i]
    BY FedFacts DEF Given
  <2>2. count2[i] + n = a[i]
    <3>1. PICK v \in Nat : v = count[i]
      BY <2>1
    <3>2. (v - 1) + n = v + c
      BY ONLY v \in Nat, c \in Nat, c + 1 = n
    <3> QED BY <2>1, <3>1, <3>2
  <2>3. PICK k, l : k = u + Len(objects[r][i]) /\ l = a[i]
    OBVIOUS
  <2>4. Walk(w, k, l, AddsIn(QueueMsgs(d), i)) /\ l \in Nat
    BY <2>1, <2>3 DEF Given
  <2>5. <<l, x, l>> \in AddsIn(QueueMsgs(d), i)
    <3>1. Adds(l, x, l, i)
      BY <1>2 DEF Adds
    <3> QED BY <1>2, <2>4, <3>1, AddsIff
  <2>6. Walk(z, k, l, AddsIn(QueueMsgs(d), i))
    BY <1>1, <1>2, <2>4, <2>5, WalkAppend
  <2> QED BY <2>2, <2>3, <2>6
<1>9. Progressed(n, 1, n)
  BY DEF Progressed
<1> QED BY <1>1, <1>3, <1>7, <1>8, <1>9 DEF Given

(* checkExecuteObject makes d compute once at most, and d waits for an     *)
(* object if it does not.                                                  *)
LEMMA CheckStream ==
  ASSUME Steering, NEW r \in Ranks, NEW d \in Fed, NEW ready, NEW s, NEW bs, StateOK(s, r, bs),
         NEW b \in 0..1, ready <=> b = 1, NEW a \in [Inputs -> Nat], NEW u \in Nat, NEW c \in Nat, NEW n \in Nat,
         Given(r, d, s.queue[d], s.count, b, a, u, c, n),
         b = 1 => \E i \in ComputeInputs[d] : a[i] <= n
  PROVE  Holds(r, d, CheckExecuteObject(r, d, ready, s), b, a, u, n)
<1>1. PICK k, t, w : /\ k = (IF ready THEN Tuples(s.count, d) ELSE 0)
                     /\ t = CheckExecuteObject(r, d, ready, s) /\ w = s.queue[d]
  OBVIOUS
<1>2. /\ t.queue[d] = w \o Repeat(k, Execute("ComputeObject", d))
      /\ \A i \in ComputeInputs[d] : t.count[i] = s.count[i] - k
  <2>1. PICK x : x = Repeat(k, Execute("ComputeObject", d))
    OBVIOUS
  <2>2. PICK v, l : v = s.queue /\ l = s.count
    OBVIOUS
  <2>3. PICK q, h : /\ q = [v EXCEPT ![d] = @ \o x]
                    /\ h = [i \in Inputs |-> IF i \in ComputeInputs[d] THEN l[i] - k ELSE l[i]]
    OBVIOUS
  <2>4. SchedulingPolicy[d] = "Single"
    BY DEF Steering
  <2>5. t.count = h /\ t.queue = q
    BY <1>1, <2>1, <2>2, <2>3, <2>4 DEF CheckExecuteObject
  <2>6. v \in [Modules -> UNION {Seq(QueueMsgs(e)) : e \in Modules}] /\ d \in Modules
    BY <2>2, FedFacts DEF StateOK, Queues
  <2>7. q[d] = v[d] \o x
    BY <2>3, <2>6
  <2>8. \A i \in ComputeInputs[d] : i \in Inputs
    BY FedFacts
  <2>9. \A i \in ComputeInputs[d] : h[i] = l[i] - k
    BY <2>3, <2>8
  <2> QED BY <1>1, <2>1, <2>2, <2>5, <2>7, <2>9
<1>3. /\ s.count \in [Inputs -> Nat] /\ w \in Seq(QueueMsgs(d)) /\ d \in Modules
      /\ \A i \in ComputeInputs[d] : i \in Inputs /\ s.count[i] \in Nat /\ s.count[i] + c = a[i] /\ a[i] \in Nat
  BY <1>1, FedFacts DEF StateOK, Queues, Given
<1>4. Progressed(n, b, c)
  BY DEF Given
<1>5. k \in Nat /\ \A i \in ComputeInputs[d] : k <= s.count[i]
  BY <1>1, <1>3, TuplesBound
<1>6. CASE k = 0
  <2>1. Repeat(k, Execute("ComputeObject", d)) = <<>>
    <3>1. Execute("ComputeObject", d) \in QueueMsgs(d)
      BY <1>3, OrderFacts
    <3> QED BY <1>6, <3>1, RepeatSeq
  <2>2. t.queue[d] = w
    BY <1>2, <1>3, <2>1, ConcatEmptySeq
  <2>3. \A i \in ComputeInputs[d] : t.count[i] = s.count[i]
    BY <1>2, <1>3, <1>6
  <2>4. Given(r, d, t.queue[d], t.count, b, a, u, c, n)
    BY <1>1, <2>2, <2>3 DEF Given
  <2>5. Waits(d, t.count, c, n)
    <3>1. SUFFICES ASSUME c # n PROVE \E i \in ComputeInputs[d] : t.count[i] = 0
      BY DEF Waits
    <3>2. b = 1
      BY <1>4, <3>1 DEF Progressed
    <3>3. Tuples(s.count, d) = 0
      BY <1>1, <1>6, <3>2
    <3> QED BY <1>3, <2>3, <3>3, TuplesMet
  <2> QED BY <1>1, <2>4, <2>5 DEF Holds
<1>7. CASE k # 0
  <2>1. b = 1
    BY <1>1, <1>7
  <2>2. PICK i \in ComputeInputs[d] : a[i] <= n
    BY <2>1
  <2>3. k <= s.count[i] /\ s.count[i] + c <= n /\ s.count[i] \in Nat
    BY <1>3, <1>5, <2>2
  <2>4. c = n \/ c + 1 = n
    BY <1>4 DEF Progressed
  <2>5. k = 1 /\ c + 1 = n
    <3>1. PICK v \in Nat : v = s.count[i]
      BY <2>3
    <3>2. k \in Nat /\ k # 0 /\ k <= v /\ v + c <= n
      BY <1>5, <1>7, <2>3, <3>1
    <3> QED BY ONLY <2>4, <3>2, v \in Nat, c \in Nat, n \in Nat
  <2>6. t.queue[d] = Append(w, Execute("ComputeObject", d))
    <3>1. PICK x : x = Execute("ComputeObject", d) /\ x \in QueueMsgs(d)
      BY <1>3, OrderFacts
    <3>2. Repeat(1, x) = <<x>>
      BY ONLY <3>1, RepeatOne
    <3>3. w \o <<x>> = Append(w, x)
      BY <1>3, <3>1
    <3> QED BY <1>2, <2>5, <3>1, <3>2, <3>3
  <2>7. Given(r, d, w, s.count, 1, a, u, c, n)
    BY <1>1, <2>1
  <2>8. \A j \in ComputeInputs[d] : s.count[j] \in Nat /\ t.count[j] = s.count[j] - 1
    BY <1>2, <1>3, <2>5
  <2>9. PICK h, g : h = s.count /\ g = t.count
    OBVIOUS
  <2>10. Given(r, d, Append(w, Execute("ComputeObject", d)), g, 1, a, u, n, n)
    BY <1>3, <2>5, <2>7, <2>8, <2>9, GivenCompute
  <2>11. Waits(d, t.count, n, n)
    BY DEF Waits
  <2> QED BY <1>1, <2>1, <2>6, <2>9, <2>10, <2>11 DEF Holds
<1> QED BY <1>6, <1>7

(* An object that comes to an input of d follows those before it.          *)
LEMMA ArriveStream ==
  ASSUME NEW r \in Ranks, NEW d \in Fed, NEW s, NEW bs \in [Modules -> 0..1], StateOK(s, r, bs),
         NEW i0 \in Inputs, ModuleOf[i0] = d, NEW n0 \in Nat,
         NEW b \in 0..1, NEW a \in [Inputs -> Nat], NEW a2 \in [Inputs -> Nat],
         NEW u \in Nat, NEW c \in Nat, NEW n \in Nat,
         Given(r, d, s.queue[d], s.count, b, a, u, c, n),
         i0 \in ComputeInputs[d] => n0 = a[i0] + 1,
         \A i \in ComputeInputs[d] : a2[i] = IF i = i0 THEN a[i] + 1 ELSE a[i]
  PROVE  Given(r, d, Arrives(s, i0, n0).queue[d], Arrives(s, i0, n0).count, b, a2, u, c, n)
<1>1. PICK x, w, t, z : x = AddObject(i0, n0) /\ w = s.queue[d] /\ t = Arrives(s, i0, n0) /\ z = Append(w, x)
  OBVIOUS
<1>2. x.type = "AddObject" /\ x.port = i0 /\ x.round = n0 /\ x \in QueueMsgs(d) /\ t.queue[d] = z
  <2>1. /\ AddObject(i0, n0) \in QueueMsgs(ModuleOf[i0])
        /\ Appended(Arrives(s, i0, n0).queue, s.queue, ModuleOf[i0], AddObject(i0, n0))
    BY ArrivesKeeps
  <2> QED BY <1>1, <2>1 DEF Appended, AddObject
<1>3. w \in Seq(QueueMsgs(d)) /\ d \in Modules /\ s.count \in [Inputs -> Nat]
  BY <1>1, FedFacts DEF StateOK, Queues
<1>4. \A i \in Inputs : t.count[i] = IF i = i0 THEN s.count[i] + 1 ELSE s.count[i]
  BY <1>1, ArrivesCount
<1>5. PICK y0, y : y0 = Phase(module[r][d].round, After(module[r][d]), u) /\ y = Phase(n, b, c)
  OBVIOUS
<1>6. Walk(z, y0, y, PhasesIn(QueueMsgs(d)))
  <2>1. Walk(w, y0, y, PhasesIn(QueueMsgs(d)))
    BY <1>1, <1>5 DEF Given
  <2>2. y \in Nat
    BY <1>3, <2>1, WalkNat
  <2>3. <<y, x, y>> \in PhasesIn(QueueMsgs(d))
    <3>1. Phases(y, x, y)
      BY <1>2 DEF Phases
    <3> QED BY <1>2, <2>2, <3>1, PhasesIff
  <2> QED BY <1>1, <1>2, <1>3, <2>1, <2>2, <2>3, WalkAppend
<1>7. ASSUME NEW i \in ComputeInputs[d]
      PROVE  t.count[i] + c = a2[i] /\ Walk(z, u + Len(objects[r][i]), a2[i], AddsIn(QueueMsgs(d), i))
  <2>1. /\ i \in Inputs /\ s.count[i] \in Nat /\ a[i] \in Nat /\ a2[i] \in Nat /\ s.count[i] + c = a[i]
        /\ Walk(w, u + Len(objects[r][i]), a[i], AddsIn(QueueMsgs(d), i))
    BY <1>1, <1>3, FedFacts DEF Given
  <2>2. PICK k, l, h : k = u + Len(objects[r][i]) /\ l = a[i] /\ h = a2[i]
    OBVIOUS
  <2>3. l \in Nat /\ h \in Nat /\ h = IF i = i0 THEN l + 1 ELSE l
    BY <2>1, <2>2
  <2>4. t.count[i] + c = h
    <3>1. PICK v \in Nat : v = s.count[i]
      BY <2>1
    <3>2. v + c = l /\ t.count[i] = IF i = i0 THEN v + 1 ELSE v
      BY <1>4, <2>1, <2>2, <3>1
    <3> QED BY <2>3, <3>2
  <2>5. Adds(l, x, h, i)
    <3>1. CASE i = i0
      BY <1>2, <2>2, <2>3, <3>1 DEF Adds
    <3>2. CASE i # i0
      BY <1>2, <2>3, <3>2 DEF Adds
    <3> QED BY <3>1, <3>2
  <2>6. <<l, x, h>> \in AddsIn(QueueMsgs(d), i)
    BY <1>2, <2>3, <2>5, AddsIff
  <2>7. Walk(w, k, l, AddsIn(QueueMsgs(d), i))
    BY <2>1, <2>2
  <2>8. Walk(z, k, h, AddsIn(QueueMsgs(d), i))
    <3>1. x \in QueueMsgs(d) /\ z = Append(w, x) /\ h \in Nat
      BY <1>1, <1>2, <2>3
    <3> QED BY ONLY <1>3, <2>6, <2>7, <3>1, WalkAppend
  <2> QED BY <2>2, <2>4, <2>8
<1>8. Progressed(n, b, c)
  BY DEF Given
<1> QED BY <1>1, <1>2, <1>5, <1>6, <1>7, <1>8 DEF Given

(* addObjectDestination for one input.                                     *)
LEMMA DeliverStream ==
  ASSUME Steering, ManagersOK, NEW r \in Ranks, NEW d \in Fed, NEW s, NEW bs, StateOK(s, r, bs),
         bs = [m \in Modules |-> One(mod[r][m].prepared)],
         NEW i0 \in Inputs, NEW n0 \in Nat, NEW a \in [Inputs -> Nat], NEW a2 \in [Inputs -> Nat],
         NEW u \in Nat, NEW n \in Nat, NEW b, b = One(mod[r][d].prepared), Holds(r, d, s, b, a, u, n),
         i0 \in ComputeInputs[d] => n0 = a[i0] + 1,
         \A i \in ComputeInputs[d] : a2[i] = IF i = i0 THEN a[i] + 1 ELSE a[i],
         b = 1 => \E i \in ComputeInputs[d] : a2[i] <= n
  PROVE  Holds(r, d, Deliver(r, n0, i0, s), b, a2, u, n)
<1>1. PICK m, t : m = ModuleOf[i0] /\ t = Arrives(s, i0, n0)
  OBVIOUS
<1>2. d \in Modules /\ b \in 0..1 /\ bs \in [Modules -> 0..1]
  BY FedFacts DEF One
<1>3. StateOK(t, r, bs) /\ m \in Modules /\ Appended(t.queue, s.queue, m, AddObject(i0, n0))
  BY <1>1, <1>2, ArrivesKeeps
<1>4. PICK c \in Nat : Given(r, d, s.queue[d], s.count, b, a, u, c, n) /\ Waits(d, s.count, c, n)
  BY DEF Holds
<1>5. PICK v : v = CheckExecuteObject(r, m, IsReadyForExecute(r, m), t)
  OBVIOUS
<1>6. Deliver(r, n0, i0, s) = v
  BY <1>1, <1>5 DEF Deliver, Arrives
<1>7. CASE m = d
  <2>1. Given(r, d, t.queue[d], t.count, b, a2, u, c, n)
    BY <1>1, <1>2, <1>4, <1>7, ArriveStream
  <2>2. IsReadyForExecute(r, d) <=> b = 1
    BY <1>2 DEF IsReadyForExecute, ManagersOK, Steering, One
  <2>3. Holds(r, d, CheckExecuteObject(r, d, IsReadyForExecute(r, d), t), b, a2, u, n)
    <3>1. b = 1 => \E i \in ComputeInputs[d] : a2[i] <= n
      OBVIOUS
    <3> QED BY <1>2, <1>3, <2>1, <2>2, <3>1, CheckStream
  <2> QED BY <1>5, <1>6, <1>7, <2>3
<1>8. CASE m # d
  <2>1. \A i \in ComputeInputs[d] : i \in Inputs /\ i # i0
    BY <1>1, <1>2, <1>8, FedFacts
  <2>2. t.queue[d] = s.queue[d] /\ \A i \in ComputeInputs[d] : t.count[i] = s.count[i] /\ a2[i] = a[i]
    <3>1. \A i \in Inputs : t.count[i] = IF i = i0 THEN s.count[i] + 1 ELSE s.count[i]
      BY <1>1, ArrivesCount
    <3> QED BY <1>2, <1>3, <1>8, <2>1, <3>1 DEF Appended
  <2>3. v.queue[d] = t.queue[d] /\ \A i \in ComputeInputs[d] : v.count[i] = t.count[i]
    <3>1. SameFor(v, t, d)
      BY <1>3, <1>5, <1>8, CheckOthers
    <3> QED BY <3>1 DEF SameFor
  <2>4. v.queue[d] = s.queue[d] /\ \A i \in ComputeInputs[d] : v.count[i] = s.count[i] /\ a2[i] = a[i]
    BY <2>2, <2>3
  <2>5. Given(r, d, v.queue[d], v.count, b, a2, u, c, n) /\ Waits(d, v.count, c, n)
    BY <1>4, <2>4 DEF Given, Waits
  <2> QED BY <1>6, <2>5 DEF Holds
<1> QED BY <1>7, <1>8

(* The inputs connected to an output are listed once each.                 *)
LEMMA InputsListed ==
  ASSUME NEW o \in Outputs
  PROVE  /\ InputsAt[o] \in Seq(Inputs)
         /\ \A i \in Inputs : <<o, i>> \in Connections <=> \E k \in 1..Len(InputsAt[o]) : InputsAt[o][k] = i
         /\ \A j, k \in 1..Len(InputsAt[o]) : InputsAt[o][j] = InputsAt[o][k] => j = k
<1>1. PICK S : S = {i \in Inputs : <<o, i>> \in Connections}
  OBVIOUS
<1>2. IsFiniteSet(S) /\ S \subseteq Inputs
  <2>1. IsFiniteSet(Inputs)
    BY ExecutionAssumption, FS_Subset DEF Ports
  <2> QED BY <1>1, <2>1, FS_Subset
<1>3. PICK q : q = SetToSeq(S) /\ q = InputsAt[o]
  BY <1>1 DEF InputsAt
<1>4. /\ q \in Seq(S) /\ \A x \in S : \E k \in 1..Len(q) : q[k] = x
      /\ \A j, k \in 1..Len(q) : q[j] = q[k] => j = k
  <2>1. LET w == SetToSeq(S)
        IN  /\ w \in Seq(S) /\ \A x \in S : \E k \in 1..Len(w) : w[k] = x
            /\ \A j, k \in 1..Len(w) : w[j] = w[k] => j = k
    BY <1>2, Listed
  <2> QED BY <1>3, <2>1
<1>5. q \in Seq(Inputs)
  BY <1>2, <1>4, SeqMonotonic
<1>6. \A k \in 1..Len(q) : q[k] \in S
  BY <1>4
<1>7. \A i \in Inputs : <<o, i>> \in Connections <=> \E k \in 1..Len(q) : q[k] = i
  BY <1>1, <1>4, <1>6
<1> QED BY <1>3, <1>4, <1>5, <1>7

(* addObjectDestination for all inputs that are connected to an output.    *)
LEMMA DeliverAllStream ==
  ASSUME Steering, ManagersOK, NEW r \in Ranks, NEW d \in Fed, NEW bs, StateOK(Local(r), r, bs),
         bs = [m \in Modules |-> One(mod[r][m].prepared)],
         NEW o \in Outputs, NEW n0 \in Nat, NEW a \in [Inputs -> Nat], NEW a2 \in [Inputs -> Nat],
         NEW u \in Nat, NEW n \in Nat, NEW b, b = One(mod[r][d].prepared), Holds(r, d, Local(r), b, a, u, n),
         \A i \in ComputeInputs[d] : <<o, i>> \in Connections => n0 = a[i] + 1,
         \A i \in ComputeInputs[d] : a2[i] = IF <<o, i>> \in Connections THEN a[i] + 1 ELSE a[i],
         b = 1 => \E i \in ComputeInputs[d] : a2[i] <= n
  PROVE  Holds(r, d, DeliverAll(r, n0, InputsAt[o], Len(InputsAt[o])), b, a2, u, n)
<1>1. PICK ins, k : ins = InputsAt[o] /\ k = Len(ins)
  OBVIOUS
<1>2. /\ ins \in Seq(Inputs) /\ k \in Nat
      /\ \A i \in Inputs : <<o, i>> \in Connections <=> \E j \in 1..k : ins[j] = i
      /\ \A j, l \in 1..k : ins[j] = ins[l] => j = l
      /\ \A j \in 1..k : ins[j] \in Inputs
  BY <1>1, InputsListed
<1>3. PICK V : V = States(r, bs)
  OBVIOUS
<1>4. Local(r) \in V /\ \A i \in Inputs : \A s \in V : Deliver(r, n0, i, s) \in V
  <2>1. ASSUME NEW i \in Inputs, NEW s \in V PROVE Deliver(r, n0, i, s) \in V
    <3>1. StateOK(s, r, bs)
      BY <1>3, <2>1, StatesIff
    <3>2. StateOK(Deliver(r, n0, i, s), r, bs)
      BY <3>1, DeliverKeeps
    <3> QED BY <1>3, <3>2, StatesIff
  <2>2. Local(r) \in V
    BY <1>3, StatesIff
  <2> QED BY <2>1, <2>2
<1>5. PICK f \in [0..k -> V] : /\ f[0] = Local(r) /\ f[k] = DeliverAll(r, n0, ins, k)
                               /\ \A j \in 1..k : f[j] = Deliver(r, n0, ins[j], f[j - 1])
  <2>1. ins \in Seq(Inputs) /\ Local(r) \in V
    BY <1>2, <1>4
  <2>2. \A i \in Inputs : \A s \in V : Deliver(r, n0, i, s) \in V
    BY <1>4
  <2>3. DeliveredIn(r, n0, ins, V)
    BY ONLY <2>1, <2>2, DeliverAllSteps
  <2> QED BY <1>1, <2>3 DEF DeliveredIn
<1>6. d \in Modules /\ \A i \in ComputeInputs[d] : i \in Inputs /\ a[i] \in Nat /\ a2[i] \in Nat
  BY FedFacts
<1> DEFINE At(j) == [i \in Inputs |-> IF \E l \in 1..j : ins[l] = i THEN a[i] + 1 ELSE a[i]]
           K == {j \in 0..k : Holds(r, d, f[j], b, At(j), u, n)}
<1>7. \A j \in 0..k : At(j) \in [Inputs -> Nat]
  OBVIOUS
<1>8. 0 \in K
  <2>1. At(0) = a
    <3>1. 1..0 = {}
      OBVIOUS
    <3> QED BY <3>1
  <2> HIDE DEF At
  <2> QED BY <1>2, <1>5, <2>1
<1>9. ASSUME NEW j \in 0..k, j < k, j \in K PROVE j + 1 \in K
  <2>1. j + 1 \in 1..k /\ j + 1 \in 0..k /\ (j + 1) - 1 = j /\ j \in Nat
    BY <1>2, <1>9
  <2>2. PICK i0 \in Inputs : i0 = ins[j + 1]
    BY <1>2, <2>1
  <2>3. PICK g, h : i0 = ins[j + 1] /\ g = At(j) /\ h = At(j + 1)
    BY <2>2
  <2>4. g \in [Inputs -> Nat] /\ h \in [Inputs -> Nat]
    <3> HIDE DEF At
    <3> QED BY <1>7, <2>1, <2>3
  <2>5. \A i \in Inputs : g[i] = IF \E l \in 1..j : ins[l] = i THEN a[i] + 1 ELSE a[i]
    BY <2>3
  <2>6. \A i \in Inputs : h[i] = IF \E l \in 1..(j + 1) : ins[l] = i THEN a[i] + 1 ELSE a[i]
    BY <2>3
  <2>7. \A l \in 1..j : l \in 1..k /\ l # j + 1
    BY <1>2, <2>1
  <2>8. g[i0] = a[i0]
    <3>1. \A l \in 1..j : ins[l] # i0
      BY <1>2, <2>1, <2>3, <2>7
    <3> QED BY <2>5, <3>1
  <2>9. \A i \in Inputs : h[i] = IF i = i0 THEN g[i] + 1 ELSE g[i]
    <3>1. ASSUME NEW i \in Inputs PROVE h[i] = IF i = i0 THEN g[i] + 1 ELSE g[i]
      <4>1. CASE i = i0
        <5>1. j + 1 \in 1..(j + 1) /\ ins[j + 1] = i
          BY <2>1, <2>3, <4>1
        <5>2. h[i] = a[i] + 1
          BY <2>6, <5>1
        <5> QED BY <2>8, <4>1, <5>2
      <4>2. CASE i # i0
        <5>1. (\E l \in 1..(j + 1) : ins[l] = i) <=> (\E l \in 1..j : ins[l] = i)
          <6>1. \A l \in 1..(j + 1) : l \in 1..j \/ l = j + 1
            BY <2>1
          <6>2. \A l \in 1..j : l \in 1..(j + 1)
            BY <2>1
          <6> QED BY <2>3, <4>2, <6>1, <6>2
        <5> QED BY <2>5, <2>6, <4>2, <5>1
      <4> QED BY <4>1, <4>2
    <3> QED BY <3>1
  <2>10. i0 \in ComputeInputs[d] => n0 = g[i0] + 1
    BY <1>2, <2>1, <2>3, <2>8
  <2>11. b = 1 => \E i \in ComputeInputs[d] : h[i] <= n
    <3>1. ASSUME NEW i \in ComputeInputs[d], a2[i] <= n PROVE h[i] <= n
      <4>1. i \in Inputs /\ a[i] \in Nat
        BY <1>6
      <4>2. h[i] = a2[i] \/ (h[i] = a[i] /\ a2[i] = a[i] + 1)
        <5>1. \A l \in 1..(j + 1) : l \in 1..k
          BY <1>2, <2>1
        <5>2. (\E l \in 1..(j + 1) : ins[l] = i) => <<o, i>> \in Connections
          BY <1>2, <4>1, <5>1
        <5> QED BY <2>6, <4>1, <5>2
      <4> QED BY <3>1, <4>1, <4>2
    <3> QED BY <3>1
  <2>12. Holds(r, d, f[j], b, g, u, n)
    <3> HIDE DEF At
    <3> QED BY <1>9, <2>3
  <2>13. PICK s : s = f[j]
    OBVIOUS
  <2>14. StateOK(s, r, bs)
    BY <1>3, <1>5, <1>9, <2>13, StatesIff
  <2>15. Holds(r, d, Deliver(r, n0, i0, s), b, h, u, n)
    <3> HIDE DEF At, K
    <3>1. \A i \in ComputeInputs[d] : h[i] = IF i = i0 THEN g[i] + 1 ELSE g[i]
      BY <1>6, <2>9
    <3>2. Holds(r, d, s, b, g, u, n)
      BY <2>12, <2>13
    <3> QED BY <2>4, <2>10, <2>11, <2>14, <3>1, <3>2, DeliverStream
  <2>16. f[j + 1] = Deliver(r, n0, i0, s)
    BY <1>5, <2>1, <2>3, <2>13
  <2> HIDE DEF At
  <2> QED BY <2>1, <2>3, <2>15, <2>16
<1>10. k \in K
  <2> HIDE DEF K
  <2>1. \A j \in 0..k : j \in K
    BY <1>2, <1>8, <1>9, UpTo
  <2> QED BY <1>2, <2>1
<1>11. PICK g : g = At(k)
  OBVIOUS
<1>12. \A i \in ComputeInputs[d] : g[i] = a2[i]
  BY <1>2, <1>6, <1>11
<1>13. Holds(r, d, f[k], b, g, u, n)
  <2> HIDE DEF At
  <2> QED BY <1>10, <1>11
<1>14. Holds(r, d, f[k], b, a2, u, n)
  BY <1>12, <1>13 DEF Holds, Given
<1> QED BY <1>1, <1>5, <1>14

(* What is known of d on a rank stays while nothing of it changes.         *)
LEMMA StreamsStay ==
  ASSUME NEW r \in Ranks, NEW d \in Fed, NEW a, NEW u, NEW c, NEW n, Streams(r, d, a, u, c, n),
         queue'[r][d] = queue[r][d], module'[r][d] = module[r][d],
         One(mod'[r][d].prepared) = One(mod[r][d].prepared),
         \A i \in ComputeInputs[d] :
           /\ numObject'[r][i] = numObject[r][i] /\ objects'[r][i] = objects[r][i]
           /\ out'[r][Feeder(i)] = out[r][Feeder(i)] /\ module'[r][Feeder(i)] = module[r][Feeder(i)]
  PROVE  Streams(r, d, a, u, c, n)'
<1>1. a \in [Inputs -> Nat] /\ u \in Nat /\ c \in Nat /\ n \in Nat
  BY DEF Streams
<1>2. Given(r, d, queue[r][d], numObject[r], One(mod[r][d].prepared), a, u, c, n)'
  BY DEF Streams, Given
<1>3. Waits(d, numObject[r], c, n)'
  BY DEF Streams, Waits
<1>4. Taken(r, d, u)'
  BY DEF Streams, Taken
<1>5. Comes(r, d, a)'
  BY DEF Streams, Comes
<1> QED BY <1>1, <1>2, <1>3, <1>4, <1>5 DEF Streams

(* A manager changes the counts and the queues of its own rank.            *)
Committed(r, s) ==
  /\ numObject'[r] = s.count /\ queue'[r] = s.queue
  /\ \A q \in Ranks : q # r => numObject'[q] = numObject[q] /\ queue'[q] = queue[q]

(* That is what a manager does when it has handled a message.              *)
LEMMA CommittedIs ==
  ASSUME ManagersOK, ChannelsOK, NEW r \in Ranks, NEW d, NEW s, NEW b, StateOK(s, r, b), Commit(r, d, s)
  PROVE  Committed(r, s)
<1>1. numObject \in [Ranks -> [Inputs -> Nat]] /\ queue \in [Ranks -> QueueFuns]
  BY DEF ManagersOK, ChannelsOK
<1>2. numObject' = [numObject EXCEPT ![r] = s.count] /\ queue' = [queue EXCEPT ![r] = s.queue]
  BY DEF Commit
<1> QED BY <1>1, <1>2 DEF Committed

(* What a module feeds on another rank is not changed by a manager.        *)
LEMMA OtherRank ==
  ASSUME Steering, NEW r \in Ranks, NEW q \in Ranks, q # r, NEW d \in Fed,
         NEW a, NEW u, NEW c, NEW n, Streams(q, d, a, u, c, n), NEW s, Committed(r, s),
         mod'[q][d] = mod[q][d], module' = module, objects' = objects,
         \A m \in Modules : out'[q][m] = out[q][m]
  PROVE  Streams(q, d, a, u, c, n)'
<1>1. numObject'[q] = numObject[q] /\ queue'[q] = queue[q]
  BY DEF Committed
<1>2. \A i \in ComputeInputs[d] : Feeder(i) \in Modules
  BY FeederFacts
<1>3. \A i \in ComputeInputs[d] :
        /\ numObject'[q][i] = numObject[q][i] /\ objects'[q][i] = objects[q][i]
        /\ out'[q][Feeder(i)] = out[q][Feeder(i)] /\ module'[q][Feeder(i)] = module[q][Feeder(i)]
  BY <1>1, <1>2
<1>4. queue'[q][d] = queue[q][d] /\ module'[q][d] = module[q][d] /\ One(mod'[q][d].prepared) = One(mod[q][d].prepared)
  BY <1>1
<1> QED BY <1>3, <1>4, StreamsStay

(* What has been passed on to the inputs of d when message x of m has been *)
(* taken.                                                                  *)
TakenFrom(r, d, m, x, a) ==
  \E a2 \in [Inputs -> Nat] : \A i \in ComputeInputs[d] :
    /\ Feeder(i) = m => Makes(a[i], x, a2[i], i)
    /\ Feeder(i) # m => a2[i] = a[i]
    /\ Walk(out'[r][Feeder(i)], a2[i], Made(module[r][Feeder(i)]), MakesIn(OutMsgs(Feeder(i)), i))
    /\ a2[i] <= Made(module[r][Feeder(i)])

(* What is still to come when a manager has taken an object.               *)
LEMMA ComesTail ==
  ASSUME Steering, ChannelsOK, NEW r \in Ranks, NEW m \in Modules, out[r][m] # <<>>, Takes(r, m),
         NEW d \in Fed, NEW a \in [Inputs -> Nat], Comes(r, d, a), NEW x, x = Head(out[r][m])
  PROVE  TakenFrom(r, d, m, x, a)
<1>1. /\ \A i \in ComputeInputs[d] : i \in Inputs /\ Feeder(i) \in Modules
  BY FedFacts, FeederFacts
<1>2. \A f \in Modules : out[r][f] \in Seq(OutMsgs(f))
  BY DEF ChannelsOK, OutFuns, Outs
<1>3. PICK y : y = Tail(out[r][m])
  OBVIOUS
<1>4. y \in Seq(OutMsgs(m))
  BY <1>2, <1>3, HeadTailProperties
<1>5. out'[r][m] = y /\ \A f \in Modules : f # m => out'[r][f] = out[r][f]
  <2>1. Becomes(r, m, y)
    BY <1>3 DEF Takes, Becomes
  <2> QED BY ONLY ChannelsOK, r \in Ranks, m \in Modules, <1>4, <2>1, OutIs
<1>6. ASSUME NEW i \in ComputeInputs[d]
      PROVE  \E z \in Nat :
               /\ Feeder(i) = m => Makes(a[i], x, z, i)
               /\ Feeder(i) # m => z = a[i]
               /\ Walk(out'[r][Feeder(i)], z, Made(module[r][Feeder(i)]), MakesIn(OutMsgs(Feeder(i)), i))
  <2>1. PICK f : f = Feeder(i)
    OBVIOUS
  <2>2. f \in Modules /\ a[i] \in Nat /\ Walk(out[r][f], a[i], Made(module[r][f]), MakesIn(OutMsgs(f), i))
    BY <1>1, <2>1 DEF Comes
  <2>3. CASE f = m
    <3>1. PICK q, b, k : q = out[r][m] /\ b = a[i] /\ k = Made(module[r][m])
      OBVIOUS
    <3>2. q \in Seq(OutMsgs(m)) /\ q # <<>> /\ Walk(q, b, k, MakesIn(OutMsgs(m), i))
      BY <1>2, <2>2, <2>3, <3>1
    <3>3. PICK z \in Nat : <<b, Head(q), z>> \in MakesIn(OutMsgs(m), i) /\ Walk(Tail(q), z, k, MakesIn(OutMsgs(m), i))
      BY ONLY <3>2, WalkHead
    <3>4. Makes(b, x, z, i)
      BY <3>1, <3>3, MakesIff
    <3>5. Walk(out'[r][m], z, k, MakesIn(OutMsgs(m), i))
      BY <1>3, <1>5, <3>1, <3>3
    <3> QED BY <2>1, <2>3, <3>1, <3>4, <3>5
  <2>4. CASE f # m
    BY <1>5, <2>1, <2>2, <2>4
  <2> QED BY <2>3, <2>4
<1>7. PICK a2 : a2 = [i \in Inputs |-> IF i \in ComputeInputs[d] THEN
                  CHOOSE z \in Nat :
                    /\ Feeder(i) = m => Makes(a[i], x, z, i)
                    /\ Feeder(i) # m => z = a[i]
                    /\ Walk(out'[r][Feeder(i)], z, Made(module[r][Feeder(i)]), MakesIn(OutMsgs(Feeder(i)), i))
                  ELSE 0]
  OBVIOUS
<1>8. ASSUME NEW i \in ComputeInputs[d]
      PROVE  /\ a2[i] \in Nat /\ (Feeder(i) = m => Makes(a[i], x, a2[i], i))
             /\ Feeder(i) # m => a2[i] = a[i]
             /\ Walk(out'[r][Feeder(i)], a2[i], Made(module[r][Feeder(i)]), MakesIn(OutMsgs(Feeder(i)), i))
  BY <1>1, <1>6, <1>7
<1>9. a2 \in [Inputs -> Nat]
  BY <1>7, <1>8
<1>10. ASSUME NEW i \in ComputeInputs[d] PROVE a2[i] <= Made(module[r][Feeder(i)])
  <2>1. PICK f, q, b, k : f = Feeder(i) /\ q = out'[r][f] /\ b = a2[i] /\ k = Made(module[r][f])
    OBVIOUS
  <2>2. q \in Seq(OutMsgs(f))
    BY <1>1, <1>2, <1>4, <1>5, <2>1
  <2>3. Walk(q, b, k, MakesIn(OutMsgs(f), i))
    BY <1>8, <2>1
  <2>4. \A j, l \in Nat : \A v : <<j, v, l>> \in MakesIn(OutMsgs(f), i) => j <= l
    BY StreamsGrow
  <2>5. b <= k
    BY ONLY <2>2, <2>3, <2>4, WalkUp
  <2> QED BY <2>1, <2>5
<1> QED BY <1>8, <1>9, <1>10 DEF TakenFrom

(* A manager delivers an object.                                           *)
LEMMA AddObjectStreams ==
  ASSUME Steering, IInv, CountsOK, StreamsOK, NEW r \in Ranks, NEW m \in Modules, HandleAddObject(r, m)
  PROVE  StreamsOK'
<1>1. ManagersOK /\ ProcessesOK /\ ChannelsOK /\ LocalOK
  BY DEF IInv
<1>2. PICK x, o, k : x = Head(out[r][m]) /\ o = x.port /\ k = x.round
  OBVIOUS
<1>3. PICK s : s = DeliverAll(r, k, InputsAt[o], Len(InputsAt[o]))
  OBVIOUS
<1>4. /\ out[r][m] # <<>> /\ x.type = "Object" /\ Takes(r, m) /\ Commit(r, down, s)
      /\ mod' = mod /\ module' = module /\ objects' = objects
  BY <1>2, <1>3 DEF HandleAddObject, Takes, process
<1>5. x \in OutMsgs(m) /\ o \in Outputs /\ k \in Nat /\ ModuleOf[o] = m
  <2>1. x \in OutMsgs(m)
    BY <1>1, <1>2, <1>4, HeadTailProperties DEF ChannelsOK, OutFuns, Outs
  <2> QED BY <1>2, <1>4, <2>1 DEF OutMsgs, ObjectMsgs, Reports
<1>6. PICK bs : bs = Prepared(r)
  OBVIOUS
<1>7. StateOK(Local(r), r, bs) /\ bs = [n \in Modules |-> One(mod[r][n].prepared)] /\ bs \in [Modules -> 0..1]
  BY <1>1, <1>6, FlowState DEF Prepared
<1>8. StateOK(s, r, bs)
  <2>1. InputsAt[o] \in Seq(Inputs)
    BY <1>5, InputsFacts
  <2> QED BY ONLY Steering, r \in Ranks, <1>3, <1>5, <1>7, <2>1, DeliverAllKeeps
<1>9. Committed(r, s)
  BY <1>1, <1>4, <1>8, CommittedIs
<1>10. \A q \in Ranks : q # r => \A n \in Modules : out'[q][n] = out[q][n]
  <2>1. out \in [Ranks -> OutFuns] /\ out' = [out EXCEPT ![r][m] = Tail(@)]
    BY <1>1, <1>4 DEF ChannelsOK, Takes
  <2> QED BY <2>1
<1>11. ASSUME NEW q \in Ranks, NEW d \in Fed, NEW a, NEW u, NEW c, NEW n, Streams(q, d, a, u, c, n), q # r
       PROVE  Streams(q, d, a, u, c, n)'
  <2>1. mod'[q][d] = mod[q][d] /\ \A e \in Modules : out'[q][e] = out[q][e]
    BY <1>4, <1>10, <1>11
  <2> QED BY <1>4, <1>9, <1>11, <2>1, OtherRank
<1>12. ASSUME NEW d \in Fed, NEW a, NEW u, NEW c, NEW n, Streams(r, d, a, u, c, n)
       PROVE  \E a2, c2 : Streams(r, d, a2, u, c2, n)'
  <2>1. /\ a \in [Inputs -> Nat] /\ u \in Nat /\ c \in Nat /\ n \in Nat /\ Comes(r, d, a) /\ Taken(r, d, u)
        /\ Given(r, d, queue[r][d], numObject[r], One(mod[r][d].prepared), a, u, c, n)
        /\ Waits(d, numObject[r], c, n)
    BY <1>12 DEF Streams
  <2>2. PICK b : b = One(mod[r][d].prepared)
    OBVIOUS
  <2>3. \A i \in ComputeInputs[d] : i \in Inputs /\ Feeder(i) \in Modules
    BY FedFacts, FeederFacts
  <2>4. PICK a2 \in [Inputs -> Nat] : \A i \in ComputeInputs[d] :
           /\ Feeder(i) = m => Makes(a[i], x, a2[i], i)
           /\ Feeder(i) # m => a2[i] = a[i]
           /\ Walk(out'[r][Feeder(i)], a2[i], Made(module[r][Feeder(i)]), MakesIn(OutMsgs(Feeder(i)), i))
           /\ a2[i] <= Made(module[r][Feeder(i)])
    <3>1. TakenFrom(r, d, m, x, a)
      BY ONLY Steering, <1>1, <1>2, <1>4, <2>1, r \in Ranks, m \in Modules, d \in Fed, ComesTail
    <3> QED BY <3>1 DEF TakenFrom
  <2>5. ASSUME NEW i \in ComputeInputs[d]
        PROVE  /\ <<o, i>> \in Connections => k = a[i] + 1
               /\ a2[i] = IF <<o, i>> \in Connections THEN a[i] + 1 ELSE a[i]
    <3>1. CASE <<o, i>> \in Connections
      <4>1. Feeder(i) = m
        <5>1. PICK e \in Connections : e = <<o, i>>
          BY <3>1
        <5>2. e[1] = o /\ e[2] = i /\ d \in Modules
          BY <5>1, FedFacts
        <5>3. Feeder(e[2]) = ModuleOf[e[1]]
          BY <5>2, FeederIs
        <5> QED BY <1>5, <5>2, <5>3
      <4>2. Makes(a[i], x, a2[i], i)
        BY <2>4, <4>1
      <4> QED BY <1>2, <1>4, <3>1, <4>2 DEF Makes
    <3>2. CASE <<o, i>> \notin Connections
      <4>1. Feeder(i) = m => a2[i] = a[i]
        <5>1. Feeder(i) = m => Makes(a[i], x, a2[i], i)
          BY <2>4
        <5> QED BY <1>2, <3>2, <5>1 DEF Makes
      <4>2. a2[i] = a[i]
        BY <2>4, <4>1
      <4> QED BY <3>2, <4>2
    <3> QED BY <3>1, <3>2
  <2>6. b = 1 => \E i \in ComputeInputs[d] : a2[i] <= n
    <3>1. PICK i \in ComputeInputs[d] : Made(module[r][Feeder(i)]) <= n + 1 - One(mod[r][d].prepared)
      BY <1>12, Ahead
    <3>2. SUFFICES ASSUME b = 1 PROVE a2[i] <= n
      OBVIOUS
    <3>3. PICK y : y = Made(module[r][Feeder(i)])
      OBVIOUS
    <3>4. y \in Int
      BY <1>1, <2>3, <3>3, MadeBound
    <3>5. PICK v \in Nat : v = a2[i] /\ v <= y /\ y <= n + 1 - 1
      BY <2>2, <2>3, <2>4, <3>1, <3>2, <3>3
    <3>6. v <= n
      BY ONLY <2>1, <3>4, <3>5, v \in Nat
    <3> QED BY <3>5, <3>6
  <2>7. Holds(r, d, Local(r), b, a, u, n)
    <3>1. Local(r).queue = queue[r] /\ Local(r).count = numObject[r]
      BY DEF Local
    <3>2. PICK v : v = Local(r)
      OBVIOUS
    <3>3. Given(r, d, v.queue[d], v.count, b, a, u, c, n) /\ Waits(d, v.count, c, n)
      BY <2>1, <2>2, <3>1, <3>2
    <3>4. Holds(r, d, v, b, a, u, n)
      BY <2>1, <3>3 DEF Holds
    <3> QED BY <3>2, <3>4
  <2>8. Holds(r, d, s, b, a2, u, n)
    <3>1. \A i \in ComputeInputs[d] : <<o, i>> \in Connections => k = a[i] + 1
      BY <2>5
    <3>2. \A i \in ComputeInputs[d] : a2[i] = IF <<o, i>> \in Connections THEN a[i] + 1 ELSE a[i]
      BY <2>5
    <3>3. Holds(r, d, DeliverAll(r, k, InputsAt[o], Len(InputsAt[o])), b, a2, u, n)
      BY <1>1, <1>5, <1>7, <2>1, <2>2, <2>6, <2>7, <3>1, <3>2, DeliverAllStream
    <3> QED BY <1>3, <3>3
  <2>9. PICK c2 \in Nat : Given(r, d, s.queue[d], s.count, b, a2, u, c2, n) /\ Waits(d, s.count, c2, n)
    BY <2>8 DEF Holds
  <2>10. queue'[r][d] = s.queue[d] /\ numObject'[r] = s.count /\ One(mod'[r][d].prepared) = b
    BY <1>4, <1>9, <2>2 DEF Committed
  <2>11. Given(r, d, queue[r][d], numObject[r], One(mod[r][d].prepared), a2, u, c2, n)'
    BY <1>4, <2>9, <2>10 DEF Given
  <2>12. Waits(d, numObject[r], c2, n)'
    BY <2>9, <2>10 DEF Waits
  <2>13. Taken(r, d, u)'
    BY <1>4, <2>1 DEF Taken
  <2>14. Comes(r, d, a2)'
    BY <1>4, <2>4 DEF Comes
  <2>15. Streams(r, d, a2, u, c2, n)'
    BY <2>1, <2>11, <2>12, <2>13, <2>14 DEF Streams
  <2> QED BY <2>15
<1>13. ASSUME NEW q \in Ranks, NEW d \in Fed PROVE \E a, u, c, n : Streams(q, d, a, u, c, n)'
  <2>1. PICK a, u, c, n : Streams(q, d, a, u, c, n)
    BY DEF StreamsOK
  <2>2. CASE q = r
    BY <1>12, <2>1, <2>2
  <2>3. CASE q # r
    BY <1>11, <2>1, <2>3
  <2> QED BY <2>2, <2>3
<1>14. \A q \in Ranks, e \in Modules \ Fed : SourceReady(q, e)'
  BY <1>4 DEF StreamsOK, SourceReady
<1> QED BY <1>13, <1>14 DEF StreamsOK

(* What is sent to a module is appended to its queue.                      *)
LEMMA SentTo ==
  ASSUME ManagersOK, ChannelsOK, NEW r \in Ranks, NEW m \in Modules, NEW x \in QueueMsgs(m), x.module = m,
         NEW s, s = Send(Local(r), x)
  PROVE  /\ s.count = numObject[r] /\ Appended(s.queue, queue[r], m, x)
         /\ \A e \in Modules : s.queue[e] \in Seq(QueueMsgs(e)) /\ queue[r][e] \in Seq(QueueMsgs(e))
<1>1. PICK w, c, y : w = queue[r] /\ c = numObject[r] /\ y = Append(w[m], x)
  OBVIOUS
<1>2. Queues(w) /\ w[m] \in Seq(QueueMsgs(m)) /\ \A e \in Modules : w[e] \in Seq(QueueMsgs(e))
  BY <1>1 DEF ChannelsOK, QueueFuns, Queues
<1>3. PICK q : q = [w EXCEPT ![m] = y]
  OBVIOUS
<1>4. Local(r) = [count |-> c, queue |-> w, cast |-> <<>>]
  BY ONLY <1>1 DEF Local
<1>5. s = [Local(r) EXCEPT !.queue = q]
  <2>1. Local(r).queue = w
    BY ONLY <1>4
  <2> QED BY <1>1, <1>3, <2>1 DEF Send
<1>6. s.count = c /\ s.queue = q
  BY ONLY <1>4, <1>5
<1>7. y \in Seq(QueueMsgs(m))
  BY <1>1, <1>2, AppendProperties
<1>8. Queues(Put(w, m, y)) /\ Put(w, m, y)[m] = y /\ \A e \in Modules : e # m => Put(w, m, y)[e] = w[e]
  BY ONLY <1>2, <1>7, m \in Modules, QueuesUpdate
<1>9. q = Put(w, m, y)
  BY ONLY <1>3 DEF Put
<1>10. Queues(q) /\ q[m] = y /\ \A e \in Modules : e # m => q[e] = w[e]
  BY ONLY <1>8, <1>9
<1>11. \A e \in Modules : q[e] \in Seq(QueueMsgs(e))
  BY <1>10 DEF Queues
<1>12. Appended(q, w, m, x)
  BY ONLY <1>1, <1>10, <1>11, <1>7 DEF Appended
<1> QED BY <1>1, <1>2, <1>6, <1>11, <1>12

(* What is given to a module when it is told to prepare or to reduce.      *)
LEMMA GivenOrder ==
  ASSUME NEW r \in Ranks, NEW d \in Fed, NEW w \in Seq(QueueMsgs(d)), NEW count,
         NEW a \in [Inputs -> Nat], NEW u \in Nat, NEW b, NEW c, NEW n, NEW b2, NEW n2,
         Given(r, d, w, count, b, a, u, c, n), NEW x \in QueueMsgs(d), x.type # "AddObject",
         Phase(n2, b2, c) \in Nat, Phases(Phase(n, b, c), x, Phase(n2, b2, c)), Progressed(n2, b2, c)
  PROVE  Given(r, d, Append(w, x), count, b2, a, u, c, n2)
<1>1. PICK z : z = Append(w, x)
  OBVIOUS
<1>2. PICK y0, y, y2 : /\ y0 = Phase(module[r][d].round, After(module[r][d]), u)
                       /\ y = Phase(n, b, c) /\ y2 = Phase(n2, b2, c)
  OBVIOUS
<1>3. Walk(w, y0, y, PhasesIn(QueueMsgs(d))) /\ y2 \in Nat
  BY <1>2 DEF Given
<1>4. y \in Nat
  BY <1>3, WalkNat
<1>5. <<y, x, y2>> \in PhasesIn(QueueMsgs(d))
  BY <1>2, <1>3, <1>4, PhasesIff
<1>6. Walk(z, y0, y2, PhasesIn(QueueMsgs(d)))
  BY <1>1, <1>3, <1>5, WalkAppend
<1>7. ASSUME NEW i \in ComputeInputs[d]
      PROVE  count[i] + c = a[i] /\ Walk(z, u + Len(objects[r][i]), a[i], AddsIn(QueueMsgs(d), i))
  <2>1. i \in Inputs /\ a[i] \in Nat /\ count[i] + c = a[i]
    BY FedFacts DEF Given
  <2>2. PICK k, l : k = u + Len(objects[r][i]) /\ l = a[i]
    OBVIOUS
  <2>3. Walk(w, k, l, AddsIn(QueueMsgs(d), i)) /\ l \in Nat
    BY <2>1, <2>2 DEF Given
  <2>4. <<l, x, l>> \in AddsIn(QueueMsgs(d), i)
    <3>1. Adds(l, x, l, i)
      BY DEF Adds
    <3> QED BY <2>3, <3>1, AddsIff
  <2>5. Walk(z, k, l, AddsIn(QueueMsgs(d), i))
    BY <1>1, <2>3, <2>4, WalkAppend
  <2> QED BY <2>1, <2>2, <2>5
<1> QED BY <1>1, <1>2, <1>6, <1>7 DEF Given

(* No more has been passed on than has been made.                          *)
LEMMA PassedMade ==
  ASSUME Steering, ChannelsOK, NEW r \in Ranks, NEW d \in Fed, NEW a, Comes(r, d, a), NEW i \in ComputeInputs[d]
  PROVE  a[i] \in Nat /\ Made(module[r][Feeder(i)]) \in Nat /\ a[i] <= Made(module[r][Feeder(i)])
<1>1. PICK f, q, b, k : f = Feeder(i) /\ q = out[r][f] /\ b = a[i] /\ k = Made(module[r][f])
  OBVIOUS
<1>2. f \in Modules
  BY <1>1, FeederFacts
<1>3. q \in Seq(OutMsgs(f)) /\ Walk(q, b, k, MakesIn(OutMsgs(f), i))
  BY <1>1, <1>2 DEF ChannelsOK, OutFuns, Outs, Comes
<1>4. \A j, l \in Nat : \A v : <<j, v, l>> \in MakesIn(OutMsgs(f), i) => j <= l
  BY StreamsGrow
<1>5. b \in Nat /\ k \in Nat /\ b <= k
  BY ONLY <1>3, <1>4, WalkUp
<1> QED BY <1>1, <1>5

(* The manager prepares d.                                                 *)
LEMMA PrepareStream ==
  ASSUME Steering, IInv, CountsOK, NEW r \in Ranks, NEW d \in Fed,
         NEW a, NEW u, NEW c, NEW n, Streams(r, d, a, u, c, n), ~mod[r][d].prepared,
         NEW x \in QueueMsgs(d), x.type = "Prepare", x.module = d,
         NEW s, s = Send(Local(r), x), NEW bs, StateOK(s, r, bs), NEW k, k = n + 1
  PROVE  Holds(r, d, CheckExecuteObject(r, d, TRUE, s), 1, a, u, k)
<1>1. ManagersOK /\ ProcessesOK /\ ChannelsOK /\ d \in Modules
  BY FedFacts DEF IInv
<1>2. One(mod[r][d].prepared) = 0
  BY DEF One
<1>3. /\ a \in [Inputs -> Nat] /\ u \in Nat /\ c \in Nat /\ n \in Nat /\ Comes(r, d, a)
      /\ Given(r, d, queue[r][d], numObject[r], 0, a, u, c, n)
  BY <1>2 DEF Streams
<1>4. c = n
  <2>1. Progressed(n, 0, c)
    BY <1>3 DEF Given
  <2> QED BY <2>1 DEF Progressed
<1>5. PICK w : w = queue[r][d]
  OBVIOUS
<1>6. s.count = numObject[r] /\ s.queue[d] = Append(w, x) /\ w \in Seq(QueueMsgs(d))
  BY <1>1, <1>5, SentTo DEF Appended
<1>7. Phase(n, 0, c) = 3 * n /\ Phase(k, 1, c) = 3 * n + 1 /\ Phase(k, 1, c) \in Nat
  <2>1. Phase(n, 0, c) = 2 * n - 0 + n /\ Phase(k, 1, c) = 2 * (n + 1) - 1 + n
    BY <1>4 DEF Phase
  <2>2. 2 * n - 0 + n = 3 * n /\ 2 * (n + 1) - 1 + n = 3 * n + 1 /\ 3 * n + 1 \in Nat
    BY ONLY <1>3
  <2> QED BY <2>1, <2>2
<1>8. Phases(Phase(n, 0, c), x, Phase(k, 1, c))
  <2>1. PICK y, z : y = Phase(n, 0, c) /\ z = Phase(k, 1, c)
    OBVIOUS
  <2>2. y = 3 * n /\ z = y + 1
    BY <1>7, <2>1
  <2>3. Phases(y, x, z)
    BY <1>3, <2>2 DEF Phases
  <2> QED BY <2>1, <2>3
<1>9. Progressed(k, 1, c) /\ k \in Nat
  BY <1>3, <1>4 DEF Progressed
<1>10. Given(r, d, Append(w, x), numObject[r], 1, a, u, c, k)
  <2>1. PICK h : h = numObject[r]
    OBVIOUS
  <2>2. Given(r, d, w, h, 0, a, u, c, n) /\ x.type # "AddObject"
    BY <1>3, <1>5, <2>1
  <2>3. Given(r, d, Append(w, x), h, 1, a, u, c, k)
    BY <1>3, <1>6, <1>7, <1>8, <1>9, <2>2, GivenOrder
  <2> QED BY <2>1, <2>3
<1>11. Given(r, d, s.queue[d], s.count, 1, a, u, c, k)
  BY <1>6, <1>10
<1>12. \E i \in ComputeInputs[d] : a[i] <= k
  <2>1. PICK i \in ComputeInputs[d] : Made(module[r][Feeder(i)]) <= n + 1 - One(mod[r][d].prepared)
    BY Ahead
  <2>2. PICK y \in Nat, v \in Nat : y = Made(module[r][Feeder(i)]) /\ v = a[i] /\ v <= y
    BY <1>1, <1>3, PassedMade
  <2>3. y <= n + 1 - 0
    BY <1>2, <2>1, <2>2
  <2>4. v <= k
    BY <1>3, <2>2, <2>3
  <2> QED BY <2>2, <2>4
<1>13. PICK ready, b : ready = TRUE /\ b = 1 /\ b \in 0..1
  OBVIOUS
<1>14. (ready <=> b = 1) /\ Given(r, d, s.queue[d], s.count, b, a, u, c, k) /\ k \in Nat
       /\ (b = 1 => \E i \in ComputeInputs[d] : a[i] <= k)
  BY <1>9, <1>11, <1>12, <1>13
<1>15. Holds(r, d, CheckExecuteObject(r, d, ready, s), b, a, u, k)
  BY ONLY Steering, r \in Ranks, d \in Fed, StateOK(s, r, bs), <1>3, <1>13, <1>14, CheckStream
<1>16. CheckExecuteObject(r, d, ready, s) = CheckExecuteObject(r, d, TRUE, s)
  BY <1>13 DEF CheckExecuteObject
<1>17. PICK t : t = CheckExecuteObject(r, d, TRUE, s)
  OBVIOUS
<1>18. Holds(r, d, t, b, a, u, k)
  BY <1>15, <1>16, <1>17
<1> QED BY <1>13, <1>17, <1>18

(* The manager reduces d.                                                  *)
LEMMA ReduceStream ==
  ASSUME Steering, IInv, CountsOK, NEW r \in Ranks, NEW d \in Fed,
         NEW a, NEW u, NEW c, NEW n, Streams(r, d, a, u, c, n), down[r] # <<>>,
         NEW x \in QueueMsgs(d), x = Head(down[r]), x.type = "Reduce", x.module = d,
         NEW s, s = Send(Local(r), x)
  PROVE  Holds(r, d, s, 0, a, u, n)
<1>1. ManagersOK /\ ProcessesOK /\ ChannelsOK /\ d \in Modules
  BY FedFacts DEF IInv
<1>2. c = n /\ mod[r][d].prepared
  BY ComputedFirst
<1>3. One(mod[r][d].prepared) = 1
  BY <1>2 DEF One
<1>4. /\ a \in [Inputs -> Nat] /\ u \in Nat /\ n \in Nat
      /\ Given(r, d, queue[r][d], numObject[r], 1, a, u, n, n)
  BY <1>2, <1>3 DEF Streams
<1>5. PICK w : w = queue[r][d]
  OBVIOUS
<1>6. s.count = numObject[r] /\ s.queue[d] = Append(w, x) /\ w \in Seq(QueueMsgs(d))
  BY <1>1, <1>5, SentTo DEF Appended
<1>7. PICK k \in Nat : n = k + 1
  <2>1. Walk(w, Phase(module[r][d].round, After(module[r][d]), u), Phase(n, 1, n), PhasesIn(QueueMsgs(d)))
    BY <1>4, <1>5 DEF Given
  <2>2. PICK y0, y : y0 = Phase(module[r][d].round, After(module[r][d]), u) /\ y = Phase(n, 1, n)
    OBVIOUS
  <2>3. y \in Nat
    BY <1>6, <2>1, <2>2, WalkNat
  <2>4. y = 2 * n - 1 + n
    BY <2>2 DEF Phase
  <2>5. n # 0
    BY ONLY <1>4, <2>3, <2>4
  <2>6. n - 1 \in Nat /\ n = (n - 1) + 1
    BY ONLY <1>4, <2>5
  <2> QED BY <2>6
<1>8. Phase(n, 1, n) = 3 * k + 2 /\ Phase(n, 0, n) = (3 * k + 2) + 1 /\ Phase(n, 0, n) \in Nat
  <2>1. Phase(n, 1, n) = 2 * (k + 1) - 1 + (k + 1) /\ Phase(n, 0, n) = 2 * (k + 1) - 0 + (k + 1)
    BY <1>7 DEF Phase
  <2>2. 2 * (k + 1) - 1 + (k + 1) = 3 * k + 2 /\ 2 * (k + 1) - 0 + (k + 1) = (3 * k + 2) + 1 /\ (3 * k + 2) + 1 \in Nat
    BY ONLY k \in Nat
  <2> QED BY <2>1, <2>2
<1>9. Phases(Phase(n, 1, n), x, Phase(n, 0, n))
  BY <1>8 DEF Phases
<1>10. Progressed(n, 0, n)
  BY DEF Progressed
<1>11. Given(r, d, Append(w, x), numObject[r], 0, a, u, n, n)
  <2>1. PICK h : h = numObject[r]
    OBVIOUS
  <2>2. Given(r, d, w, h, 1, a, u, n, n) /\ x.type # "AddObject"
    BY <1>4, <1>5, <2>1
  <2>3. Given(r, d, Append(w, x), h, 0, a, u, n, n)
    BY <1>4, <1>6, <1>8, <1>9, <1>10, <2>2, GivenOrder
  <2> QED BY <2>1, <2>3
<1>12. Waits(d, s.count, n, n)
  BY DEF Waits
<1>13. Given(r, d, s.queue[d], s.count, 0, a, u, n, n)
  BY <1>6, <1>11
<1> QED BY <1>4, <1>12, <1>13 DEF Holds
(* What a manager holds for d is what is known of it when it has been      *)
(* committed.                                                              *)
LEMMA HeldStream ==
  ASSUME Steering, NEW r \in Ranks, NEW d \in Fed, NEW t, Committed(r, t), NEW b, NEW a, NEW u, NEW n,
         Holds(r, d, t, b, a, u, n), One(mod'[r][d].prepared) = b,
         a \in [Inputs -> Nat], u \in Nat, n \in Nat, Taken(r, d, u), Comes(r, d, a),
         module' = module, objects' = objects, out' = out
  PROVE  \E c : Streams(r, d, a, u, c, n)'
<1>1. PICK c \in Nat : Given(r, d, t.queue[d], t.count, b, a, u, c, n) /\ Waits(d, t.count, c, n)
  BY DEF Holds
<1>2. queue'[r][d] = t.queue[d] /\ numObject'[r] = t.count
  BY DEF Committed
<1>3. Given(r, d, queue[r][d], numObject[r], One(mod[r][d].prepared), a, u, c, n)'
  BY <1>1, <1>2 DEF Given
<1>4. Waits(d, numObject[r], c, n)'
  BY <1>1, <1>2 DEF Waits
<1>5. Taken(r, d, u)' /\ Comes(r, d, a)'
  BY DEF Taken, Comes
<1>6. Streams(r, d, a, u, c, n)'
  BY <1>1, <1>3, <1>4, <1>5 DEF Streams
<1> QED BY <1>6

(* A manager handles a broadcast.                                          *)
LEMMA BroadcastStreams ==
  ASSUME Steering, IInv, CountsOK, StreamsOK, NEW r \in Ranks, HandleBroadcast(r)
  PROVE  StreamsOK'
<1>1. ManagersOK /\ ProcessesOK /\ ChannelsOK /\ LocalOK /\ FlagsAgree
  BY FlagsFromInv DEF IInv
<1>2. PICK x, m, p, s, t : \E open, b, b2 \in [Modules -> 0..1] : Handled(r, x, m, p, open, b, b2, s, t)
  BY BroadcastDoes
<1>3. PICK open, b, b2 \in [Modules -> 0..1] : Handled(r, x, m, p, open, b, b2, s, t)
  BY <1>2
<1>4. /\ x = Head(down[r]) /\ m = x.module /\ m \in Modules /\ x \in QueueMsgs(m)
      /\ x.type \in {"Prepare", "Reduce", "ComputeExecute"} /\ (x.type = "Prepare" => m \in Fed)
      /\ \A q \in Ranks, e \in Modules : <<q, e>> # <<r, m>> => mod'[q][e] = mod[q][e]
      /\ One(mod'[r][m].prepared) = TurnedOn(x)
      /\ s = Send(Local(r), x) /\ StateOK(s, r, b2)
      /\ t = (IF x.type = "Prepare" THEN CheckExecuteObject(r, m, TRUE, s) ELSE s)
      /\ StateOK(t, r, b2) /\ Commit(r, Rest(down, r), t)
  BY <1>3 DEF Handled
<1>5. down[r] # <<>> /\ module' = module /\ objects' = objects /\ out' = out
  BY DEF HandleBroadcast, process
<1>6. Committed(r, t)
  BY <1>1, <1>4, CommittedIs
<1>7. ASSUME NEW q \in Ranks, NEW d \in Fed, NEW a, NEW u, NEW c, NEW n, Streams(q, d, a, u, c, n), q # r
      PROVE  Streams(q, d, a, u, c, n)'
  <2>1. mod'[q][d] = mod[q][d] /\ \A e \in Modules : out'[q][e] = out[q][e]
    BY <1>4, <1>5, <1>7, FedFacts
  <2> QED BY <1>5, <1>6, <1>7, <2>1, OtherRank
<1>8. ASSUME NEW d \in Fed, NEW a, NEW u, NEW c, NEW n, Streams(r, d, a, u, c, n), d # m
      PROVE  Streams(r, d, a, u, c, n)'
  <2>1. d \in Modules /\ \A i \in ComputeInputs[d] : i \in Inputs
    BY FedFacts
  <2>2. s.count = numObject[r] /\ s.queue[d] = queue[r][d]
    <3>1. s.count = numObject[r] /\ Appended(s.queue, queue[r], m, x)
      BY <1>1, <1>4, SentTo
    <3> QED BY <1>8, <2>1, <3>1 DEF Appended
  <2>3. SameFor(t, s, d)
    <3>1. CASE x.type = "Prepare"
      <4>1. PICK ready : ready = TRUE
        OBVIOUS
      <4>2. t = CheckExecuteObject(r, m, ready, s)
        BY <1>4, <3>1, <4>1
      <4>3. SameFor(CheckExecuteObject(r, m, ready, s), s, d)
        BY ONLY <1>4, <1>8, CheckOthers
      <4> QED BY <4>2, <4>3
    <3>2. CASE x.type # "Prepare"
      BY <1>4, <3>2 DEF SameFor
    <3> QED BY <3>1, <3>2
  <2>4. /\ queue'[r][d] = queue[r][d] /\ module'[r][d] = module[r][d]
        /\ One(mod'[r][d].prepared) = One(mod[r][d].prepared)
    BY <1>4, <1>5, <1>6, <1>8, <2>1, <2>2, <2>3 DEF Committed, SameFor
  <2>5. \A i \in ComputeInputs[d] :
           /\ numObject'[r][i] = numObject[r][i] /\ objects'[r][i] = objects[r][i]
           /\ out'[r][Feeder(i)] = out[r][Feeder(i)] /\ module'[r][Feeder(i)] = module[r][Feeder(i)]
    BY <1>5, <1>6, <2>2, <2>3 DEF Committed, SameFor
  <2> QED BY <1>8, <2>4, <2>5, StreamsStay
<1>9. ASSUME NEW a, NEW u, NEW c, NEW n, m \in Fed, Streams(r, m, a, u, c, n)
      PROVE  \E c2, n2 : Streams(r, m, a, u, c2, n2)'
  <2>1. a \in [Inputs -> Nat] /\ u \in Nat /\ n \in Nat /\ Taken(r, m, u) /\ Comes(r, m, a)
    BY <1>9 DEF Streams
  <2>2. x.type \in {"Prepare", "Reduce"}
    BY <1>4, <1>9, QueueMsgFacts
  <2>3. CASE x.type = "Prepare"
    <3>1. ~mod[r][m].prepared
      BY <1>1, <1>4, <1>5, <2>3 DEF FlagsAgree
    <3>2. PICK k : k = n + 1
      OBVIOUS
    <3>3. Holds(r, m, CheckExecuteObject(r, m, TRUE, s), 1, a, u, k)
      BY <1>4, <1>9, <2>3, <3>1, <3>2, PrepareStream
    <3>4. Holds(r, m, t, 1, a, u, k)
      BY <1>4, <2>3, <3>3
    <3>5. One(mod'[r][m].prepared) = 1 /\ k \in Nat
      <4>1. TurnedOn(x) = 1
        BY <2>3 DEF TurnedOn, One
      <4> QED BY <1>4, <2>1, <3>2, <4>1
    <3>6. PICK v : v = 1
      OBVIOUS
    <3>7. Holds(r, m, t, v, a, u, k) /\ One(mod'[r][m].prepared) = v
      BY <3>4, <3>5, <3>6
    <3>8. \E c2 : Streams(r, m, a, u, c2, k)'
      BY ONLY Steering, r \in Ranks, <1>5, <1>6, <1>9, <2>1, <3>5, <3>7, HeldStream
    <3> QED BY <3>8
  <2>4. CASE x.type = "Reduce"
    <3>1. Holds(r, m, s, 0, a, u, n)
      BY <1>4, <1>5, <1>9, <2>4, ReduceStream
    <3>2. Holds(r, m, t, 0, a, u, n)
      BY <1>4, <2>4, <3>1
    <3>3. One(mod'[r][m].prepared) = 0
      <4>1. TurnedOn(x) = 0
        BY <2>4 DEF TurnedOn, One
      <4> QED BY <1>4, <4>1
    <3>4. PICK v : v = 0
      OBVIOUS
    <3>5. Holds(r, m, t, v, a, u, n) /\ One(mod'[r][m].prepared) = v
      BY <3>2, <3>3, <3>4
    <3>6. \E c2 : Streams(r, m, a, u, c2, n)'
      BY ONLY Steering, r \in Ranks, <1>5, <1>6, <1>9, <2>1, <3>5, HeldStream
    <3> QED BY <3>6
  <2> QED BY <2>2, <2>3, <2>4
<1>10. ASSUME NEW q \in Ranks, NEW d \in Fed PROVE \E a, u, c, n : Streams(q, d, a, u, c, n)'
  <2>1. PICK a, u, c, n : Streams(q, d, a, u, c, n)
    BY DEF StreamsOK
  <2>2. CASE q # r
    BY <1>7, <2>1, <2>2
  <2>3. CASE q = r /\ d # m
    BY <1>8, <2>1, <2>3
  <2>4. CASE q = r /\ d = m
    BY <1>9, <2>1, <2>4
  <2> QED BY <2>2, <2>3, <2>4
<1>11. \A q \in Ranks, e \in Modules \ Fed : SourceReady(q, e)'
  BY <1>5 DEF StreamsOK, SourceReady
<1> QED BY <1>10, <1>11 DEF StreamsOK

(* What is known of the objects stays while nothing of it changes.         *)
LEMMA StreamsSame ==
  ASSUME Steering, StreamsOK, queue' = queue, module' = module, objects' = objects, mod' = mod,
         numObject' = numObject, out' = out
  PROVE  StreamsOK'
<1>1. ASSUME NEW r \in Ranks, NEW d \in Fed PROVE \E a, u, c, n : Streams(r, d, a, u, c, n)'
  <2>1. PICK a, u, c, n : Streams(r, d, a, u, c, n)
    BY DEF StreamsOK
  <2>2. Streams(r, d, a, u, c, n)'
    BY <2>1, StreamsStay
  <2> QED BY <2>2
<1>2. \A q \in Ranks, e \in Modules \ Fed : SourceReady(q, e)'
  BY DEF StreamsOK, SourceReady
<1> QED BY <1>1, <1>2 DEF StreamsOK

(* A manager takes the progress of a module.                               *)
LEMMA ProgressStreams ==
  ASSUME Steering, IInv, StreamsOK, NEW r \in Ranks, NEW m \in Modules, HandleProgress(r, m)
  PROVE  StreamsOK'
<1>1. ManagersOK /\ ProcessesOK /\ ChannelsOK /\ LocalOK
  BY DEF IInv
<1>2. PICK x : x = Head(out[r][m])
  OBVIOUS
<1>3. /\ out[r][m] # <<>> /\ ForMaster(x) /\ Takes(r, m)
      /\ mod' = mod /\ numObject' = numObject /\ queue' = queue /\ module' = module /\ objects' = objects
  BY <1>2 DEF HandleProgress, Takes, process, manager
<1>4. x.type # "Object"
  BY <1>3 DEF ForMaster
<1>5. \A q \in Ranks : q # r => \A n \in Modules : out'[q][n] = out[q][n]
  <2>1. out \in [Ranks -> OutFuns] /\ out' = [out EXCEPT ![r][m] = Tail(@)]
    BY <1>1, <1>3 DEF ChannelsOK, Takes
  <2> QED BY <2>1
<1>6. ASSUME NEW q \in Ranks, NEW d \in Fed, NEW a, NEW u, NEW c, NEW n, Streams(q, d, a, u, c, n), q # r
      PROVE  Streams(q, d, a, u, c, n)'
  <2>1. \A i \in ComputeInputs[d] : out'[q][Feeder(i)] = out[q][Feeder(i)]
    BY <1>5, <1>6, FeederFacts
  <2> QED BY <1>3, <1>6, <2>1, StreamsStay
<1>7. ASSUME NEW d \in Fed, NEW a, NEW u, NEW c, NEW n, Streams(r, d, a, u, c, n)
      PROVE  Streams(r, d, a, u, c, n)'
  <2>1. /\ a \in [Inputs -> Nat] /\ u \in Nat /\ c \in Nat /\ n \in Nat /\ Comes(r, d, a) /\ Taken(r, d, u)
        /\ Given(r, d, queue[r][d], numObject[r], One(mod[r][d].prepared), a, u, c, n)
        /\ Waits(d, numObject[r], c, n)
    BY <1>7 DEF Streams
  <2>2. TakenFrom(r, d, m, x, a)
    BY ONLY Steering, <1>1, <1>2, <1>3, <2>1, r \in Ranks, m \in Modules, d \in Fed, ComesTail
  <2>3. PICK a2 \in [Inputs -> Nat] : \A i \in ComputeInputs[d] :
           /\ Feeder(i) = m => Makes(a[i], x, a2[i], i)
           /\ Feeder(i) # m => a2[i] = a[i]
           /\ Walk(out'[r][Feeder(i)], a2[i], Made(module[r][Feeder(i)]), MakesIn(OutMsgs(Feeder(i)), i))
    BY <2>2 DEF TakenFrom
  <2>4. \A i \in ComputeInputs[d] : a2[i] = a[i]
    BY <1>4, <2>3 DEF Makes
  <2>5. Comes(r, d, a)'
    BY <1>3, <2>3, <2>4 DEF Comes
  <2>6. Taken(r, d, u)'
    BY <1>3, <2>1 DEF Taken
  <2>7. Given(r, d, queue[r][d], numObject[r], One(mod[r][d].prepared), a, u, c, n)'
    BY <1>3, <2>1 DEF Given
  <2>8. Waits(d, numObject[r], c, n)'
    BY <1>3, <2>1 DEF Waits
  <2> QED BY <2>1, <2>5, <2>6, <2>7, <2>8 DEF Streams
<1>8. ASSUME NEW q \in Ranks, NEW d \in Fed PROVE \E a, u, c, n : Streams(q, d, a, u, c, n)'
  <2>1. PICK a, u, c, n : Streams(q, d, a, u, c, n)
    BY DEF StreamsOK
  <2>2. Streams(q, d, a, u, c, n)'
    BY <1>6, <1>7, <2>1
  <2> QED BY <2>2
<1>9. \A q \in Ranks, e \in Modules \ Fed : SourceReady(q, e)'
  BY <1>3 DEF StreamsOK, SourceReady
<1> QED BY <1>8, <1>9 DEF StreamsOK

(* What a module sends adds the objects of executions b + 1 to z to each   *)
(* input that it feeds.                                                    *)
Brings(m, msgs, b, z) ==
  \A d \in Fed : \A i \in ComputeInputs[d] : Feeder(i) = m => Walk(msgs, b, z, MakesIn(OutMsgs(m), i))

(* Nothing, or a report, adds no object.                                   *)
LEMMA BringsQuiet ==
  ASSUME NEW m \in Modules, NEW b \in Nat
  PROVE  /\ Brings(m, <<>>, b, b)
         /\ \A x \in OutMsgs(m) : x.type # "Object" => Brings(m, <<x>>, b, b)
<1>1. \A R : Walk(<<>>, b, b, R)
  BY WalkEmpty
<1>2. ASSUME NEW x \in OutMsgs(m), x.type # "Object", NEW i PROVE Walk(<<x>>, b, b, MakesIn(OutMsgs(m), i))
  <2>1. Makes(b, x, b, i)
    BY <1>2 DEF Makes
  <2>2. <<b, x, b>> \in MakesIn(OutMsgs(m), i)
    BY <2>1, MakesIff
  <2> QED BY <2>2, WalkOne
<1> QED BY <1>1, <1>2 DEF Brings

(* What is sent first is added first.                                      *)
LEMMA BringsBoth ==
  ASSUME NEW m, NEW b, NEW y, NEW z, NEW p \in Seq(OutMsgs(m)), NEW q \in Seq(OutMsgs(m)),
         Brings(m, p, b, y), Brings(m, q, y, z)
  PROVE  Brings(m, p \o q, b, z)
<1>1. ASSUME NEW d \in Fed, NEW i \in ComputeInputs[d], Feeder(i) = m
      PROVE  Walk(p \o q, b, z, MakesIn(OutMsgs(m), i))
  <2>1. Walk(p, b, y, MakesIn(OutMsgs(m), i)) /\ Walk(q, y, z, MakesIn(OutMsgs(m), i))
    BY <1>1 DEF Brings
  <2> QED BY <2>1, WalkConcat
<1> QED BY <1>1 DEF Brings

(* At most one object for each output, which is that of execution z if     *)
(* there is one.                                                           *)
LEMMA BringsObjects ==
  ASSUME Steering, NEW m \in Modules, NEW n \in 0..1, NEW round \in Nat, NEW b \in Nat, NEW z, z = b + n,
         n = 1 => z = round
  PROVE  NewObjects(m, n, round) \in Seq(OutMsgs(m)) /\ Brings(m, NewObjects(m, n, round), b, z)
<1>1. PICK S : S = {o \in Outputs : ModuleOf[o] = m}
  OBVIOUS
<1>2. IsFiniteSet(S)
  <2>1. IsFiniteSet(Outputs)
    BY ExecutionAssumption, FS_Subset DEF Ports
  <2> QED BY <1>1, <2>1, FS_Subset
<1>3. PICK os : os = SetToSeq(S)
  OBVIOUS
<1>4. /\ os \in Seq(S) /\ OutputsOf[m] = os /\ \A x \in S : \E k \in 1..Len(os) : os[k] = x
      /\ \A j, k \in 1..Len(os) : os[j] = os[k] => j = k
  <2>1. LET w == SetToSeq(S)
        IN  /\ w \in Seq(S) /\ \A x \in S : \E k \in 1..Len(w) : w[k] = x
            /\ \A j, k \in 1..Len(w) : w[j] = w[k] => j = k
    BY ONLY <1>2, Listed
  <2>2. OutputsOf[m] = os
    BY <1>1, <1>3 DEF OutputsOf
  <2> QED BY <1>3, <2>1, <2>2
<1>5. PICK len \in Nat : len = Len(os)
  BY <1>4
<1>6. DOMAIN os = 1..len /\ \A k \in 1..len : os[k] \in S
  BY <1>4, <1>5
<1> DEFINE Message(k) == [type |-> "Object", port |-> os[k], round |-> round]
           ss == [k \in 1..len |-> Repeat(n, Message(k))]
<1>7. NewObjects(m, n, round) = FlattenSeq(ss)
  BY <1>4, <1>6 DEF NewObjects
<1>8. z \in Nat /\ n \in Nat
  OBVIOUS
<1>9. ASSUME NEW k \in 1..len
      PROVE  /\ ss[k] \in Seq(OutMsgs(m))
             /\ n = 0 => ss[k] = <<>>
             /\ n = 1 => \E x \in OutMsgs(m) : ss[k] = <<x>> /\ x.type = "Object" /\ x.port = os[k] /\ x.round = round
  <2>1. PICK x : x = Message(k)
    OBVIOUS
  <2>2. x \in OutMsgs(m) /\ x.type = "Object" /\ x.port = os[k] /\ x.round = round
    BY <1>1, <1>6, <2>1 DEF OutMsgs, ObjectMsgs
  <2>3. ss[k] = Repeat(n, x)
    BY <2>1
  <2>4. Repeat(n, x) \in Seq(OutMsgs(m)) /\ (n = 0 => Repeat(n, x) = <<>>)
    BY <1>8, <2>2, RepeatSeq
  <2>5. n = 1 => Repeat(n, x) = <<x>>
    BY <2>2, RepeatOne
  <2> QED BY <2>2, <2>3, <2>4, <2>5
<1>10. ss = [k \in 1..len |-> ss[k]]
  OBVIOUS
<1> HIDE DEF ss
<1>11. ss \in Seq(Seq(OutMsgs(m))) /\ Len(ss) = len
  BY <1>9, <1>10
<1>12. /\ FlattenSeq(ss) \in Seq(OutMsgs(m))
       /\ \A R : \A c \in [0..Len(ss) -> Nat] :
            (\A k \in 1..Len(ss) : Walk(ss[k], c[k - 1], c[k], R))
              => Walk(FlattenSeq(ss), c[0], c[Len(ss)], R)
  BY <1>11, Flattened
<1>13. ASSUME NEW d \in Fed, NEW i \in ComputeInputs[d], Feeder(i) = m
       PROVE  Walk(FlattenSeq(ss), b, z, MakesIn(OutMsgs(m), i))
  <2>1. PICK o \in Outputs : /\ ModuleOf[o] = m /\ <<o, i>> \in Connections
                             /\ \A o2 \in Outputs : <<o2, i>> \in Connections => o2 = o
    <3>1. i \in Inputs /\ i \notin NoCompute /\ \E o \in Outputs : <<o, i>> \in Connections
      BY FedFacts DEF ComputeInputs
    <3>2. PICK o \in Outputs : <<o, i>> \in Connections
      BY <3>1
    <3>3. PICK e \in Connections : e = <<o, i>>
      BY <3>2
    <3>4. e[1] = o /\ e[2] = i /\ d \in Modules
      BY <3>3, FedFacts
    <3>5. ModuleOf[o] = m
      BY <1>13, <3>4, FeederIs
    <3>6. ASSUME NEW o2 \in Outputs, <<o2, i>> \in Connections PROVE o2 = o
      <4>1. PICK e2 \in Connections : e2 = <<o2, i>>
        BY <3>6
      <4>2. e2[1] = o2 /\ e2[2] = i
        BY <4>1
      <4>3. e2 = e
        BY <3>1, <3>4, <4>2 DEF Steering
      <4> QED BY <3>4, <4>2, <4>3
    <3> QED BY <3>2, <3>5, <3>6
  <2>2. PICK j \in 1..len : os[j] = o
    BY <1>1, <1>4, <1>5, <2>1
  <2>3. PICK c : c = [k \in 0..len |-> IF k < j THEN b ELSE z]
    OBVIOUS
  <2>4. /\ c \in [0..len -> Nat] /\ c[0] = b /\ c[len] = z
        /\ \A k \in 1..len : c[k] = (IF k < j THEN b ELSE z) /\ c[k - 1] = (IF k - 1 < j THEN b ELSE z)
    <3>1. 0 \in 0..len /\ len \in 0..len /\ 0 < j /\ ~(len < j) /\ \A k \in 1..len : k \in 0..len /\ k - 1 \in 0..len
      BY ONLY len \in Nat, j \in 1..len
    <3> QED BY <1>8, <2>3, <3>1
  <2>5. ASSUME NEW k \in 1..len PROVE Walk(ss[k], c[k - 1], c[k], MakesIn(OutMsgs(m), i))
    <3>1. CASE n = 0
      <4>1. z = b
        BY <3>1
      <4>2. c[k - 1] = b /\ c[k] = b
        BY <2>4, <4>1
      <4>3. Walk(<<>>, b, b, MakesIn(OutMsgs(m), i))
        BY WalkEmpty
      <4> QED BY <1>9, <3>1, <4>2, <4>3
    <3>2. CASE n = 1
      <4>1. PICK x \in OutMsgs(m) : ss[k] = <<x>> /\ x.type = "Object" /\ x.port = os[k] /\ x.round = round
        BY <1>9, <3>2
      <4>2. os[k] \in Outputs
        BY <1>1, <1>6
      <4>3. PICK v \in Nat, w \in Nat : v = c[k - 1] /\ w = c[k]
        <5>1. c[k - 1] \in Nat /\ c[k] \in Nat
          BY <1>8, <2>4
        <5> QED BY <5>1
      <4>4. CASE k = j
        <5>1. k - 1 < j /\ ~(k < j)
          BY ONLY <4>4, k \in 1..len, len \in Nat
        <5>2. v = b /\ w = z
          BY <2>4, <4>3, <5>1
        <5>3. w = v + 1 /\ x.round = w /\ <<x.port, i>> \in Connections
          BY <2>1, <2>2, <3>2, <4>1, <4>4, <5>2
        <5>4. Makes(v, x, w, i)
          BY <4>1, <5>3 DEF Makes
        <5>5. <<v, x, w>> \in MakesIn(OutMsgs(m), i)
          BY <4>3, <5>4, MakesIff
        <5> QED BY <4>1, <4>3, <5>5, WalkOne
      <4>5. CASE k # j
        <5>1. k - 1 < j <=> k < j
          BY ONLY <4>5, k \in 1..len, j \in 1..len, len \in Nat
        <5>2. w = v
          BY <2>4, <4>3, <5>1
        <5>3. <<x.port, i>> \notin Connections
          BY <1>4, <1>5, <2>1, <2>2, <4>1, <4>2, <4>5
        <5>4. Makes(v, x, w, i)
          BY <4>1, <5>2, <5>3 DEF Makes
        <5>5. <<v, x, w>> \in MakesIn(OutMsgs(m), i)
          BY <4>3, <5>4, MakesIff
        <5> QED BY <4>1, <4>3, <5>5, WalkOne
      <4> QED BY <4>4, <4>5
    <3> QED BY <3>1, <3>2
  <2>6. Walk(FlattenSeq(ss), c[0], c[Len(ss)], MakesIn(OutMsgs(m), i))
    BY <1>11, <1>12, <2>4, <2>5
  <2> QED BY <1>11, <2>4, <2>6
<1> QED BY <1>7, <1>12, <1>13 DEF Brings

(* What is in the queue of d fits to what its manager has sent.            *)
Fits(r, d, a, c, n) ==
  \E u \in Nat : /\ Given(r, d, queue[r][d], numObject[r], One(mod[r][d].prepared), a, u, c, n)
                 /\ Taken(r, d, u)

(* A step of one process, which is then in state p, has sent msgs, and has *)
(* q left of its queue, keeps track of the objects.                        *)
LEMMA ReplacedStreams ==
  ASSUME Steering, IInv, StreamsOK, NEW r \in Ranks, NEW m \in Modules, NEW p, ProcessIs(r, m, p),
         NEW msgs \in Seq(OutMsgs(m)), Report(r, m, msgs), Brings(m, msgs, Made(module[r][m]), Made(p)),
         NEW q \in Seq(QueueMsgs(m)), QueueIs(r, m, q), mod' = mod, numObject' = numObject,
         \A k \in Ranks, e \in Modules : <<k, e>> # <<r, m>> =>
           \A i \in ComputeInputs[e] : objects'[k][i] = objects[k][i],
         m \in Fed => \A a, u, c, n : Streams(r, m, a, u, c, n) => Fits(r, m, a, c, n)',
         m \notin Fed => SourceReady(r, m)'
  PROVE  StreamsOK'
<1>1. ProcessesOK /\ ChannelsOK
  BY DEF IInv
<1>2. /\ module'[r][m] = p
      /\ \A k \in Ranks, e \in Modules : <<k, e>> # <<r, m>> => module'[k][e] = module[k][e]
  BY <1>1, ProcessReplaced
<1>3. /\ queue'[r][m] = q
      /\ \A k \in Ranks, e \in Modules : <<k, e>> # <<r, m>> => queue'[k][e] = queue[k][e]
  BY <1>1, QueueUpdate
<1>4. PICK y : y = out[r][m] \o msgs
  OBVIOUS
<1>5. out[r][m] \in Seq(OutMsgs(m))
  BY <1>1 DEF ChannelsOK, OutFuns, Outs
<1>6. y \in Seq(OutMsgs(m)) /\ Becomes(r, m, y)
  <2>1. y \in Seq(OutMsgs(m))
    BY <1>4, <1>5, ConcatProperties
  <2> QED BY <1>4, <2>1 DEF Report, Becomes
<1>7. /\ out'[r][m] = y
      /\ \A k \in Ranks, e \in Modules : <<k, e>> # <<r, m>> => out'[k][e] = out[k][e]
  BY ONLY <1>1, <1>6, r \in Ranks, m \in Modules, OutIs
<1>8. ASSUME NEW k \in Ranks, NEW d \in Fed, NEW a, a \in [Inputs -> Nat], Comes(k, d, a) PROVE Comes(k, d, a)'
  <2>1. ASSUME NEW i \in ComputeInputs[d]
        PROVE  Walk(out'[k][Feeder(i)], a[i], Made(module'[k][Feeder(i)]), MakesIn(OutMsgs(Feeder(i)), i))
    <3>1. PICK f : f = Feeder(i) /\ f \in Modules
      BY FeederFacts
    <3>2. Walk(out[k][f], a[i], Made(module[k][f]), MakesIn(OutMsgs(f), i))
      BY <1>8, <3>1 DEF Comes
    <3>3. CASE <<k, f>> = <<r, m>>
      <4>1. PICK w, b, v, z, R : /\ w = out[r][m] /\ b = a[i] /\ v = Made(module[r][m]) /\ z = Made(p)
                                 /\ R = MakesIn(OutMsgs(m), i)
        OBVIOUS
      <4>2. Walk(msgs, v, z, R)
        BY <3>1, <3>3, <4>1 DEF Brings
      <4>3. Walk(w, b, v, R) /\ w \in Seq(OutMsgs(m))
        BY <1>5, <3>2, <3>3, <4>1
      <4>4. Walk(w \o msgs, b, z, R)
        BY ONLY <4>2, <4>3, msgs \in Seq(OutMsgs(m)), WalkConcat
      <4> QED BY <1>2, <1>4, <1>7, <3>1, <3>3, <4>1, <4>4
    <3>4. CASE <<k, f>> # <<r, m>>
      <4>1. out'[k][f] = out[k][f] /\ module'[k][f] = module[k][f]
        BY <1>2, <1>7, <3>1, <3>4
      <4> QED BY <3>1, <3>2, <4>1
    <3> QED BY <3>3, <3>4
  <2> QED BY <2>1 DEF Comes
<1>9. ASSUME NEW k \in Ranks, NEW d \in Fed PROVE \E a, u, c, n : Streams(k, d, a, u, c, n)'
  <2>1. PICK a, u, c, n : Streams(k, d, a, u, c, n)
    BY DEF StreamsOK
  <2>2. /\ a \in [Inputs -> Nat] /\ u \in Nat /\ c \in Nat /\ n \in Nat /\ Comes(k, d, a) /\ Taken(k, d, u)
        /\ Given(k, d, queue[k][d], numObject[k], One(mod[k][d].prepared), a, u, c, n)
        /\ Waits(d, numObject[k], c, n)
    BY <2>1 DEF Streams
  <2>3. Comes(k, d, a)'
    BY <1>8, <2>2
  <2>4. Waits(d, numObject[k], c, n)'
    BY <2>2 DEF Waits
  <2>5. PICK u2 \in Nat : /\ Given(k, d, queue[k][d], numObject[k], One(mod[k][d].prepared), a, u2, c, n)'
                          /\ Taken(k, d, u2)'
    <3>1. CASE <<k, d>> = <<r, m>>
      <4>1. Fits(r, m, a, c, n)'
        BY <2>1, <3>1
      <4> QED BY <3>1, <4>1 DEF Fits
    <3>2. CASE <<k, d>> # <<r, m>>
      <4>1. d \in Modules
        BY FedFacts
      <4>2. /\ module'[k][d] = module[k][d] /\ queue'[k][d] = queue[k][d]
            /\ \A i \in ComputeInputs[d] : objects'[k][i] = objects[k][i]
        BY <1>2, <1>3, <3>2, <4>1
      <4>3. Given(k, d, queue[k][d], numObject[k], One(mod[k][d].prepared), a, u, c, n)'
        BY <2>2, <4>2 DEF Given
      <4>4. Taken(k, d, u)'
        BY <2>2, <4>2 DEF Taken
      <4> QED BY <2>2, <4>3, <4>4
    <3> QED BY <3>1, <3>2
  <2>6. Streams(k, d, a, u2, c, n)'
    BY <2>2, <2>3, <2>4, <2>5 DEF Streams
  <2> QED BY <2>6
<1>10. ASSUME NEW k \in Ranks, NEW e \in Modules \ Fed PROVE SourceReady(k, e)'
  <2>1. CASE <<k, e>> = <<r, m>>
    BY <2>1
  <2>2. CASE <<k, e>> # <<r, m>>
    BY <1>2, <2>2 DEF StreamsOK, SourceReady
  <2> QED BY <2>1, <2>2
<1> QED BY <1>9, <1>10 DEF StreamsOK

(* The orders in q lead module m, when it has got rd prepares, is prepared *)
(* if b is 1, and has computed u2 times, to what its manager has sent.     *)
Left(r, m, q, a, u, c, n, rd, b, u2) ==
  /\ Progressed(rd, b, u2)
  /\ Walk(q, Phase(rd, b, u2), Phase(n, One(mod[r][m].prepared), c), PhasesIn(QueueMsgs(m)))
  /\ \A i \in ComputeInputs[m] : Walk(q, u + Len(objects[r][i]), a[i], AddsIn(QueueMsgs(m), i))

(* What is left fits to the module if that is its state after a step.      *)
LEMMA FitsThen ==
  ASSUME NEW r \in Ranks, NEW m \in Fed, NEW a, NEW u, NEW c, NEW n, Streams(r, m, a, u, c, n),
         NEW q, NEW rd, NEW b, NEW u2 \in Nat, Left(r, m, q, a, u, c, n, rd, b, u2),
         NEW p, module'[r][m] = p, p.round = rd, After(p) = b, p.prepared /\ u2 # rd => ~p.withOutput,
         queue'[r][m] = q, mod' = mod, numObject' = numObject,
         \A i \in ComputeInputs[m] :
           /\ u2 + Len(objects'[r][i]) = u + Len(objects[r][i])
           /\ \A k \in 1..Len(objects'[r][i]) : objects'[r][i][k] = u2 + k
  PROVE  Fits(r, m, a, c, n)'
<1>1. Given(r, m, queue[r][m], numObject[r], One(mod[r][m].prepared), a, u, c, n)
  BY DEF Streams
<1>2. Given(r, m, queue[r][m], numObject[r], One(mod[r][m].prepared), a, u2, c, n)'
  BY <1>1 DEF Given, Left
<1>3. Taken(r, m, u2)'
  BY DEF Taken, Left
<1> QED BY <1>2, <1>3 DEF Fits

(* What is left is all of the queue while the module takes nothing of it.  *)
LEMMA LeftAll ==
  ASSUME NEW r \in Ranks, NEW m \in Fed, NEW a, NEW u, NEW c, NEW n, Streams(r, m, a, u, c, n),
         NEW q, q = queue[r][m], NEW rd, NEW b, rd = module[r][m].round, b = After(module[r][m])
  PROVE  Left(r, m, q, a, u, c, n, rd, b, u)
BY DEF Streams, Given, Taken, Left

(* What is left of the queue when the module takes order x, in round rd.   *)
OrderLeft(r, m, q, a, u, c, n, rd, b, x) ==
  /\ x.type = "Prepare" => b = 0 /\ u = rd /\ Left(r, m, q, a, u, c, n, rd + 1, 1, u)
  /\ x.type = "ComputeObject" => b = 1 /\ u + 1 = rd /\ Left(r, m, q, a, u, c, n, rd, 1, u + 1)
  /\ x.type = "Reduce" => b = 1 /\ u = rd /\ Left(r, m, q, a, u, c, n, rd, 0, u)

(* What is left when the module takes an order.                            *)
LEMMA LeftOrder ==
  ASSUME IInv, NEW r \in Ranks, NEW m \in Fed, NEW a, NEW u, NEW c, NEW n, Streams(r, m, a, u, c, n),
         queue[r][m] # <<>>, NEW x, x = Head(queue[r][m]), x.type # "AddObject", NEW q, q = Tail(queue[r][m]),
         NEW rd, NEW b, rd = module[r][m].round, b = After(module[r][m])
  PROVE  OrderLeft(r, m, q, a, u, c, n, rd, b, x)
<1>1. ProcessesOK /\ ChannelsOK /\ m \in Modules
  BY FedFacts DEF IInv
<1>2. rd \in Nat /\ b \in 0..1
  <2>1. rd \in Nat
    BY <1>1, ProcessFacts
  <2> QED BY <2>1 DEF After, One
<1>3. PICK w, y, y2 : /\ w = queue[r][m] /\ y = Phase(rd, b, u)
                      /\ y2 = Phase(n, One(mod[r][m].prepared), c)
  OBVIOUS
<1>4. /\ u \in Nat /\ a \in [Inputs -> Nat] /\ Progressed(rd, b, u)
      /\ w \in Seq(QueueMsgs(m)) /\ w # <<>> /\ Walk(w, y, y2, PhasesIn(QueueMsgs(m)))
      /\ \A i \in ComputeInputs[m] : Walk(w, u + Len(objects[r][i]), a[i], AddsIn(QueueMsgs(m), i))
  BY <1>1, <1>3 DEF ChannelsOK, QueueFuns, Queues, Streams, Taken, Given
<1>5. PICK z \in Nat : <<y, Head(w), z>> \in PhasesIn(QueueMsgs(m)) /\ Walk(Tail(w), z, y2, PhasesIn(QueueMsgs(m)))
  BY ONLY <1>4, WalkHead
<1>6. Phases(y, x, z) /\ Walk(q, z, y2, PhasesIn(QueueMsgs(m)))
  BY <1>3, <1>5, PhasesIff
<1>7. ASSUME NEW i \in ComputeInputs[m] PROVE Walk(q, u + Len(objects[r][i]), a[i], AddsIn(QueueMsgs(m), i))
  <2>1. PICK k, l, R : k = u + Len(objects[r][i]) /\ l = a[i] /\ R = AddsIn(QueueMsgs(m), i)
    OBVIOUS
  <2>2. Walk(w, k, l, R)
    BY <1>4, <2>1
  <2>3. PICK j \in Nat : <<k, Head(w), j>> \in R /\ Walk(Tail(w), j, l, R)
    BY ONLY <1>4, <2>2, WalkHead
  <2>4. Adds(k, x, j, i)
    BY <1>3, <2>1, <2>3, AddsIff
  <2>5. j = k
    BY <2>4 DEF Adds
  <2> QED BY <1>3, <2>1, <2>3, <2>5
<1>8. CASE x.type = "Prepare"
  <2>1. PICK k \in Nat : y = 3 * k /\ z = y + 1
    BY <1>6, <1>8 DEF Phases
  <2>2. b = 0 /\ rd = k /\ u = k
    <3>1. Phase(rd, b, u) = 3 * k
      BY <1>3, <2>1
    <3> QED BY ONLY <1>2, <1>4, <3>1, k \in Nat, PhaseKind
  <2>3. z = Phase(rd + 1, 1, u) /\ Progressed(rd + 1, 1, u)
    <3>1. Phase(rd + 1, 1, u) = 2 * (k + 1) - 1 + k
      BY <2>2 DEF Phase
    <3>2. 2 * (k + 1) - 1 + k = 3 * k + 1
      BY ONLY k \in Nat
    <3>3. Progressed(rd + 1, 1, u)
      BY <2>2 DEF Progressed
    <3> QED BY <2>1, <3>1, <3>2, <3>3
  <2>4. Left(r, m, q, a, u, c, n, rd + 1, 1, u)
    BY <1>3, <1>6, <1>7, <2>3 DEF Left
  <2> QED BY <1>8, <2>2, <2>4 DEF OrderLeft
<1>9. CASE x.type = "ComputeObject"
  <2>1. PICK k \in Nat : y = 3 * k + 1 /\ z = y + 1
    BY <1>6, <1>9 DEF Phases
  <2>2. b = 1 /\ rd = k + 1 /\ u = k
    <3>1. Phase(rd, b, u) = 3 * k + 1
      BY <1>3, <2>1
    <3> QED BY ONLY <1>2, <1>4, <3>1, k \in Nat, PhaseKind
  <2>3. z = Phase(rd, 1, u + 1) /\ Progressed(rd, 1, u + 1)
    <3>1. Phase(rd, 1, u + 1) = 2 * (k + 1) - 1 + (k + 1)
      BY ONLY <2>2 DEF Phase
    <3>2. 2 * (k + 1) - 1 + (k + 1) = (3 * k + 1) + 1
      BY ONLY k \in Nat
    <3>3. Progressed(rd, 1, u + 1)
      BY <2>2 DEF Progressed
    <3> QED BY <2>1, <3>1, <3>2, <3>3
  <2>4. Left(r, m, q, a, u, c, n, rd, 1, u + 1)
    BY <1>3, <1>6, <1>7, <2>3 DEF Left
  <2> QED BY <1>9, <2>2, <2>4 DEF OrderLeft
<1>10. CASE x.type = "Reduce"
  <2>1. PICK k \in Nat : y = 3 * k + 2 /\ z = y + 1
    BY <1>6, <1>10 DEF Phases
  <2>2. b = 1 /\ rd = k + 1 /\ u = k + 1
    <3>1. Phase(rd, b, u) = 3 * k + 2
      BY <1>3, <2>1
    <3>2. u \in Nat /\ Progressed(rd, b, u)
      BY <1>4
    <3> QED BY ONLY <1>2, <3>1, <3>2, k \in Nat, PhaseKind
  <2>3. z = Phase(rd, 0, u) /\ Progressed(rd, 0, u)
    <3>1. Phase(rd, 0, u) = 2 * (k + 1) - 0 + (k + 1)
      BY <2>2 DEF Phase
    <3>2. 2 * (k + 1) - 0 + (k + 1) = (3 * k + 2) + 1
      BY ONLY k \in Nat
    <3>3. Progressed(rd, 0, u)
      BY <2>2 DEF Progressed
    <3> QED BY <2>1, <3>1, <3>2, <3>3
  <2>4. Left(r, m, q, a, u, c, n, rd, 0, u)
    BY <1>3, <1>6, <1>7, <2>3 DEF Left
  <2> QED BY <1>10, <2>2, <2>4 DEF OrderLeft
<1> QED BY <1>8, <1>9, <1>10 DEF OrderLeft

(* A step of a process takes it to stages t, prepared or not, in execution *)
(* n, sends its objects in order, and leaves withOutput in w.              *)
Sends(r, m, p) ==
  \E msgs \in Seq(OutMsgs(m)) : Report(r, m, msgs) /\ Brings(m, msgs, Made(module[r][m]), Made(p))
GoesOn(r, m, t, prepared, n, w) ==
  \E p : /\ ProcessIs(r, m, p) /\ Sends(r, m, p)
         /\ p.rest = t /\ p.prepared = prepared /\ p.round = n /\ p.withOutput \in w

(* The objects of how many executions have been sent.                      *)
LEMMA MadeIs ==
  ASSUME ProcessesOK, ChannelsOK, CountsOK, NEW r \in Ranks, NEW m \in Modules,
         NEW n, n = module[r][m].round
  PROVE  /\ n \in Nat /\ Made(module[r][m]) \in Nat
         /\ module[r][m].prepared => n - 1 \in Nat
         /\ module[r][m].prepared /\ ~module[r][m].withOutput => Made(module[r][m]) = n - 1
         /\ ~module[r][m].prepared \/ module[r][m].withOutput => Made(module[r][m]) = n
<1>1. PICK p : p = module[r][m]
  OBVIOUS
<1>2. n \in Nat
  BY ProcessFacts
<1>3. p.prepared => n - 1 \in Nat
  <2>1. SUFFICES ASSUME p.prepared PROVE n - 1 \in Nat
    OBVIOUS
  <2>2. 2 * n - 1 \in Nat
    <3>1. Turns(p) \in Nat
      BY <1>1, TurnsNat
    <3>2. Turns(p) = 2 * n - 1
      BY <1>1, <2>1 DEF Turns, One
    <3> QED BY <3>1, <3>2
  <2> QED BY ONLY <1>2, <2>2
<1>4. p.prepared /\ ~p.withOutput => Made(p) = n - 1
  BY <1>1 DEF Made, One
<1>5. ~p.prepared \/ p.withOutput => Made(p) = n
  <2>1. n - 0 = n
    BY <1>2
  <2>2. ~p.prepared \/ p.withOutput => One(p.prepared /\ ~p.withOutput) = 0
    BY DEF One
  <2> QED BY <1>1, <2>1, <2>2 DEF Made
<1>6. Made(p) \in Nat
  BY <1>2, <1>3, <1>4, <1>5
<1> QED BY <1>1, <1>2, <1>3, <1>4, <1>5, <1>6

(* The same of a state that a process is taken to.                         *)
LEMMA MadeThen ==
  ASSUME NEW p, NEW n \in Nat, p.round = n
  PROVE  /\ p.prepared /\ ~p.withOutput => Made(p) = n - 1
         /\ ~p.prepared \/ p.withOutput => Made(p) = n
<1>1. n - 0 = n
  OBVIOUS
<1>2. ~p.prepared \/ p.withOutput => One(p.prepared /\ ~p.withOutput) = 0
  BY DEF One
<1>3. p.prepared /\ ~p.withOutput => One(p.prepared /\ ~p.withOutput) = 1
  BY DEF One
<1> QED BY <1>1, <1>2, <1>3 DEF Made

(* prepareWrapper begins an execution, which has sent nothing.             *)
LEMMA StartGoes ==
  ASSUME ProcessesOK, ChannelsOK, CountsOK, NEW r \in Ranks, NEW m \in Modules, NEW t \in Rests(m),
         ~module[r][m].prepared, Start(r, m, [module[r][m] EXCEPT !.rest = t])
  PROVE  GoesOn(r, m, t, TRUE, module[r][m].round + 1, {FALSE})
<1>1. PICK p0, p : p0 = module[r][m] /\ p = [p0 EXCEPT !.rest = t]
  OBVIOUS
<1>2. p0 \in Processes(m) /\ ~p0.prepared
  BY <1>1, ProcessFacts
<1>3. PICK k \in Nat : k = p0.round
  BY <1>2 DEF Processes
<1>4. p \in Processes(m) /\ p.rest = t /\ p.round = k
  BY <1>1, <1>2, <1>3, ProcessEdit
<1>5. PICK p2 : p2 = [p EXCEPT !.prepared = TRUE, !.reduced = FALSE, !.withOutput = FALSE, !.round = @ + 1]
  OBVIOUS
<1>6. p2.rest = t /\ p2.prepared = TRUE /\ p2.withOutput = FALSE /\ p2.round = k + 1
  BY <1>4, <1>5 DEF Processes
<1>7. PICK x : x = [type |-> "Start", module |-> m]
  OBVIOUS
<1>8. x \in OutMsgs(m) /\ x.type # "Object"
  BY <1>7 DEF OutMsgs, Reports
<1>9. ProcessIs(r, m, p2) /\ Report(r, m, <<x>>) /\ <<x>> \in Seq(OutMsgs(m))
  BY <1>1, <1>5, <1>7, <1>8 DEF Start, ProcessIs
<1>10. Made(p0) = k /\ Made(p2) = k
  <2>1. Made(p0) = k
    BY <1>1, <1>2, <1>3, MadeIs
  <2>2. k + 1 \in Nat /\ (k + 1) - 1 = k
    BY ONLY k \in Nat
  <2>3. PICK l : l = k + 1
    OBVIOUS
  <2>4. Made(p2) = l - 1
    BY <1>6, <2>2, <2>3, MadeThen
  <2> QED BY <2>1, <2>2, <2>3, <2>4
<1>11. Brings(m, <<x>>, k, k)
  BY <1>8, BringsQuiet
<1>12. Sends(r, m, p2)
  BY <1>1, <1>9, <1>10, <1>11 DEF Sends
<1> QED BY <1>1, <1>3, <1>6, <1>9, <1>12 DEF GoesOn

(* A stage that sends the object of its execution, or none.                *)
LEMMA ObjectsGo ==
  ASSUME Steering, ProcessesOK, ChannelsOK, CountsOK, NEW r \in Ranks, NEW m \in Modules, NEW t,
         module[r][m].prepared = TRUE, module[r][m].withOutput = FALSE, NEW n \in 0..1,
         NEW p, ProcessIs(r, m, p), p.rest = t, p.prepared = TRUE, p.round = module[r][m].round,
         p.withOutput \in BOOLEAN, p.withOutput <=> n = 1, Report(r, m, NewObjects(m, n, module[r][m].round))
  PROVE  GoesOn(r, m, t, TRUE, module[r][m].round, BOOLEAN)
<1>1. PICK k : k = module[r][m].round
  OBVIOUS
<1>2. k \in Nat /\ k - 1 \in Nat /\ Made(module[r][m]) = k - 1
  BY <1>1, MadeIs
<1>3. PICK b \in Nat, z \in Nat : b = k - 1 /\ z = b + n
  <2>1. k - 1 \in Nat /\ (k - 1) + n \in Nat
    BY <1>2
  <2> QED BY <2>1
<1>4. n = 1 => z = k
  BY <1>2, <1>3
<1>5. NewObjects(m, n, k) \in Seq(OutMsgs(m)) /\ Brings(m, NewObjects(m, n, k), b, z)
  BY <1>2, <1>3, <1>4, BringsObjects
<1>6. Made(p) = z
  <2>1. n = 0 => Made(p) = k - 1
    BY <1>1, <1>2, MadeThen
  <2>2. n = 1 => Made(p) = k
    BY <1>1, <1>2, MadeThen
  <2>3. n = 0 => z = b
    BY <1>3
  <2> QED BY <1>3, <1>4, <2>1, <2>2, <2>3
<1>7. Sends(r, m, p)
  BY <1>1, <1>2, <1>3, <1>5, <1>6 DEF Sends
<1> QED BY <1>1, <1>7 DEF GoesOn

(* prepare of a source.                                                    *)
LEMMA ProduceGoes ==
  ASSUME Steering, OneObject, ProcessesOK, ChannelsOK, CountsOK, NEW r \in Ranks, NEW m \in Modules,
         NEW t \in Rests(m), module[r][m].prepared, ~module[r][m].withOutput,
         Produce(r, m, [module[r][m] EXCEPT !.rest = t])
  PROVE  GoesOn(r, m, t, TRUE, module[r][m].round, BOOLEAN)
<1>1. PICK p0, p : p0 = module[r][m] /\ p = [p0 EXCEPT !.rest = t]
  OBVIOUS
<1>2. p0 \in Processes(m) /\ p0.prepared = TRUE /\ p0.withOutput = FALSE
  <2>1. p0 \in Processes(m) /\ p0.prepared /\ ~p0.withOutput
    BY <1>1, ProcessFacts
  <2> QED BY <2>1 DEF Processes
<1>3. /\ p \in Processes(m) /\ p.rest = t /\ p.prepared = p0.prepared /\ p.round = p0.round
      /\ p.withOutput = p0.withOutput
  BY <1>1, <1>2, ProcessEdit
<1>4. PICK n : n = Produces[m][r]
  OBVIOUS
<1>5. n \in 0..1
  BY <1>4 DEF OneObject
<1>6. PICK v : v = (p.withOutput \/ n > 0)
  OBVIOUS
<1>7. v \in BOOLEAN /\ (v <=> n = 1)
  <2>1. v <=> n > 0
    BY <1>2, <1>3, <1>6
  <2>2. n > 0 <=> n = 1
    BY <1>5
  <2> QED BY <1>6, <2>1, <2>2
<1>8. PICK p2 : p2 = [p EXCEPT !.withOutput = v]
  OBVIOUS
<1>9. p2.rest = t /\ p2.prepared = TRUE /\ p2.round = p0.round /\ p2.withOutput = v
  BY <1>2, <1>3, <1>8 DEF Processes
<1>10. ProcessIs(r, m, p2) /\ Report(r, m, NewObjects(m, n, module[r][m].round))
  BY <1>1, <1>3, <1>4, <1>6, <1>8 DEF Produce, ProcessIs
<1> QED BY <1>1, <1>2, <1>5, <1>7, <1>9, <1>10, ObjectsGo

(* compute, when there is an object at every input.                        *)
LEMMA ComputeGoes ==
  ASSUME Steering, OneObject, ProcessesOK, ChannelsOK, CountsOK, NEW r \in Ranks, NEW m \in Modules,
         NEW t \in Rests(m), module[r][m].prepared, ~module[r][m].withOutput,
         \A i \in ComputeInputs[m] : objects[r][i] # <<>>,
         Compute(r, m, [module[r][m] EXCEPT !.rest = t])
  PROVE  GoesOn(r, m, t, TRUE, module[r][m].round, BOOLEAN)
<1>1. PICK p0, p : p0 = module[r][m] /\ p = [p0 EXCEPT !.rest = t]
  OBVIOUS
<1>2. p0 \in Processes(m) /\ p0.prepared = TRUE /\ p0.withOutput = FALSE
  <2>1. p0 \in Processes(m) /\ p0.prepared /\ ~p0.withOutput
    BY <1>1, ProcessFacts
  <2> QED BY <2>1 DEF Processes
<1>3. /\ p \in Processes(m) /\ p.rest = t /\ p.prepared = p0.prepared /\ p.round = p0.round
      /\ p.withOutput = p0.withOutput
  BY <1>1, <1>2, ProcessEdit
<1>4. PICK n \in Results : /\ ProcessIs(r, m, [p EXCEPT !.withOutput = @ \/ n > 0])
                           /\ Report(r, m, NewObjects(m, n, p.round))
  <2>1. PICK n \in Results :
          LET made == IF \E i \in ComputeInputs[m] : objects[r][i] = <<>> THEN 0 ELSE n
          IN  /\ module' = [module EXCEPT ![r][m] = [p EXCEPT !.withOutput = @ \/ made > 0]]
              /\ Report(r, m, NewObjects(m, made, p.round))
    BY <1>1 DEF Compute
  <2>2. (IF \E i \in ComputeInputs[m] : objects[r][i] = <<>> THEN 0 ELSE n) = n
    OBVIOUS
  <2> QED BY <2>1, <2>2 DEF ProcessIs
<1>5. n \in 0..1
  BY DEF OneObject
<1>6. PICK v : v = (p.withOutput \/ n > 0)
  OBVIOUS
<1>7. v \in BOOLEAN /\ (v <=> n = 1)
  <2>1. v <=> n > 0
    BY <1>2, <1>3, <1>6
  <2>2. n > 0 <=> n = 1
    BY <1>5
  <2> QED BY <1>6, <2>1, <2>2
<1>8. PICK p2 : p2 = [p EXCEPT !.withOutput = v]
  OBVIOUS
<1>9. p2.rest = t /\ p2.prepared = TRUE /\ p2.round = p0.round /\ p2.withOutput = v
  BY <1>2, <1>3, <1>8 DEF Processes
<1>10. ProcessIs(r, m, p2) /\ Report(r, m, NewObjects(m, n, module[r][m].round))
  BY <1>1, <1>3, <1>4, <1>6, <1>8
<1> QED BY <1>1, <1>2, <1>5, <1>7, <1>9, <1>10, ObjectsGo

(* reduceWrapper ends the execution, which has sent its object.            *)
LEMMA FinishGoes ==
  ASSUME Steering, ProcessesOK, ChannelsOK, CountsOK, NEW r \in Ranks, NEW m \in Modules,
         NEW t \in Rests(m), module[r][m].prepared, Finish(r, m, [module[r][m] EXCEPT !.rest = t])
  PROVE  GoesOn(r, m, t, FALSE, module[r][m].round, BOOLEAN)
<1>1. PICK p0, p : p0 = module[r][m] /\ p = [p0 EXCEPT !.rest = t]
  OBVIOUS
<1>2. p0 \in Processes(m) /\ p0.prepared
  BY <1>1, ProcessFacts
<1>3. PICK k : k = module[r][m].round
  OBVIOUS
<1>4. p \in Processes(m) /\ p.rest = t /\ p.round = k /\ p.withOutput = p0.withOutput
  BY <1>1, <1>2, <1>3, ProcessEdit
<1>5. PICK p2 : p2 = [p EXCEPT !.prepared = FALSE, !.reduced = TRUE]
  OBVIOUS
<1>6. p2.rest = t /\ p2.prepared = FALSE /\ p2.round = k /\ p2.withOutput \in BOOLEAN
  BY <1>4, <1>5 DEF Processes
<1>7. PICK n \in 0..1 : n = IF p.withOutput THEN 0 ELSE 1
  OBVIOUS
<1>8. PICK new, x : new = NewObjects(m, n, k) /\ x = [type |-> "Finish", module |-> m]
  OBVIOUS
<1>9. ProcessIs(r, m, p2) /\ Report(r, m, new \o <<x>>)
  BY <1>1, <1>4, <1>5, <1>7, <1>8 DEF Finish, ProcessIs
<1>10. /\ k \in Nat /\ k - 1 \in Nat /\ Made(p0) \in Nat
       /\ ~p0.withOutput => Made(p0) = k - 1
       /\ p0.withOutput => Made(p0) = k
  BY <1>1, <1>2, <1>3, MadeIs
<1>11. PICK b \in Nat : b = Made(p0)
  BY <1>10
<1>12. k = b + n
  BY <1>4, <1>7, <1>10, <1>11
<1>13. new \in Seq(OutMsgs(m)) /\ Brings(m, new, b, k)
  BY <1>8, <1>10, <1>12, BringsObjects
<1>14. x \in OutMsgs(m) /\ x.type # "Object"
  BY <1>8 DEF OutMsgs, Reports
<1>15. <<x>> \in Seq(OutMsgs(m)) /\ Brings(m, <<x>>, k, k)
  BY <1>10, <1>14, BringsQuiet
<1>16. new \o <<x>> \in Seq(OutMsgs(m)) /\ Brings(m, new \o <<x>>, b, k)
  BY <1>13, <1>15, BringsBoth, ConcatProperties
<1>17. Made(p2) = k
  BY <1>6, <1>10, MadeThen
<1>18. Sends(r, m, p2)
  BY <1>1, <1>9, <1>11, <1>16, <1>17 DEF Sends
<1> QED BY <1>3, <1>6, <1>9, <1>18 DEF GoesOn

(* A process comes to an operation that all ranks take part in.            *)
LEMMA SyncGoes ==
  ASSUME ProcessesOK, ChannelsOK, CountsOK, NEW r \in Ranks, NEW m \in Modules, NEW t \in Rests(m),
         module' = [module EXCEPT ![r][m].rest = t], out' = out
  PROVE  GoesOn(r, m, t, module[r][m].prepared, module[r][m].round, {module[r][m].withOutput})
<1>1. PICK p0, p : p0 = module[r][m] /\ p = [p0 EXCEPT !.rest = t]
  OBVIOUS
<1>2. p0 \in Processes(m)
  BY <1>1, ProcessFacts
<1>3. p.rest = t /\ p.prepared = p0.prepared /\ p.round = p0.round /\ p.withOutput = p0.withOutput
  BY <1>1, <1>2, ProcessEdit
<1>4. ProcessIs(r, m, p)
  BY <1>1 DEF ProcessIs
<1>5. Report(r, m, <<>>) /\ <<>> \in Seq(OutMsgs(m))
  BY NothingSent
<1>6. Made(p) = Made(p0)
  BY <1>3 DEF Made
<1>7. Made(p0) \in Nat
  BY <1>1, MadeIs
<1>8. Brings(m, <<>>, Made(module[r][m]), Made(p))
  BY <1>1, <1>6, <1>7, BringsQuiet
<1>9. Sends(r, m, p)
  BY <1>5, <1>8 DEF Sends
<1> QED BY <1>1, <1>3, <1>4, <1>9 DEF GoesOn

(* A process that only takes a message.                                    *)
LEMMA StayGoes ==
  ASSUME ProcessesOK, ChannelsOK, CountsOK, NEW r \in Ranks, NEW m \in Modules, UNCHANGED <<module, out>>
  PROVE  GoesOn(r, m, module[r][m].rest, module[r][m].prepared, module[r][m].round, {module[r][m].withOutput})
<1>1. module \in [Ranks -> ProcFuns]
  BY DEF ProcessesOK
<1>2. PICK f, p, t : f = module[r] /\ p = f[m] /\ t = p.rest
  OBVIOUS
<1>3. f \in [Modules -> UNION {Processes(n) : n \in Modules}] /\ p \in Processes(m) /\ t \in Rests(m)
  BY <1>1, <1>2 DEF ProcFuns, ProcOK, Processes
<1>4. [p EXCEPT !.rest = t] = p
  BY <1>2, <1>3 DEF Processes
<1>5. [f EXCEPT ![m] = p] = f
  BY <1>2, <1>3
<1>6. [module EXCEPT ![r] = f] = module
  BY <1>1, <1>2
<1>7. module' = [module EXCEPT ![r][m].rest = t]
  BY <1>2, <1>4, <1>5, <1>6
<1> QED BY <1>2, <1>3, <1>7, SyncGoes

(* The state of a process after a step.                                    *)
LEMMA GoesTo ==
  ASSUME ProcessesOK, NEW r \in Ranks, NEW m \in Modules, NEW t, NEW prepared, NEW n, NEW w,
         GoesOn(r, m, t, prepared, n, w), NEW p, p = module'[r][m]
  PROVE  /\ p.rest = t /\ p.prepared = prepared /\ p.round = n /\ p.withOutput \in w
         /\ t \in Closing \/ ~prepared => After(p) = 0
         /\ t \notin Closing /\ prepared => After(p) = 1
<1>1. PICK s : ProcessIs(r, m, s) /\ s.rest = t /\ s.prepared = prepared /\ s.round = n /\ s.withOutput \in w
  BY DEF GoesOn
<1>2. p = s
  BY <1>1, ProcessReplaced
<1> QED BY <1>1, <1>2 DEF After, One

(* A step of a process keeps track of the objects.                         *)
LEMMA GoesStreams ==
  ASSUME Steering, IInv, StreamsOK, NEW r \in Ranks, NEW m \in Modules,
         NEW t, NEW prepared, NEW n, NEW w, GoesOn(r, m, t, prepared, n, w),
         NEW q \in Seq(QueueMsgs(m)), QueueIs(r, m, q), mod' = mod, numObject' = numObject, ObjectsStay(r, m),
         m \in Fed => \A a, u, c, n2 : Streams(r, m, a, u, c, n2) => Fits(r, m, a, c, n2)',
         m \notin Fed /\ t \in Producing => w = {FALSE}
  PROVE  StreamsOK'
<1>1. ProcessesOK
  BY DEF IInv
<1>2. PICK p : ProcessIs(r, m, p) /\ Sends(r, m, p) /\ p.rest = t /\ p.withOutput \in w
  BY DEF GoesOn
<1>3. PICK msgs \in Seq(OutMsgs(m)) : Report(r, m, msgs) /\ Brings(m, msgs, Made(module[r][m]), Made(p))
  BY <1>2 DEF Sends
<1>4. ASSUME NEW k \in Ranks, NEW e \in Modules, <<k, e>> # <<r, m>>, NEW i \in ComputeInputs[e]
      PROVE  objects'[k][i] = objects[k][i]
  <2>1. i \in Inputs /\ ModuleOf[i] = e
    BY FedFacts
  <2> QED BY <1>4, <2>1 DEF ObjectsStay
<1>5. m \notin Fed => SourceReady(r, m)'
  <2>1. module'[r][m] = p
    BY <1>1, <1>2, ProcessReplaced
  <2> QED BY <1>2, <2>1 DEF SourceReady
<1> QED BY <1>2, <1>3, <1>4, <1>5, ReplacedStreams

(* Nothing happens to the objects at the inputs of a process.              *)
LEMMA ObjectsLeft ==
  ASSUME ProcessesOK, objects' = objects, NEW r \in Ranks, NEW m \in Modules
  PROVE  ObjectsStay(r, m)
BY DEF ProcessesOK, ObjectsStay

(* A step that leaves the objects fits if the orders do.                   *)
LEMMA FitsStill ==
  ASSUME NEW r \in Ranks, NEW m \in Fed, NEW a, NEW u, NEW c, NEW n, Streams(r, m, a, u, c, n),
         NEW q, NEW rd, NEW b, Left(r, m, q, a, u, c, n, rd, b, u),
         NEW p, module'[r][m] = p, p.round = rd, After(p) = b, p.prepared /\ u # rd => ~p.withOutput,
         queue'[r][m] = q, mod' = mod, numObject' = numObject, objects' = objects
  PROVE  Fits(r, m, a, c, n)'
<1>1. u \in Nat /\ \A i \in ComputeInputs[m] : \A k \in 1..Len(objects[r][i]) : objects[r][i][k] = u + k
  BY DEF Streams, Taken
<1>2. \A i \in ComputeInputs[m] :
        /\ u + Len(objects'[r][i]) = u + Len(objects[r][i])
        /\ \A k \in 1..Len(objects'[r][i]) : objects'[r][i][k] = u + k
  BY <1>1
<1> QED BY <1>1, <1>2, FitsThen

(* A process goes on.                                                      *)
LEMMA StageStreams ==
  ASSUME Steering, OneObject, IInv, CountsOK, StreamsOK, NEW r \in Ranks, NEW m \in Modules, Stage(r, m)
  PROVE  StreamsOK'
<1>1. ProcessesOK /\ ChannelsOK
  BY DEF IInv
<1>2. PICK p, stages, q : p = module[r][m] /\ stages = module[r][m].rest /\ q = queue[r][m]
  OBVIOUS
<1>3. /\ stages # <<>> /\ Head(stages) # "Sync" /\ Go(r, m, stages)
      /\ mod' = mod /\ numObject' = numObject /\ queue' = queue
  BY <1>2 DEF Stage, manager
<1>4. ProcOK(p, m) /\ stages \in Rests(m) /\ p.rest = stages
  BY <1>1, <1>2, ProcessFacts
<1>5. QueueIs(r, m, q) /\ q \in Seq(QueueMsgs(m))
  BY <1>1, <1>2, <1>3, QueueSame
<1>6. PICK n \in Nat : n = p.round
  BY <1>1, <1>2, ProcessFacts
<1>7. stages = <<"Finish">> \/ (m \notin Fed /\ stages = <<"Produce", "Sync", "Finish">>)
  BY <1>3, <1>4, StagesLeft DEF Rests, FedRests, SourceRests
<1>8. CASE stages = <<"Finish">>
  <2>1. Tail(stages) = <<>> /\ Head(stages) = "Finish"
    BY <1>8, StagesLeft
  <2>2. p.prepared /\ stages \in Closing
    BY <1>3, <1>4, <1>8 DEF ProcOK, Closing
  <2>3. Finish(r, m, [module[r][m] EXCEPT !.rest = <<>>])
    BY <1>3, <2>1 DEF Go
  <2>4. <<>> \in Rests(m) /\ <<>> \notin Producing
    BY DEF Rests, FedRests, SourceRests, Producing
  <2>5. GoesOn(r, m, <<>>, FALSE, n, BOOLEAN)
    BY <1>1, <1>2, <1>6, <2>2, <2>3, <2>4, FinishGoes
  <2>6. objects' = objects /\ ObjectsStay(r, m)
    <3>1. objects' = objects
      BY <2>3 DEF Finish
    <3> QED BY <1>1, <3>1, ObjectsLeft
  <2>7. ASSUME m \in Fed, NEW a, NEW u, NEW c, NEW n2, Streams(r, m, a, u, c, n2)
        PROVE  Fits(r, m, a, c, n2)'
    <3>1. PICK b : b = After(p)
      OBVIOUS
    <3>2. b = 0
      BY <1>4, <2>2, <3>1 DEF After
    <3>3. Left(r, m, q, a, u, c, n2, n, b, u)
      BY <1>2, <1>6, <2>7, <3>1, LeftAll
    <3>4. PICK s : s = module'[r][m]
      OBVIOUS
    <3>5. s.round = n /\ After(s) = b /\ ~s.prepared
      <4>1. PICK v, t : v = FALSE /\ t = <<>>
        OBVIOUS
      <4>2. GoesOn(r, m, t, v, n, BOOLEAN)
        BY <2>5, <4>1
      <4>3. s.prepared = v /\ s.round = n /\ (~v => After(s) = 0)
        BY ONLY <1>1, <3>4, <4>2, r \in Ranks, m \in Modules, GoesTo
      <4> QED BY <3>2, <4>1, <4>3
    <3>6. queue'[r][m] = q
      BY <1>2, <1>3
    <3> QED BY <1>3, <2>6, <2>7, <3>3, <3>4, <3>5, <3>6, FitsStill
  <2> QED BY <1>3, <1>5, <2>4, <2>5, <2>6, <2>7, GoesStreams
<1>9. CASE m \notin Fed /\ stages = <<"Produce", "Sync", "Finish">>
  <2>1. Tail(stages) = <<"Sync", "Finish">> /\ Head(stages) = "Produce"
    BY <1>9, StagesLeft
  <2>2. PICK t : t = <<"Sync", "Finish">>
    OBVIOUS
  <2>3. t \in Rests(m) /\ t \notin Producing
    <3>1. t \in Rests(m)
      BY <1>9, <2>2 DEF Rests, SourceRests
    <3>2. t[1] = "Sync" /\ t[2] = "Finish"
      BY <2>2
    <3>3. \A x \in Producing : x[1] # "Sync" \/ x[2] # "Finish"
      BY DEF Producing
    <3> QED BY <3>1, <3>2, <3>3
  <2>4. Produce(r, m, [module[r][m] EXCEPT !.rest = t])
    BY <1>3, <2>1, <2>2 DEF Go
  <2>5. p.prepared
    BY <1>3, <1>4, <1>9 DEF ProcOK
  <2>6. ~p.withOutput
    BY <1>2, <1>9 DEF StreamsOK, SourceReady, Producing
  <2>7. GoesOn(r, m, t, TRUE, n, BOOLEAN)
    BY <1>1, <1>2, <1>6, <2>3, <2>4, <2>5, <2>6, ProduceGoes
  <2>8. ObjectsStay(r, m)
    BY <1>1, <2>3, <2>4, ProduceDoes
  <2> QED BY <1>3, <1>5, <1>9, <2>3, <2>7, <2>8, GoesStreams
<1> QED BY <1>7, <1>8, <1>9

(* A process gets an object.                                               *)
LEMMA ReceiveObjectStreams ==
  ASSUME Steering, IInv, CountsOK, StreamsOK, NEW r \in Ranks, NEW m \in Modules, Receive(r, m),
         Head(queue[r][m]).type = "AddObject"
  PROVE  StreamsOK'
<1>1. ProcessesOK /\ ChannelsOK /\ LocalOK
  BY DEF IInv
<1>2. PICK x, q, j : x = Head(queue[r][m]) /\ q = Tail(queue[r][m]) /\ j = x.port
  OBVIOUS
<1>3. /\ module[r][m].rest = <<>> /\ queue[r][m] # <<>> /\ queue' = [queue EXCEPT ![r][m] = Tail(@)]
      /\ objects' = [objects EXCEPT ![r][j] = Append(@, x.round)]
      /\ UNCHANGED <<module, out>> /\ mod' = mod /\ numObject' = numObject
  BY <1>2 DEF Receive, manager
<1>4. q \in Seq(QueueMsgs(m)) /\ QueueIs(r, m, q) /\ x \in QueueMsgs(m)
  BY <1>1, <1>2, <1>3, QueueHead
<1>5. j \in Inputs /\ ModuleOf[j] = m /\ x.round \in Nat /\ x.type = "AddObject"
  BY <1>2, <1>4, QueueMsgFacts
<1>6. PICK y : y = Append(objects[r][j], x.round)
  OBVIOUS
<1>7. /\ objects \in [Ranks -> [Inputs -> Seq(Nat)]] /\ objects[r][j] \in Seq(Nat)
      /\ y \in Seq(Nat) /\ Len(y) = Len(objects[r][j]) + 1
      /\ \A k \in 1..Len(objects[r][j]) : y[k] = objects[r][j][k]
      /\ y[Len(objects[r][j]) + 1] = x.round
  <2>1. objects \in [Ranks -> [Inputs -> Seq(Nat)]] /\ objects[r][j] \in Seq(Nat)
    BY <1>1, <1>5 DEF ProcessesOK
  <2> QED BY <1>5, <1>6, <2>1, AppendProperties
<1>8. /\ objects' \in [Ranks -> [Inputs -> Seq(Nat)]] /\ objects'[r][j] = y
      /\ \A i \in Inputs : i # j => objects'[r][i] = objects[r][i]
      /\ \A k \in Ranks : k # r => objects'[k] = objects[k]
  <2>1. PICK g, h : g = objects[r] /\ h = [g EXCEPT ![j] = y]
    OBVIOUS
  <2>2. g \in [Inputs -> Seq(Nat)] /\ objects' = [objects EXCEPT ![r] = h]
    BY <1>3, <1>6, <1>7, <2>1
  <2>3. h \in [Inputs -> Seq(Nat)] /\ h[j] = y /\ \A i \in Inputs : i # j => h[i] = g[i]
    BY <1>5, <1>7, <2>1, <2>2
  <2> QED BY <1>7, <2>1, <2>2, <2>3
<1>9. ObjectsStay(r, m)
  BY <1>5, <1>8 DEF ObjectsStay
<1>10. PICK t, b, n, w : /\ t = module[r][m].rest /\ b = module[r][m].prepared /\ n = module[r][m].round
                         /\ w = {module[r][m].withOutput}
  OBVIOUS
<1>11. GoesOn(r, m, t, b, n, w)
  <2>1. UNCHANGED <<module, out>>
    BY <1>3
  <2> QED BY <1>1, <1>10, <2>1, StayGoes
<1>12. t \notin Producing
  BY <1>3, <1>10 DEF Producing
<1>13. queue'[r][m] = q
  BY <1>1, <1>4, QueueUpdate
<1>14. ASSUME m \in Fed, NEW a, NEW u, NEW c, NEW n2, Streams(r, m, a, u, c, n2)
       PROVE  Fits(r, m, a, c, n2)'
  <2>1. /\ a \in [Inputs -> Nat] /\ u \in Nat /\ Taken(r, m, u)
        /\ Given(r, m, queue[r][m], numObject[r], One(mod[r][m].prepared), a, u, c, n2)
    BY <1>14 DEF Streams
  <2>2. PICK v, y0, y2 : /\ v = queue[r][m] /\ y0 = Phase(module[r][m].round, After(module[r][m]), u)
                         /\ y2 = Phase(n2, One(mod[r][m].prepared), c)
    OBVIOUS
  <2>3. /\ v \in Seq(QueueMsgs(m)) /\ v # <<>> /\ Walk(v, y0, y2, PhasesIn(QueueMsgs(m)))
        /\ Head(v) = x /\ Tail(v) = q
    BY <1>1, <1>2, <1>3, <2>1, <2>2 DEF Given, ChannelsOK, QueueFuns, Queues
  <2>4. Walk(q, y0, y2, PhasesIn(QueueMsgs(m)))
    <3>1. PICK z \in Nat : <<y0, Head(v), z>> \in PhasesIn(QueueMsgs(m)) /\ Walk(Tail(v), z, y2, PhasesIn(QueueMsgs(m)))
      BY ONLY <2>3, WalkHead
    <3>2. Phases(y0, x, z)
      BY <2>3, <3>1, PhasesIff
    <3>3. z = y0
      BY <1>5, <3>2 DEF Phases
    <3> QED BY <2>3, <3>1, <3>3
  <2>5. ASSUME NEW i \in ComputeInputs[m]
        PROVE  /\ Walk(q, u + Len(objects'[r][i]), a[i], AddsIn(QueueMsgs(m), i))
               /\ \A k \in 1..Len(objects'[r][i]) : objects'[r][i][k] = u + k
    <3>1. i \in Inputs /\ objects[r][i] \in Seq(Nat)
      BY <1>7, FedFacts
    <3>2. PICK l \in Nat, k0 \in Nat : l = Len(objects[r][i]) /\ k0 = u + l
      BY <2>1, <3>1
    <3>3. PICK z, R : z = a[i] /\ R = AddsIn(QueueMsgs(m), i)
      OBVIOUS
    <3>4. Walk(v, k0, z, R)
      BY <2>1, <2>2, <3>2, <3>3 DEF Given
    <3>5. PICK k1 \in Nat : <<k0, Head(v), k1>> \in R /\ Walk(Tail(v), k1, z, R)
      BY ONLY <2>3, <3>4, WalkHead
    <3>6. Adds(k0, x, k1, i)
      BY <2>3, <3>3, <3>5, AddsIff
    <3>7. \A k \in 1..l : objects[r][i][k] = u + k
      BY <2>1, <3>2 DEF Taken
    <3>8. CASE i = j
      <4>1. k1 = k0 + 1 /\ x.round = k1
        BY <1>2, <1>5, <3>6, <3>8 DEF Adds
      <4>2. objects'[r][i] = y /\ Len(y) = l + 1 /\ y[l + 1] = k1 /\ \A k \in 1..l : y[k] = u + k
        BY <1>7, <1>8, <3>2, <3>7, <3>8, <4>1
      <4>3. u + (l + 1) = k1
        BY <2>1, <3>2, <4>1
      <4>4. \A k \in 1..(l + 1) : y[k] = u + k
        <5>1. \A k \in 1..(l + 1) : k \in 1..l \/ k = l + 1
          BY ONLY l \in Nat
        <5> QED BY <4>2, <4>3, <5>1
      <4> QED BY <2>3, <3>3, <3>5, <4>2, <4>3, <4>4
    <3>9. CASE i # j
      <4>1. k1 = k0
        BY <3>6, <3>9, <1>2 DEF Adds
      <4>2. objects'[r][i] = objects[r][i]
        BY <1>8, <3>1, <3>9
      <4> QED BY <2>3, <3>2, <3>3, <3>5, <3>7, <4>1, <4>2
    <3> QED BY <3>8, <3>9
  <2>6. Given(r, m, queue[r][m], numObject[r], One(mod[r][m].prepared), a, u, c, n2)'
    BY <1>3, <1>13, <2>1, <2>2, <2>4, <2>5 DEF Given
  <2>7. Taken(r, m, u)'
    BY <1>3, <2>1, <2>5 DEF Taken
  <2> QED BY <2>1, <2>6, <2>7 DEF Fits
<1> QED BY <1>3, <1>4, <1>9, <1>11, <1>12, <1>14, GoesStreams

(* A source is told to execute.                                            *)
LEMMA ReceiveSourceStreams ==
  ASSUME Steering, IInv, CountsOK, StreamsOK, NEW r \in Ranks, NEW m \in Modules, Receive(r, m),
         Head(queue[r][m]).type # "AddObject", m \notin Fed
  PROVE  StreamsOK'
<1>1. ProcessesOK /\ ChannelsOK /\ LocalOK
  BY DEF IInv
<1>2. PICK x, q, p : x = Head(queue[r][m]) /\ q = Tail(queue[r][m]) /\ p = module[r][m]
  OBVIOUS
<1>3. /\ p.rest = <<>> /\ queue[r][m] # <<>> /\ queue' = [queue EXCEPT ![r][m] = Tail(@)]
      /\ SchedulingPolicy[m] = "Ignore" => UNCHANGED <<process, out>>
      /\ SchedulingPolicy[m] # "Ignore" => Go(r, m, Stages(x.type, m))
      /\ mod' = mod /\ numObject' = numObject
  BY <1>2 DEF Receive, manager
<1>4. x \in QueueMsgs(m) /\ q \in Seq(QueueMsgs(m)) /\ QueueIs(r, m, q)
  BY <1>1, <1>2, <1>3, QueueHead
<1>5. x.type = "ComputeExecute" /\ x.module = m
  BY <1>2, <1>4, QueueMsgFacts
<1>6. ~p.prepared
  <2>1. ProcOK(p, m)
    BY <1>1, <1>2, ProcessFacts
  <2> QED BY <1>3, <2>1 DEF ProcOK
<1>7. CASE SchedulingPolicy[m] = "Ignore"
  <2>1. UNCHANGED <<module, out>> /\ objects' = objects
    BY <1>3, <1>7 DEF process
  <2>2. PICK t, b, n, w : /\ t = module[r][m].rest /\ b = module[r][m].prepared /\ n = module[r][m].round
                          /\ w = {module[r][m].withOutput}
    OBVIOUS
  <2>3. UNCHANGED <<module, out>>
    BY <2>1
  <2>4. GoesOn(r, m, t, b, n, w)
    BY <1>1, <2>2, <2>3, StayGoes
  <2>5. t \notin Producing
    <3>1. t = <<>>
      BY <1>2, <1>3, <2>2
    <3> QED BY ONLY <3>1 DEF Producing
  <2>6. ObjectsStay(r, m)
    BY <1>1, <2>1, ObjectsLeft
  <2> QED BY <1>3, <1>4, <2>4, <2>5, <2>6, GoesStreams
<1>8. CASE SchedulingPolicy[m] # "Ignore"
  <2>1. PICK stages : stages = Stages(x.type, m)
    OBVIOUS
  <2>2. stages \in {<<"Start", "Produce", "Sync", "Finish">>, <<"Start", "Sync", "Produce", "Sync", "Finish">>}
    BY <1>5, <2>1, StagesFacts
  <2>3. PICK t : t = Tail(stages)
    OBVIOUS
  <2>4. Head(stages) = "Start" /\ t \in Rests(m)
    <3>1. /\ <<"Produce", "Sync", "Finish">> \in Rests(m)
          /\ <<"Sync", "Produce", "Sync", "Finish">> \in Rests(m)
      BY DEF Rests, SourceRests
    <3>2. CASE stages = <<"Start", "Produce", "Sync", "Finish">>
      BY <2>3, <3>1, <3>2
    <3>3. CASE stages = <<"Start", "Sync", "Produce", "Sync", "Finish">>
      BY <2>3, <3>1, <3>3
    <3> QED BY <2>2, <3>2, <3>3
  <2>5. Start(r, m, [module[r][m] EXCEPT !.rest = t])
    BY <1>3, <1>8, <2>1, <2>3, <2>4 DEF Go
  <2>6. PICK n, w, b : n = module[r][m].round + 1 /\ w = {FALSE} /\ b = TRUE
    OBVIOUS
  <2>7. GoesOn(r, m, t, b, n, w)
    BY <1>1, <1>2, <1>6, <2>4, <2>5, <2>6, StartGoes
  <2>8. ObjectsStay(r, m)
    <3>1. objects' = objects
      BY <2>5 DEF Start
    <3> QED BY <1>1, <3>1, ObjectsLeft
  <2> QED BY <1>3, <1>4, <2>6, <2>7, <2>8, GoesStreams
<1> QED BY <1>7, <1>8

(* A module downstream is told to start, to compute, or to finish.         *)
LEMMA ReceiveOrderStreams ==
  ASSUME Steering, OneObject, IInv, CountsOK, StreamsOK, NEW r \in Ranks, NEW m \in Modules, Receive(r, m),
         Head(queue[r][m]).type # "AddObject", m \in Fed
  PROVE  StreamsOK'
<1>1. ProcessesOK /\ ChannelsOK /\ LocalOK /\ ModuleReady
  BY ReadyFromInv DEF IInv
<1>2. PICK x, q, p : x = Head(queue[r][m]) /\ q = Tail(queue[r][m]) /\ p = module[r][m]
  OBVIOUS
<1>3. /\ p.rest = <<>> /\ queue[r][m] # <<>> /\ queue' = [queue EXCEPT ![r][m] = Tail(@)]
      /\ Go(r, m, Stages(x.type, m))
      /\ mod' = mod /\ numObject' = numObject
  <2>1. SchedulingPolicy[m] # "Ignore"
    BY DEF Steering
  <2> QED BY <1>2, <2>1 DEF Receive, manager
<1>4. x \in QueueMsgs(m) /\ q \in Seq(QueueMsgs(m)) /\ QueueIs(r, m, q)
  BY <1>1, <1>2, <1>3, QueueHead
<1>5. x.type \in {"Prepare", "Reduce", "ComputeObject"} /\ x.module = m /\ x.type # "AddObject"
  BY <1>2, <1>4, QueueMsgFacts
<1>6. queue'[r][m] = q
  BY <1>1, <1>4, QueueUpdate
<1>7. /\ x.type = "Prepare" => ~p.prepared
      /\ x.type = "Reduce" => p.prepared
      /\ x.type = "ComputeObject" => p.prepared /\ \A i \in ComputeInputs[m] : objects[r][i] # <<>>
  BY <1>1, <1>2, <1>3 DEF ModuleReady, Handles
<1>8. PICK rd \in Nat : rd = p.round
  BY <1>1, <1>2, ProcessFacts
<1>9. PICK b0 : b0 = After(p)
  OBVIOUS
<1>10. <<>> \notin Closing /\ <<>> \in Rests(m)
  BY DEF Closing, Rests, FedRests, SourceRests
<1>11. ASSUME NEW a, NEW u, NEW c, NEW n, Streams(r, m, a, u, c, n)
       PROVE  /\ x.type = "Prepare" => b0 = 0 /\ u = rd /\ Left(r, m, q, a, u, c, n, rd + 1, 1, u)
              /\ x.type = "ComputeObject" => b0 = 1 /\ u + 1 = rd /\ Left(r, m, q, a, u, c, n, rd, 1, u + 1)
              /\ x.type = "Reduce" => b0 = 1 /\ u = rd /\ Left(r, m, q, a, u, c, n, rd, 0, u)
  <2>1. /\ rd = module[r][m].round /\ b0 = After(module[r][m]) /\ x = Head(queue[r][m]) /\ q = Tail(queue[r][m])
        /\ x.type # "AddObject" /\ queue[r][m] # <<>>
    BY <1>2, <1>3, <1>5, <1>8, <1>9
  <2>2. IInv /\ m \in Fed
    OBVIOUS
  <2>3. OrderLeft(r, m, q, a, u, c, n, rd, b0, x)
    BY ONLY <1>11, <2>1, <2>2, r \in Ranks, LeftOrder
  <2> QED BY ONLY <2>3 DEF OrderLeft
<1>12. PICK stages, t : stages = Stages(x.type, m) /\ t = Tail(stages)
  OBVIOUS
<1>13. PICK s : s = module'[r][m]
  OBVIOUS
<1>14. CASE x.type = "Prepare"
  <2>1. stages \in {<<"Start">>, <<"Start", "Sync">>}
    BY <1>12, <1>14, StagesFacts
  <2>2. Head(stages) = "Start" /\ t \in Rests(m) /\ t \notin Closing
    <3>1. <<"Sync">> \in Rests(m) /\ <<"Sync">> \notin Closing
      BY DEF Rests, FedRests, Closing
    <3>2. CASE stages = <<"Start">>
      BY <1>10, <1>12, <3>2
    <3>3. CASE stages = <<"Start", "Sync">>
      BY <1>12, <3>1, <3>3
    <3> QED BY <2>1, <3>2, <3>3
  <2>3. Start(r, m, [module[r][m] EXCEPT !.rest = t])
    BY <1>3, <1>12, <2>2 DEF Go
  <2>4. PICK n0, v, w, b : n0 = module[r][m].round + 1 /\ v = TRUE /\ w = {FALSE} /\ b = 1
    OBVIOUS
  <2>5. GoesOn(r, m, t, v, n0, w)
    BY <1>1, <1>2, <1>7, <1>14, <2>2, <2>3, <2>4, StartGoes
  <2>6. objects' = objects
    BY <2>3 DEF Start
  <2>7. ObjectsStay(r, m)
    BY <1>1, <2>6, ObjectsLeft
  <2>8. s.round = n0 /\ After(s) = b /\ ~s.withOutput
    <3>1. s.round = n0 /\ s.withOutput \in w /\ (t \notin Closing /\ v => After(s) = 1)
      BY ONLY <1>1, <1>13, <2>5, r \in Ranks, m \in Modules, GoesTo
    <3> QED BY <2>2, <2>4, <3>1
  <2>9. ASSUME m \in Fed, NEW a, NEW u, NEW c, NEW n, Streams(r, m, a, u, c, n)
        PROVE  Fits(r, m, a, c, n)'
    <3>1. Left(r, m, q, a, u, c, n, n0, b, u)
      BY <1>2, <1>8, <1>11, <1>14, <2>4, <2>9
    <3> QED BY <1>3, <1>6, <1>13, <2>6, <2>8, <2>9, <3>1, FitsStill
  <2> QED BY <1>3, <1>4, <2>5, <2>7, <2>9, GoesStreams
<1>15. CASE x.type = "Reduce"
  <2>1. stages \in {<<"Finish">>, <<"Sync", "Finish">>}
    BY <1>12, <1>15, StagesFacts
  <2>2. PICK t2, v, w : GoesOn(r, m, t2, v, rd, w) /\ (t2 \in Closing \/ ~v) /\ objects' = objects
    <3>1. CASE stages = <<"Finish">>
      <4>1. Head(stages) = "Finish" /\ t = <<>>
        BY <1>12, <3>1, StagesLeft
      <4>2. Finish(r, m, [module[r][m] EXCEPT !.rest = t])
        BY <1>3, <1>12, <4>1 DEF Go
      <4>3. GoesOn(r, m, t, FALSE, module[r][m].round, BOOLEAN)
        BY <1>1, <1>2, <1>7, <1>10, <1>15, <4>1, <4>2, FinishGoes
      <4>4. objects' = objects
        BY <4>2 DEF Finish
      <4> QED BY <1>2, <1>8, <4>3, <4>4
    <3>2. CASE stages = <<"Sync", "Finish">>
      <4>1. Head(stages) = "Sync"
        BY <3>2, StagesLeft
      <4>2. stages \in Rests(m) /\ stages \in Closing
        BY <3>2 DEF Rests, FedRests, Closing
      <4>3. module' = [module EXCEPT ![r][m].rest = stages] /\ out' = out /\ objects' = objects
        BY <1>3, <1>12, <4>1 DEF Go
      <4>4. GoesOn(r, m, stages, module[r][m].prepared, module[r][m].round, {module[r][m].withOutput})
        BY <1>1, <4>2, <4>3, SyncGoes
      <4> QED BY <1>2, <1>8, <4>2, <4>3, <4>4
    <3> QED BY <2>1, <3>1, <3>2
  <2>3. ObjectsStay(r, m)
    BY <1>1, <2>2, ObjectsLeft
  <2>4. PICK b : b = 0
    OBVIOUS
  <2>5. s.round = rd /\ After(s) = b
    <3>1. s.round = rd /\ (t2 \in Closing \/ ~v => After(s) = 0)
      BY ONLY <1>1, <1>13, <2>2, r \in Ranks, m \in Modules, GoesTo
    <3> QED BY <2>2, <2>4, <3>1
  <2>6. ASSUME m \in Fed, NEW a, NEW u, NEW c, NEW n, Streams(r, m, a, u, c, n)
        PROVE  Fits(r, m, a, c, n)'
    <3>1. Left(r, m, q, a, u, c, n, rd, b, u) /\ u = rd
      BY <1>11, <1>15, <2>4, <2>6
    <3> QED BY <1>3, <1>6, <1>13, <2>2, <2>5, <2>6, <3>1, FitsStill
  <2> QED BY <1>3, <1>4, <2>2, <2>3, <2>6, GoesStreams
<1>16. CASE x.type = "ComputeObject"
  <2>1. Head(stages) = "Compute" /\ t = <<>>
    BY <1>12, <1>16, StagesFacts, StagesBegin
  <2>2. t \in Rests(m) /\ t \notin Closing
    BY <1>10, <2>1
  <2>3. Compute(r, m, [module[r][m] EXCEPT !.rest = t])
    BY <1>3, <1>12, <2>1 DEF Go
  <2>4. ~p.withOutput
    <3>1. PICK a, u, c, n : Streams(r, m, a, u, c, n)
      BY DEF StreamsOK
    <3>2. u \in Nat /\ u + 1 = rd
      BY <1>11, <1>16, <3>1 DEF Streams
    <3>3. p.prepared /\ u # rd => ~p.withOutput
      BY <1>2, <1>8, <3>1 DEF Streams, Taken
    <3> QED BY <1>7, <1>16, <3>2, <3>3
  <2>5. GoesOn(r, m, t, TRUE, module[r][m].round, BOOLEAN)
    BY <1>1, <1>2, <1>7, <1>16, <2>2, <2>3, <2>4, ComputeGoes
  <2>6. /\ ObjectsStay(r, m)
        /\ \A i \in ComputeInputs[m] :
             objects'[r][i] = IF objects[r][i] # <<>> THEN Tail(objects[r][i]) ELSE objects[r][i]
    BY <1>1, <2>2, <2>3, ComputeDoes
  <2>7. PICK v, w, b : v = TRUE /\ w = BOOLEAN /\ b = 1
    OBVIOUS
  <2>8. GoesOn(r, m, t, v, rd, w)
    BY <1>2, <1>8, <2>5, <2>7
  <2>9. s.round = rd /\ After(s) = b
    <3>1. s.round = rd /\ (t \notin Closing /\ v => After(s) = 1)
      BY ONLY <1>1, <1>13, <2>8, r \in Ranks, m \in Modules, GoesTo
    <3> QED BY <2>2, <2>7, <3>1
  <2>10. ASSUME m \in Fed, NEW a, NEW u, NEW c, NEW n, Streams(r, m, a, u, c, n)
         PROVE  Fits(r, m, a, c, n)'
    <3>1. u \in Nat /\ u + 1 = rd
      BY <1>11, <1>16, <2>10 DEF Streams
    <3>2. PICK u2 \in Nat : u2 = u + 1
      BY <3>1
    <3>3. Left(r, m, q, a, u, c, n, rd, b, u2) /\ u2 = rd
      BY <1>11, <1>16, <2>7, <2>10, <3>1, <3>2
    <3>4. ASSUME NEW i \in ComputeInputs[m]
          PROVE  /\ u2 + Len(objects'[r][i]) = u + Len(objects[r][i])
                 /\ \A k \in 1..Len(objects'[r][i]) : objects'[r][i][k] = u2 + k
      <4>1. PICK y, z : y = objects[r][i] /\ z = objects'[r][i]
        OBVIOUS
      <4>2. i \in Inputs
        BY FedFacts
      <4>3. y \in Seq(Nat) /\ y # <<>> /\ z = Tail(y)
        BY <1>1, <1>7, <1>16, <2>6, <4>1, <4>2 DEF ProcessesOK
      <4>4. PICK l \in Nat : l = Len(z)
        BY <4>3
      <4>5. Len(y) = l + 1 /\ \A k \in 1..l : z[k] = y[k + 1] /\ k + 1 \in 1..(l + 1)
        BY <4>3, <4>4, HeadTailProperties
      <4>6. \A k \in 1..(l + 1) : y[k] = u + k
        BY <2>10, <4>1, <4>5 DEF Streams, Taken
      <4>7. \A k \in 1..l : z[k] = u2 + k
        <5>1. ASSUME NEW k \in 1..l PROVE z[k] = u2 + k
          <6>1. z[k] = u + (k + 1)
            BY <4>5, <4>6
          <6> QED BY <3>1, <3>2, <6>1
        <5> QED BY <5>1
      <4>8. u2 + l = u + (l + 1)
        BY <3>1, <3>2
      <4> QED BY <4>1, <4>4, <4>5, <4>7, <4>8
    <3> QED BY <1>3, <1>6, <1>13, <2>9, <2>10, <3>3, <3>4, FitsThen
  <2> QED BY <1>3, <1>4, <2>6, <2>8, <2>10, GoesStreams
<1> QED BY <1>5, <1>14, <1>15, <1>16

(* A process handles a message.                                            *)
LEMMA ReceiveStreams ==
  ASSUME Steering, OneObject, IInv, CountsOK, StreamsOK, NEW r \in Ranks, NEW m \in Modules, Receive(r, m)
  PROVE  StreamsOK'
<1>1. CASE Head(queue[r][m]).type = "AddObject"
  BY <1>1, ReceiveObjectStreams
<1>2. CASE Head(queue[r][m]).type # "AddObject" /\ m \notin Fed
  BY <1>2, ReceiveSourceStreams
<1>3. CASE Head(queue[r][m]).type # "AddObject" /\ m \in Fed
  BY <1>3, ReceiveOrderStreams
<1> QED BY <1>1, <1>2, <1>3

(* The stages of a source, when it has yet to produce after a Sync.        *)
LEMMA ProducingTail ==
  ASSUME NEW m \in Modules, NEW s \in Rests(m), s # <<>>, Head(s) = "Sync", NEW t, t = Tail(s), t \in Producing
  PROVE  s \in Producing
<1>1. s \in {<<>>, <<"Sync">>, <<"Finish">>, <<"Sync", "Finish">>, <<"Produce", "Sync", "Finish">>,
             <<"Sync", "Produce", "Sync", "Finish">>}
  BY DEF Rests, FedRests, SourceRests
<1>2. t = <<"Produce", "Sync", "Finish">> \/ t = <<"Sync", "Produce", "Sync", "Finish">>
  BY DEF Producing
<1>3. Len(t) >= 3
  BY <1>2
<1>4. Len(t) = Len(s) - 1
  BY <1>1
<1>5. s = <<"Sync", "Produce", "Sync", "Finish">>
  BY <1>1, <1>3, <1>4
<1> QED BY <1>5 DEF Producing

(* All ranks of a module go on: it takes no step.                          *)
LEMMA SyncStreams ==
  ASSUME Steering, IInv, StreamsOK, NEW m \in Modules, Sync(m)
  PROVE  StreamsOK'
<1>1. ProcessesOK
  BY DEF IInv
<1>2. /\ mod' = mod /\ numObject' = numObject /\ queue' = queue /\ out' = out /\ objects' = objects
  BY DEF Sync, manager
<1>3. module \in [Ranks -> ProcFuns]
  BY <1>1 DEF ProcessesOK
<1>4. ASSUME NEW r \in Ranks, NEW e \in Modules
      PROVE  /\ module'[r][e].prepared = module[r][e].prepared /\ module'[r][e].round = module[r][e].round
             /\ module'[r][e].withOutput = module[r][e].withOutput
             /\ e \in Fed => After(module'[r][e]) = After(module[r][e])
             /\ module'[r][e].rest \in Producing => module[r][e].rest \in Producing
  <2>1. PICK f, g, s, t : /\ f = module[r] /\ t = Tail(f[m].rest) /\ s = [f[m] EXCEPT !.rest = t]
                          /\ g = [f EXCEPT ![m] = s]
    OBVIOUS
  <2>2. module'[r] = g
    BY <2>1 DEF Sync
  <2>3. /\ f \in [Modules -> UNION {Processes(d) : d \in Modules}]
        /\ \A d \in Modules : ProcOK(f[d], d)
    BY <1>3, <2>1 DEF ProcFuns
  <2>4. f[m].rest # <<>> /\ Head(f[m].rest) = "Sync"
    BY <2>1 DEF Sync
  <2>5. s.prepared = f[m].prepared /\ (m \in Fed => After(s) = After(f[m]))
    BY <2>1, <2>3, <2>4, SyncProcess
  <2>6. f[m] \in Processes(m) /\ f[m].rest \in Rests(m)
    BY <2>3 DEF ProcOK, Processes
  <2>7. s.round = f[m].round /\ s.withOutput = f[m].withOutput /\ s.rest = t
    BY <2>1, <2>6 DEF Processes
  <2>8. t \in Producing => f[m].rest \in Producing
    BY <2>1, <2>4, <2>6, ProducingTail
  <2>9. g[m] = s /\ \A d \in Modules : d # m => g[d] = f[d]
    BY ONLY <2>1, <2>3, m \in Modules
  <2>10. CASE e = m
    BY <2>1, <2>2, <2>5, <2>7, <2>8, <2>9, <2>10
  <2>11. CASE e # m
    BY <2>1, <2>2, <2>9, <2>11
  <2> QED BY <2>10, <2>11
<1>5. ASSUME NEW r \in Ranks, NEW e \in Modules PROVE Made(module'[r][e]) = Made(module[r][e])
  BY <1>4 DEF Made
<1>6. ASSUME NEW r \in Ranks, NEW d \in Fed PROVE \E a, u, c, n : Streams(r, d, a, u, c, n)'
  <2>1. PICK a, u, c, n : Streams(r, d, a, u, c, n)
    BY DEF StreamsOK
  <2>2. d \in Modules /\ \A i \in ComputeInputs[d] : Feeder(i) \in Modules
    BY FedFacts, FeederFacts
  <2>3. Given(r, d, queue[r][d], numObject[r], One(mod[r][d].prepared), a, u, c, n)'
    BY <1>2, <1>4, <2>1, <2>2 DEF Streams, Given
  <2>4. Taken(r, d, u)'
    BY <1>2, <1>4, <2>1, <2>2 DEF Streams, Taken
  <2>5. Comes(r, d, a)'
    BY <1>2, <1>5, <2>1, <2>2 DEF Streams, Comes
  <2>6. Streams(r, d, a, u, c, n)'
    BY <1>2, <2>1, <2>3, <2>4, <2>5 DEF Streams
  <2> QED BY <2>6
<1>7. \A r \in Ranks, e \in Modules \ Fed : SourceReady(r, e)'
  BY <1>4 DEF StreamsOK, SourceReady
<1> QED BY <1>6, <1>7 DEF StreamsOK

(* The beginning: there are no objects and no steps.                       *)
LEMMA StreamsInit ==
  ASSUME Steering, Init
  PROVE  StreamsOK
<1>1. PICK zero : zero = [i \in Inputs |-> 0]
  OBVIOUS
<1>2. zero \in [Inputs -> Nat] /\ \A i \in Inputs : zero[i] = 0
  BY <1>1
<1>3. \A R : Walk(<<>>, 0, 0, R)
  BY WalkEmpty
<1>4. One(FALSE) = 0 /\ Phase(0, 0, 0) = 0 /\ Progressed(0, 0, 0) /\ Len(<<>>) = 0 /\ 0 + 0 = 0
  BY DEF One, Phase, Progressed
<1>5. ASSUME NEW r \in Ranks, NEW m \in Modules
      PROVE  /\ queue[r][m] = <<>> /\ out[r][m] = <<>> /\ mod[r][m].prepared = FALSE
             /\ module[r][m].prepared = FALSE /\ module[r][m].round = 0 /\ module[r][m].rest = <<>>
             /\ After(module[r][m]) = 0 /\ Made(module[r][m]) = 0
  <2>1. /\ queue[r][m] = <<>> /\ out[r][m] = <<>> /\ mod[r][m].prepared = FALSE
        /\ module[r][m].prepared = FALSE /\ module[r][m].round = 0 /\ module[r][m].rest = <<>>
    BY DEF Init, Flags
  <2>2. After(module[r][m]) = 0
    BY <1>4, <2>1 DEF After, Closing
  <2>3. Made(module[r][m]) = 0
    <3>1. PICK p : p = module[r][m]
      OBVIOUS
    <3>2. One(p.prepared /\ ~p.withOutput) = 0
      BY <2>1, <3>1 DEF One
    <3>3. 0 - 0 = 0
      OBVIOUS
    <3> QED BY <2>1, <3>1, <3>2, <3>3 DEF Made
  <2> QED BY <2>1, <2>2, <2>3
<1>6. \A r \in Ranks, i \in Inputs : numObject[r][i] = 0 /\ objects[r][i] = <<>>
  BY DEF Init
<1>7. ASSUME NEW r \in Ranks, NEW d \in Fed PROVE \E a, u, c, n : Streams(r, d, a, u, c, n)
  <2>1. d \in Modules /\ \A i \in ComputeInputs[d] : i \in Inputs /\ Feeder(i) \in Modules
    BY FedFacts, FeederFacts
  <2>2. Given(r, d, queue[r][d], numObject[r], One(mod[r][d].prepared), zero, 0, 0, 0)
    <3>1. PICK z, w, b : z = 0 /\ w = queue[r][d] /\ b = One(mod[r][d].prepared)
      OBVIOUS
    <3>2. b = z /\ z + z = z /\ Phase(z, z, z) = z /\ Progressed(z, b, z) /\ After(module[r][d]) = z
          /\ module[r][d].round = z /\ w = <<>> /\ \A R : Walk(w, z, z, R)
      BY <1>3, <1>4, <1>5, <2>1, <3>1
    <3>3. Walk(w, Phase(module[r][d].round, After(module[r][d]), z), Phase(z, b, z), PhasesIn(QueueMsgs(d)))
      BY ONLY <3>2
    <3>4. ASSUME NEW i \in ComputeInputs[d]
          PROVE  /\ numObject[r][i] + z = zero[i]
                 /\ Walk(w, z + Len(objects[r][i]), zero[i], AddsIn(QueueMsgs(d), i))
      <4>1. numObject[r][i] = z /\ zero[i] = z /\ Len(objects[r][i]) = z
        BY <1>2, <1>4, <1>6, <2>1, <3>1
      <4> QED BY ONLY <3>2, <4>1
    <3>5. Given(r, d, w, numObject[r], b, zero, z, z, z)
      BY <3>2, <3>3, <3>4 DEF Given
    <3> QED BY <3>1, <3>5
  <2>3. Waits(d, numObject[r], 0, 0)
    BY DEF Waits
  <2>4. Taken(r, d, 0)
    <3>1. PICK p, z : p = module[r][d] /\ z = 0
      OBVIOUS
    <3>2. p.round = z /\ After(p) = z /\ p.prepared = FALSE /\ Progressed(z, z, z)
      BY <1>4, <1>5, <2>1, <3>1
    <3>3. ASSUME NEW i \in ComputeInputs[d], NEW k \in 1..Len(objects[r][i]) PROVE objects[r][i][k] = z + k
      <4>1. Len(objects[r][i]) = 0 /\ 1..0 = {}
        BY <1>4, <1>6, <2>1
      <4> QED BY <3>3, <4>1
    <3>4. Taken(r, d, z)
      BY <3>1, <3>2, <3>3 DEF Taken
    <3> QED BY <3>1, <3>4
  <2>5. Comes(r, d, zero)
    BY <1>2, <1>3, <1>5, <2>1 DEF Comes
  <2>6. Streams(r, d, zero, 0, 0, 0)
    BY <1>2, <2>2, <2>3, <2>4, <2>5 DEF Streams
  <2> QED BY <2>6
<1>8. \A r \in Ranks, m \in Modules \ Fed : SourceReady(r, m)
  <2>1. <<>> \notin Producing
    BY DEF Producing
  <2> QED BY <1>5, <2>1 DEF SourceReady
<1> QED BY <1>7, <1>8 DEF StreamsOK

(* The objects and the orders of every module are kept in step.            *)
LEMMA NextStreams ==
  ASSUME Steering, OneObject, IInv, CountsOK, StreamsOK, [Next]_vars
  PROVE  StreamsOK'
<1>1. ASSUME NEW r \in Ranks, HandleBroadcast(r) PROVE StreamsOK'
  BY <1>1, BroadcastStreams
<1>2. ASSUME NEW r \in Ranks, HandleForwarded(r) PROVE StreamsOK'
  <2>1. queue' = queue /\ module' = module /\ objects' = objects /\ mod' = mod /\ numObject' = numObject /\ out' = out
    BY <1>2 DEF HandleForwarded, process, manager
  <2> QED BY <2>1, StreamsSame
<1>3. CASE HandleOwn
  BY <1>3, NoRequest
<1>4. ASSUME NEW r \in Ranks, NEW m \in Modules, HandleAddObject(r, m) PROVE StreamsOK'
  BY <1>4, AddObjectStreams
<1>5. ASSUME NEW r \in Ranks, NEW m \in Modules, HandleProgress(r, m) PROVE StreamsOK'
  BY <1>5, ProgressStreams
<1>6. ASSUME NEW r \in Ranks, NEW m \in Modules, Receive(r, m) PROVE StreamsOK'
  BY <1>6, ReceiveStreams
<1>7. ASSUME NEW r \in Ranks, NEW m \in Modules, Stage(r, m) PROVE StreamsOK'
  BY <1>7, StageStreams
<1>8. ASSUME NEW m \in Modules, Sync(m) PROVE StreamsOK'
  BY <1>8, SyncStreams
<1>9. ASSUME NEW m \in Modules, UserExecute(m) PROVE StreamsOK'
  <2>1. queue' = queue /\ module' = module /\ objects' = objects /\ mod' = mod /\ numObject' = numObject /\ out' = out
    BY <1>9 DEF UserExecute, process, manager
  <2> QED BY <2>1, StreamsSame
<1>10. CASE UNCHANGED vars
  <2>1. queue' = queue /\ module' = module /\ objects' = objects /\ mod' = mod /\ numObject' = numObject /\ out' = out
    BY <1>10 DEF vars, process, manager
  <2> QED BY <2>1, StreamsSame
<1> QED BY <1>1, <1>2, <1>3, <1>4, <1>5, <1>6, <1>7, <1>8, <1>9, <1>10 DEF Next, SystemStep, Terminated

(* The objects at every input are numbered one by one, from what a module  *)
(* has made to what the modules downstream have computed.                  *)
THEOREM StreamsInvariance ==
  ASSUME Steering, ~Overlap, OneObject
  PROVE  Spec => []StreamsOK
<1>1. Init => StreamsOK
  BY StreamsInit
<1>2. IInv /\ CountsOK /\ StreamsOK /\ [Next]_vars => StreamsOK'
  BY NextStreams
<1> QED BY <1>1, <1>2, Invariance, CountsInvariance, PTL DEF Spec

(* SameExecution: with one object for each execution, a module computes    *)
(* the objects of the nth execution of all modules upstream the nth time   *)
(* that it executes, on every rank.                                        *)
THEOREM SameObjects ==
  ASSUME Steering, ~Overlap, OneObject
  PROVE  Spec => []SameExecution
<1>1. IInv /\ StreamsOK => SameExecution
  BY SameFromStreams
<1> QED BY <1>1, Invariance, StreamsInvariance, PTL
=============================================================================
