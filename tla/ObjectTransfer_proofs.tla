----------------------- MODULE ObjectTransfer_proofs -----------------------
(***************************************************************************)
(* A module is blocked exactly while one handler is going to unblock it    *)
(* (BlockedModulesHaveHandlers), and the references of an object that      *)
(* somebody will resolve are at most those counted as unresolved           *)
(* (ResolversAreCounted): for any objects, references, ports and tasks.    *)
(*                                                                         *)
(* Both count the places of a handler, in the stacks of the threads and in *)
(* the handler lists of the requests.  A step takes a frame off one stack, *)
(* puts others there, and may append to one list or empty it; lemmas Ran   *)
(* and HandlersReplaced say what that does to the number of places, so     *)
(* each action adds up what it moves.  That a module is not blocked twice  *)
(* by one AddObject, which would make two handlers of it, needs the number *)
(* of messages and frames that are still to block it (BlockedOnce), and    *)
(* for the counts to be numbers only finitely many places may be in use.   *)
(***************************************************************************)
EXTENDS ObjectTransfer, SequenceTheorems, FiniteSetTheorems, TLAPS

(* The places of a sequence that hold a member of S, and those of the      *)
(* sequences f[d], d in D.                                                 *)
Row(s, S) == {j \in DOMAIN s : s[j] \in S}
Spots(f, D, S) == UNION {{<<d, i>> : i \in Row(f[d], S)} : d \in D}

RowCount(s, S) == Cardinality(Row(s, S))
FrameCount(S) == Cardinality(Spots(stack, Threads, S))
EntryCount(S) == Cardinality(Spots(handlers, Names, S))
One(b) == IF b THEN 1 ELSE 0

Handling(H) == [op : {"want", "enlist", "call"}, arg : H]
Resolvers(o) == {Resolver(o, n) : n \in Names}
Resolving(o) == Handling(Resolvers(o)) \cup [op : {"fetch"}, arg : {o} \X Names]

(* The main thread does not restore objects.  Only finitely many threads   *)
(* are busy, and only finitely many names are requested.                   *)
MainOps == {"send", "block", "notify", "want", "enlist", "call", "resolved", "complete"}
MainFrames == {f \in Frames : f.op \in MainOps}

StackOK ==
  /\ stack \in [Threads -> Seq(Frames)] /\ stack[Main] \in Seq(MainFrames)
  /\ IsFiniteSet(Spots(stack, Threads, Frames))

HandlersOK ==
  /\ handlers \in [Names -> Seq(Handlers)]
  /\ IsFiniteSet(Spots(handlers, Names, Handlers))

AddsFinite == \A o \in Objects : IsFiniteSet(outstandingAdds[o])

(* An AddObject blocks a port at most once.                                *)
BlockedOnce ==
  \A w \in Waits :
    RowCount(inbox, {w[1]}) + FrameCount({Frame("block", w)}) + One(w \in blocked)
      <= One(w[1] \in announced)

(* The handler that unblocks a module is in one place while it is blocked. *)
OneUnblocker ==
  \A w \in Waits : LET h == Unblocker(w[1], w[2])
                   IN  FrameCount(Handling({h})) + EntryCount({h}) = One(w \in blocked)

(* Every resolver was counted when its reference was loaded.               *)
ResolversCounted ==
  \A o \in Objects : FrameCount(Resolving(o)) + EntryCount(Resolvers(o)) <= unresolved[o]

IInv ==
  /\ TypeOK /\ StackOK /\ HandlersOK /\ AddsFinite
  /\ BlockedOnce /\ OneUnblocker /\ ResolversCounted
-----------------------------------------------------------------------------
(* Counting in sequences.                                                  *)

LEMMA RowFinite ==
  ASSUME NEW X, NEW s \in Seq(X), NEW S
  PROVE  /\ Row(s, S) \subseteq 1..Len(s)
         /\ IsFiniteSet(Row(s, S)) /\ RowCount(s, S) \in Nat
<1>1. DOMAIN s = 1..Len(s) /\ Len(s) \in Nat
  BY LenProperties
<1>2. Row(s, S) \subseteq 1..Len(s)
  BY <1>1 DEF Row
<1>3. IsFiniteSet(1..Len(s))
  BY <1>1, FS_Interval
<1>4. IsFiniteSet(Row(s, S))
  BY <1>2, <1>3, FS_Subset
<1> QED BY <1>2, <1>4, FS_CardinalityType DEF RowCount

LEMMA RowEmpty ==
  ASSUME NEW S
  PROVE  RowCount(<<>>, S) = 0
<1>1. Row(<<>>, S) = {}
  BY DEF Row
<1> QED BY <1>1, FS_EmptySet DEF RowCount

LEMMA RowOne ==
  ASSUME NEW x, NEW S
  PROVE  RowCount(<<x>>, S) = One(x \in S)
<1>1. CASE x \in S
  <2>1. Row(<<x>>, S) = {1}
    BY <1>1 DEF Row
  <2> QED BY <1>1, <2>1, FS_Singleton DEF RowCount, One
<1>2. CASE x \notin S
  <2>1. Row(<<x>>, S) = {}
    BY <1>2 DEF Row
  <2> QED BY <1>2, <2>1, FS_EmptySet DEF RowCount, One
<1> QED BY <1>1, <1>2

(* A set has as many elements as its image under an injection.             *)
LEMMA SameCount ==
  ASSUME NEW A, IsFiniteSet(A), NEW B, NEW f \in [A -> B],
         \A x, y \in A : f[x] = f[y] => x = y,
         \A b \in B : \E x \in A : f[x] = b
  PROVE  IsFiniteSet(B) /\ Cardinality(B) = Cardinality(A)
<1>1. f \in Bijection(A, B)
  BY DEF Bijection, Injection, Surjection, IsInjective
<1>2. ExistsBijection(A, B)
  BY <1>1 DEF ExistsBijection
<1> QED BY <1>2, FS_Bijection

LEMMA DisjointCount ==
  ASSUME NEW A, IsFiniteSet(A), NEW B, IsFiniteSet(B), A \cap B = {}
  PROVE  /\ IsFiniteSet(A \cup B)
         /\ Cardinality(A \cup B) = Cardinality(A) + Cardinality(B)
<1>1. /\ IsFiniteSet(A \cup B)
      /\ Cardinality(A \cup B) = Cardinality(A) + Cardinality(B) - Cardinality(A \cap B)
  BY FS_Union
<1>2. Cardinality(A \cap B) = 0
  BY FS_EmptySet
<1>3. Cardinality(A) \in Nat /\ Cardinality(B) \in Nat
  BY FS_CardinalityType
<1> QED BY <1>1, <1>2, <1>3

LEMMA Shifted ==
  ASSUME NEW k \in Nat, NEW A \in SUBSET Nat, IsFiniteSet(A)
  PROVE  LET B == {k + j : j \in A}
         IN  IsFiniteSet(B) /\ Cardinality(B) = Cardinality(A)
<1> DEFINE B == {k + j : j \in A}
           f == [j \in A |-> k + j]
<1>1. f \in [A -> B]
  OBVIOUS
<1>2. \A i, j \in A : f[i] = f[j] => i = j
  OBVIOUS
<1>3. \A b \in B : \E j \in A : f[j] = b
  OBVIOUS
<1> HIDE DEF f, B
<1>4. IsFiniteSet(B) /\ Cardinality(B) = Cardinality(A)
  BY <1>1, <1>2, <1>3, SameCount
<1> QED BY <1>4 DEF B

LEMMA RowConcat ==
  ASSUME NEW X, NEW u \in Seq(X), NEW v \in Seq(X), NEW S
  PROVE  RowCount(u \o v, S) = RowCount(u, S) + RowCount(v, S)
<1> DEFINE A == Row(u, S)
           B == Row(v, S)
           C == {Len(u) + j : j \in B}
<1>1. /\ Len(u) \in Nat /\ DOMAIN u = 1..Len(u)
      /\ Len(v) \in Nat /\ DOMAIN v = 1..Len(v)
  BY LenProperties
<1>2. /\ DOMAIN (u \o v) = 1..(Len(u) + Len(v))
      /\ \A i \in 1..(Len(u) + Len(v)) :
           (u \o v)[i] = IF i <= Len(u) THEN u[i] ELSE v[i - Len(u)]
  BY ConcatProperties, LenProperties
<1>3. /\ A \subseteq 1..Len(u) /\ IsFiniteSet(A) /\ Cardinality(A) \in Nat
      /\ B \subseteq 1..Len(v) /\ IsFiniteSet(B) /\ Cardinality(B) \in Nat
  BY RowFinite DEF RowCount
<1>4. Row(u \o v, S) = A \cup C
  <2>1. ASSUME NEW i \in Row(u \o v, S)
        PROVE  i \in A \cup C
    <3>1. i \in 1..(Len(u) + Len(v)) /\ (u \o v)[i] \in S
      BY <1>2 DEF Row
    <3>2. CASE i <= Len(u)
      BY <1>1, <1>2, <3>1, <3>2 DEF Row
    <3>3. CASE i > Len(u)
      <4>1. i - Len(u) \in 1..Len(v) /\ v[i - Len(u)] \in S
        BY <1>1, <1>2, <3>1, <3>3
      <4>2. i - Len(u) \in B /\ i = Len(u) + (i - Len(u))
        BY <1>1, <3>1, <4>1 DEF Row
      <4> QED BY <4>2
    <3> QED BY <1>1, <3>1, <3>2, <3>3
  <2>2. ASSUME NEW i \in A
        PROVE  i \in Row(u \o v, S)
    BY <1>1, <1>2 DEF Row
  <2>3. ASSUME NEW i \in C
        PROVE  i \in Row(u \o v, S)
    <3>1. PICK j \in B : i = Len(u) + j
      OBVIOUS
    <3>2. j \in 1..Len(v) /\ v[j] \in S
      BY <1>1 DEF Row
    <3>3. i \in 1..(Len(u) + Len(v)) /\ ~(i <= Len(u)) /\ i - Len(u) = j
      BY <1>1, <3>1, <3>2
    <3> QED BY <1>2, <3>2, <3>3 DEF Row
  <2> QED BY <2>1, <2>2, <2>3
<1>5. IsFiniteSet(C) /\ Cardinality(C) = Cardinality(B)
  <2>1. B \in SUBSET Nat
    BY <1>1, <1>3
  <2> HIDE DEF B
  <2> QED BY <1>1, <1>3, <2>1, Shifted
<1>6. A \cap C = {}
  BY <1>1, <1>3
<1> HIDE DEF A, B, C
<1>7. Cardinality(A \cup C) = Cardinality(A) + Cardinality(C)
  BY <1>3, <1>5, <1>6, DisjointCount
<1> QED BY <1>4, <1>5, <1>7 DEF RowCount, A, B

(* What replacing the first element by frames does to a count.             *)
LEMMA RowReplaced ==
  ASSUME NEW X, NEW s \in Seq(X), s # <<>>, NEW u \in Seq(X), NEW S
  PROVE  /\ u \o Tail(s) \in Seq(X)
         /\ RowCount(u \o Tail(s), S) + One(Head(s) \in S) = RowCount(u, S) + RowCount(s, S)
<1>1. Head(s) \in X /\ Tail(s) \in Seq(X)
  BY HeadTailProperties
<1>2. s = <<Head(s)>> \o Tail(s)
  BY HeadTailProperties
<1>3. <<Head(s)>> \in Seq(X)
  BY <1>1
<1>4. RowCount(s, S) = One(Head(s) \in S) + RowCount(Tail(s), S)
  <2>1. RowCount(<<Head(s)>> \o Tail(s), S) = RowCount(<<Head(s)>>, S) + RowCount(Tail(s), S)
    BY <1>1, <1>3, RowConcat
  <2>2. RowCount(<<Head(s)>>, S) = One(Head(s) \in S)
    BY RowOne
  <2> QED BY <1>2, <2>1, <2>2, Zenon
<1>5. RowCount(u \o Tail(s), S) = RowCount(u, S) + RowCount(Tail(s), S)
  BY <1>1, RowConcat
<1>6. RowCount(u, S) \in Nat /\ RowCount(Tail(s), S) \in Nat
  BY <1>1, RowFinite
<1>7. One(Head(s) \in S) \in Nat
  BY DEF One
<1>8. u \o Tail(s) \in Seq(X)
  BY <1>1, ConcatProperties
<1> QED BY <1>4, <1>5, <1>6, <1>7, <1>8

(* Counting in a table of sequences one of which, r, is replaced by s.     *)
Table(D, X) == [D -> Seq(X)]
Replaced(f, g, D, d, r, s) == f[d] = r /\ g[d] = s /\ \A e \in D : e # d => g[e] = f[e]

LEMMA SpotsReplaced ==
  ASSUME NEW X, NEW D, NEW d \in D, NEW r \in Seq(X), NEW s \in Seq(X),
         NEW f \in Table(D, X), NEW g \in Table(D, X), Replaced(f, g, D, d, r, s),
         NEW S, IsFiniteSet(Spots(f, D, S))
  PROVE  /\ IsFiniteSet(Spots(g, D, S))
         /\ Cardinality(Spots(f, D, S)) \in Nat /\ Cardinality(Spots(g, D, S)) \in Nat
         /\ RowCount(r, S) \in Nat /\ RowCount(s, S) \in Nat
         /\ Cardinality(Spots(g, D, S)) + RowCount(r, S)
              = Cardinality(Spots(f, D, S)) + RowCount(s, S)
<1> DEFINE P(u) == {<<d, i>> : i \in Row(u, S)}
           Rest == {p \in Spots(f, D, S) : p[1] # d}
<1>1. ASSUME NEW q \in Seq(X)
      PROVE  IsFiniteSet(P(q)) /\ Cardinality(P(q)) = RowCount(q, S) /\ RowCount(q, S) \in Nat
  <2> DEFINE h == [i \in Row(q, S) |-> <<d, i>>]
  <2>1. IsFiniteSet(Row(q, S)) /\ RowCount(q, S) \in Nat
    BY RowFinite
  <2>2. h \in [Row(q, S) -> P(q)]
    OBVIOUS
  <2>3. \A x, y \in Row(q, S) : h[x] = h[y] => x = y
    OBVIOUS
  <2>4. \A b \in P(q) : \E x \in Row(q, S) : h[x] = b
    OBVIOUS
  <2> HIDE DEF h, P
  <2>5. IsFiniteSet(P(q)) /\ Cardinality(P(q)) = Cardinality(Row(q, S))
    BY <2>1, <2>2, <2>3, <2>4, SameCount
  <2> QED BY <2>1, <2>5 DEF RowCount
<1>2. g \in [D -> Seq(X)] /\ f[d] = r /\ g[d] = s /\ \A e \in D \ {d} : g[e] = f[e]
  BY DEF Table, Replaced
<1>4. Spots(f, D, S) = Rest \cup P(r) /\ Rest \cap P(r) = {}
  BY <1>2 DEF Spots
<1>5. Spots(g, D, S) = Rest \cup P(s) /\ Rest \cap P(s) = {}
  <2>1. Rest = {p \in Spots(g, D, S) : p[1] # d}
    BY <1>2 DEF Spots
  <2>2. Spots(g, D, S) = {p \in Spots(g, D, S) : p[1] # d} \cup P(s)
    BY <1>2 DEF Spots
  <2>3. Rest \cap P(s) = {}
    OBVIOUS
  <2> HIDE DEF Rest, P
  <2> QED BY <2>1, <2>2, <2>3
<1>3. IsFiniteSet(Rest) /\ Cardinality(Rest) \in Nat
  <2>1. Rest \subseteq Spots(f, D, S)
    OBVIOUS
  <2> HIDE DEF Rest
  <2> QED BY <2>1, FS_Subset, FS_CardinalityType
<1> HIDE DEF P, Rest
<1>7. Cardinality(Spots(f, D, S)) = Cardinality(Rest) + RowCount(r, S)
  BY <1>1, <1>4, <1>3, DisjointCount
<1>8. IsFiniteSet(Spots(g, D, S)) /\ Cardinality(Spots(g, D, S)) = Cardinality(Rest) + RowCount(s, S)
  <2>1. IsFiniteSet(P(s)) /\ Cardinality(P(s)) = RowCount(s, S)
    BY <1>1
  <2>2. /\ IsFiniteSet(Rest \cup P(s))
        /\ Cardinality(Rest \cup P(s)) = Cardinality(Rest) + Cardinality(P(s))
    BY <1>5, <1>3, <2>1, DisjointCount
  <2> QED BY <1>5, <2>1, <2>2
<1> QED BY <1>1, <1>2, <1>3, <1>7, <1>8

LEMMA SpotsFinite ==
  ASSUME NEW X, NEW D, NEW f \in [D -> Seq(X)], IsFiniteSet(Spots(f, D, X)), NEW S
  PROVE  IsFiniteSet(Spots(f, D, S)) /\ Cardinality(Spots(f, D, S)) \in Nat
<1>1. ASSUME NEW d \in D, NEW i \in DOMAIN f[d]
      PROVE  f[d][i] \in X
  BY ElementOfSeq, LenProperties
<1>2. Spots(f, D, S) \subseteq Spots(f, D, X)
  BY <1>1 DEF Spots, Row
<1> QED BY <1>2, FS_Subset, FS_CardinalityType

(* A sequence none of whose elements is in S.                              *)
LEMMA RowNone ==
  ASSUME NEW s, NEW S, \A i \in DOMAIN s : s[i] \notin S
  PROVE  RowCount(s, S) = 0
<1>1. Row(s, S) = {}
  BY DEF Row
<1> QED BY <1>1, FS_EmptySet DEF RowCount
-----------------------------------------------------------------------------
(* What a step does to the counts.                                         *)

LEMMA FrameTyped ==
  ASSUME NEW f \in Frames
  PROVE  /\ f = Frame(f.op, f.arg)
         /\ f.op = "notify" => f.arg \in Adds
         /\ f.op \in {"send", "block"} => f.arg \in Adds \X PortNames
         /\ f.op \in {"want", "enlist", "call"} => f.arg \in Handlers
         /\ f.op \in {"resolved", "complete", "load", "restore", "finish", "check", "keep"}
              => f.arg \in Objects
         /\ f.op \in {"ref", "fetch"} => f.arg \in Objects \X Names
         /\ f.op \in {"loadArray", "fillArray", "arrayDone"} => f.arg \in Arrays
BY DEF Frames, Frame

LEMMA FrameMade ==
  /\ \A a \in Adds : Frame("notify", a) \in Frames
  /\ \A op \in {"send", "block"}, w \in Adds \X PortNames : Frame(op, w) \in Frames
  /\ \A op \in {"want", "enlist", "call"}, h \in Handlers : Frame(op, h) \in Frames
  /\ \A op \in {"resolved", "complete", "load", "restore", "finish", "check", "keep"},
        o \in Objects : Frame(op, o) \in Frames
  /\ \A op \in {"ref", "fetch"}, r \in Objects \X Names : Frame(op, r) \in Frames
  /\ \A op \in {"loadArray", "fillArray", "arrayDone"}, n \in Arrays : Frame(op, n) \in Frames
BY DEF Frames, Frame

LEMMA HandlerTyped ==
  /\ \A a \in Adds, p \in PortNames : Unblocker(a, p) \in Handlers
  /\ \A o \in Objects, n \in Names : Resolver(o, n) \in Handlers
  /\ \A h \in Handlers :
       \/ \E a \in Adds, p \in PortNames : h = Unblocker(a, p)
       \/ \E o \in Objects, n \in Names : h = Resolver(o, n)
  /\ \A h \in Handlers : Subject(h) \in Names
<1>1. \A a \in Adds : Carries[a] \in Objects
  BY TransferAssumption
<1> QED BY <1>1 DEF Handlers, Subject, Unblocker, Resolver, Names

LEMMA HeadTyped ==
  ASSUME StackOK, NEW t \in Threads, NEW op, At(t, op)
  PROVE  /\ stack[t] \in Seq(Frames) /\ stack[t] # <<>>
         /\ Head(stack[t]) \in Frames
         /\ Head(stack[t]) = Frame(op, Arg(t))
         /\ Head(stack[t]).op = op /\ Head(stack[t]).arg = Arg(t)
         /\ t = Main => op \in MainOps
<1>1. stack[t] \in Seq(Frames) /\ stack[t] # <<>> /\ Head(stack[t]).op = op
  BY DEF StackOK, At
<1>2. Head(stack[t]) \in Frames
  BY <1>1, HeadTailProperties
<1>3. Head(stack[t]) = Frame(op, Arg(t))
  BY <1>1, <1>2, FrameTyped DEF Arg
<1>4. ASSUME t = Main
      PROVE  op \in MainOps
  <2>1. stack[t] \in Seq(MainFrames)
    BY <1>4 DEF StackOK
  <2>2. Head(stack[t]) \in MainFrames
    BY <1>1, <2>1, HeadTailProperties
  <2> QED BY <1>1, <2>2 DEF MainFrames
<1> QED BY <1>1, <1>2, <1>3, <1>4 DEF Arg

(* A thread replaces the frame it has run by others.                       *)
LEMMA Ran ==
  ASSUME StackOK, NEW t \in Threads, stack[t] # <<>>,
         NEW u \in Seq(Frames), t = Main => u \in Seq(MainFrames), Run(u, t)
  PROVE  /\ StackOK'
         /\ \A S : /\ FrameCount(S) \in Nat /\ FrameCount(S)' \in Nat
                   /\ RowCount(u, S) \in Nat
                   /\ FrameCount(S)' + One(Head(stack[t]) \in S) = FrameCount(S) + RowCount(u, S)
<1> DEFINE s == u \o Tail(stack[t])
<1>1. stack \in [Threads -> Seq(Frames)] /\ stack[t] \in Seq(Frames)
      /\ IsFiniteSet(Spots(stack, Threads, Frames))
  BY DEF StackOK
<1>2. s \in Seq(Frames)
  BY <1>1, RowReplaced
<1>3. stack' = [stack EXCEPT ![t] = s]
  BY DEF Run
<1>4. ASSUME NEW S
      PROVE  /\ stack' \in [Threads -> Seq(Frames)]
             /\ IsFiniteSet(Spots(stack', Threads, S))
             /\ Cardinality(Spots(stack, Threads, S)) \in Nat
             /\ Cardinality(Spots(stack', Threads, S)) \in Nat
             /\ Cardinality(Spots(stack', Threads, S)) + RowCount(stack[t], S)
                  = Cardinality(Spots(stack, Threads, S)) + RowCount(s, S)
  <2>1. IsFiniteSet(Spots(stack, Threads, S))
    BY <1>1, SpotsFinite
  <2> HIDE DEF s
  <2>2. /\ stack \in Table(Threads, Frames) /\ stack' \in Table(Threads, Frames)
        /\ Replaced(stack, stack', Threads, t, stack[t], s)
    BY <1>1, <1>2, <1>3 DEF Table, Replaced
  <2>3. /\ IsFiniteSet(Spots(stack', Threads, S))
        /\ Cardinality(Spots(stack, Threads, S)) \in Nat
        /\ Cardinality(Spots(stack', Threads, S)) \in Nat
    BY <1>1, <1>2, <2>1, <2>2, SpotsReplaced
  <2>4. Cardinality(Spots(stack', Threads, S)) + RowCount(stack[t], S)
           = Cardinality(Spots(stack, Threads, S)) + RowCount(s, S)
    BY <1>1, <1>2, <2>1, <2>2, SpotsReplaced
  <2> QED BY <2>2, <2>3, <2>4 DEF Table
<1>5. ASSUME NEW S
      PROVE  /\ RowCount(s, S) + One(Head(stack[t]) \in S) = RowCount(u, S) + RowCount(stack[t], S)
             /\ RowCount(s, S) \in Nat /\ RowCount(u, S) \in Nat /\ RowCount(stack[t], S) \in Nat
             /\ One(Head(stack[t]) \in S) \in Nat
  <2>1. RowCount(s, S) + One(Head(stack[t]) \in S) = RowCount(u, S) + RowCount(stack[t], S)
    BY <1>1, RowReplaced
  <2> HIDE DEF s
  <2>2. One(Head(stack[t]) \in S) \in Nat
    BY DEF One
  <2> QED BY <1>1, <1>2, <2>1, <2>2, RowFinite
<1>6. stack'[Main] \in Seq(MainFrames)
  <2>1. stack[Main] \in Seq(MainFrames)
    BY DEF StackOK
  <2>2. CASE t = Main
    <3>1. u \o Tail(stack[Main]) \in Seq(MainFrames)
      BY <2>1, <2>2, RowReplaced
    <3> QED BY <1>1, <1>3, <2>2, <3>1
  <2>3. CASE t # Main
    BY <1>1, <1>3, <2>1, <2>3 DEF Threads
  <2> QED BY <2>2, <2>3
<1>7. StackOK'
  BY <1>4, <1>6 DEF StackOK
<1> HIDE DEF s
<1>8. ASSUME NEW S
      PROVE  /\ FrameCount(S) \in Nat /\ FrameCount(S)' \in Nat
             /\ FrameCount(S)' + One(Head(stack[t]) \in S) = FrameCount(S) + RowCount(u, S)
  <2>1. /\ FrameCount(S) = Cardinality(Spots(stack, Threads, S))
        /\ FrameCount(S)' = Cardinality(Spots(stack', Threads, S))
    BY DEF FrameCount
  <2> DEFINE a == Cardinality(Spots(stack, Threads, S))
             b == Cardinality(Spots(stack', Threads, S))
             c == RowCount(stack[t], S)
             e == RowCount(s, S)
             k == RowCount(u, S)
             l == One(Head(stack[t]) \in S)
  <2>2. a \in Nat /\ b \in Nat /\ b + c = a + e
    BY <1>4
  <2>3. c \in Nat /\ e \in Nat /\ k \in Nat /\ l \in Nat /\ e + l = k + c
    BY <1>5
  <2> HIDE DEF a, b, c, e, k, l
  <2>4. b + l = a + k
    BY <2>2, <2>3
  <2> QED BY <2>1, <2>2, <2>4 DEF a, b, k, l
<1> QED BY <1>5, <1>7, <1>8

(* The handlers of a name are replaced.                                    *)
LEMMA HandlersReplaced ==
  ASSUME HandlersOK, NEW n \in Names, NEW s \in Seq(Handlers),
         handlers' = [handlers EXCEPT ![n] = s]
  PROVE  /\ HandlersOK'
         /\ \A S : /\ EntryCount(S) \in Nat /\ EntryCount(S)' \in Nat
                   /\ RowCount(handlers[n], S) \in Nat /\ RowCount(s, S) \in Nat
                   /\ EntryCount(S)' + RowCount(handlers[n], S) = EntryCount(S) + RowCount(s, S)
<1>1. handlers \in [Names -> Seq(Handlers)] /\ handlers[n] \in Seq(Handlers)
      /\ IsFiniteSet(Spots(handlers, Names, Handlers))
  BY DEF HandlersOK
<1>2. ASSUME NEW S
      PROVE  /\ handlers' \in [Names -> Seq(Handlers)]
             /\ IsFiniteSet(Spots(handlers', Names, S))
             /\ Cardinality(Spots(handlers, Names, S)) \in Nat
             /\ Cardinality(Spots(handlers', Names, S)) \in Nat
             /\ Cardinality(Spots(handlers', Names, S)) + RowCount(handlers[n], S)
                  = Cardinality(Spots(handlers, Names, S)) + RowCount(s, S)
  <2>1. IsFiniteSet(Spots(handlers, Names, S))
    BY <1>1, SpotsFinite
  <2>2. /\ handlers \in Table(Names, Handlers) /\ handlers' \in Table(Names, Handlers)
        /\ Replaced(handlers, handlers', Names, n, handlers[n], s)
    BY <1>1 DEF Table, Replaced
  <2>3. /\ IsFiniteSet(Spots(handlers', Names, S))
        /\ Cardinality(Spots(handlers, Names, S)) \in Nat
        /\ Cardinality(Spots(handlers', Names, S)) \in Nat
    BY <1>1, <2>1, <2>2, SpotsReplaced
  <2>4. Cardinality(Spots(handlers', Names, S)) + RowCount(handlers[n], S)
                  = Cardinality(Spots(handlers, Names, S)) + RowCount(s, S)
    BY <1>1, <2>1, <2>2, SpotsReplaced
  <2> QED BY <1>1, <2>1, <2>2, <2>3, <2>4 DEF Table
<1>3. HandlersOK'
  BY <1>2 DEF HandlersOK
<1>4. ASSUME NEW S
      PROVE  RowCount(handlers[n], S) \in Nat /\ RowCount(s, S) \in Nat
  BY <1>1, RowFinite
<1> QED BY <1>2, <1>3, <1>4 DEF EntryCount

(* An idle thread is given frames.                                         *)
LEMMA Started ==
  ASSUME StackOK, NEW t \in Threads, stack[t] = <<>>,
         NEW u \in Seq(Frames), t = Main => u \in Seq(MainFrames),
         stack' = [stack EXCEPT ![t] = u]
  PROVE  /\ StackOK'
         /\ \A S : /\ FrameCount(S) \in Nat /\ RowCount(u, S) \in Nat
                   /\ FrameCount(S)' = FrameCount(S) + RowCount(u, S)
<1>1. stack \in [Threads -> Seq(Frames)] /\ IsFiniteSet(Spots(stack, Threads, Frames))
      /\ stack[t] \in Seq(Frames)
  BY DEF StackOK
<1>2. /\ stack \in Table(Threads, Frames) /\ stack' \in Table(Threads, Frames)
      /\ Replaced(stack, stack', Threads, t, stack[t], u)
  BY <1>1 DEF Table, Replaced
<1>3. ASSUME NEW S
      PROVE  /\ IsFiniteSet(Spots(stack', Threads, S)) /\ RowCount(u, S) \in Nat
             /\ FrameCount(S) \in Nat
             /\ FrameCount(S)' = FrameCount(S) + RowCount(u, S)
  <2>1. IsFiniteSet(Spots(stack, Threads, S))
    BY <1>1, SpotsFinite
  <2>2. /\ IsFiniteSet(Spots(stack', Threads, S))
        /\ Cardinality(Spots(stack, Threads, S)) \in Nat
        /\ Cardinality(Spots(stack', Threads, S)) \in Nat
    BY <1>1, <1>2, <2>1, SpotsReplaced
  <2>3. Cardinality(Spots(stack', Threads, S)) + RowCount(stack[t], S)
           = Cardinality(Spots(stack, Threads, S)) + RowCount(u, S)
    BY <1>1, <1>2, <2>1, SpotsReplaced
  <2>4. RowCount(stack[t], S) = 0
    BY RowEmpty
  <2>5. RowCount(u, S) \in Nat
    BY RowFinite
  <2>6. Cardinality(Spots(stack', Threads, S)) = Cardinality(Spots(stack, Threads, S)) + RowCount(u, S)
    BY <2>2, <2>3, <2>4, <2>5
  <2>7. FrameCount(S)' = Cardinality(Spots(stack', Threads, S))
    BY DEF FrameCount
  <2> QED BY <2>2, <2>5, <2>6, <2>7 DEF FrameCount
<1>4. stack'[Main] \in Seq(MainFrames)
  <2>1. Main \in Threads /\ stack[Main] \in Seq(MainFrames)
    BY DEF StackOK, Threads
  <2> QED BY <1>1, <2>1
<1>5. stack' \in [Threads -> Seq(Frames)]
  BY <1>1
<1>6. StackOK'
  BY <1>3, <1>4, <1>5 DEF StackOK
<1> QED BY <1>3, <1>6

(* A frame is replaced by another one, or by none.                         *)
LEMMA RanOne ==
  ASSUME StackOK, NEW t \in Threads, stack[t] # <<>>,
         NEW f \in Frames, t = Main => f.op \in MainOps, Run(<<f>>, t)
  PROVE  /\ StackOK'
         /\ \A S : /\ FrameCount(S) \in Nat /\ FrameCount(S)' \in Nat
                   /\ FrameCount(S)' + One(Head(stack[t]) \in S) = FrameCount(S) + One(f \in S)
<1>1. <<f>> \in Seq(Frames)
  OBVIOUS
<1>2. t = Main => <<f>> \in Seq(MainFrames)
  BY DEF MainFrames
<1>3. /\ StackOK'
      /\ \A S : /\ FrameCount(S) \in Nat /\ FrameCount(S)' \in Nat
                /\ FrameCount(S)' + One(Head(stack[t]) \in S) = FrameCount(S) + RowCount(<<f>>, S)
  BY <1>1, <1>2, Ran
<1>4. \A S : RowCount(<<f>>, S) = One(f \in S)
  BY RowOne
<1> QED BY <1>3, <1>4

LEMMA RanNone ==
  ASSUME StackOK, NEW t \in Threads, stack[t] # <<>>, Run(<<>>, t)
  PROVE  /\ StackOK'
         /\ \A S : /\ FrameCount(S) \in Nat /\ FrameCount(S)' \in Nat
                   /\ FrameCount(S)' + One(Head(stack[t]) \in S) = FrameCount(S)
<1>1. <<>> \in Seq(Frames) /\ <<>> \in Seq(MainFrames)
  OBVIOUS
<1>3. /\ StackOK'
      /\ \A S : /\ FrameCount(S) \in Nat /\ FrameCount(S)' \in Nat
                /\ FrameCount(S)' + One(Head(stack[t]) \in S) = FrameCount(S) + RowCount(<<>>, S)
  BY <1>1, Ran
<1>4. \A S : RowCount(<<>>, S) = 0
  BY RowEmpty
<1> QED BY <1>3, <1>4

CountedOps == {"block", "want", "enlist", "call", "fetch"}

LEMMA Membership ==
  /\ \A op, x, H : Frame(op, x) \in Handling(H) <=> op \in {"want", "enlist", "call"} /\ x \in H
  /\ \A op, x, o : Frame(op, x) \in Resolving(o) <=>
       \/ op \in {"want", "enlist", "call"} /\ x \in Resolvers(o)
       \/ op = "fetch" /\ x \in {o} \X Names
  /\ \A op, x, w : Frame(op, x) \in {Frame("block", w)} <=> op = "block" /\ x = w
BY DEF Frame, Handling, Resolving

LEMMA ResolverOf ==
  /\ \A o, oo, n : Resolver(o, n) \in Resolvers(oo) <=> o = oo /\ n \in Names
  /\ \A a, p, o : Unblocker(a, p) \notin Resolvers(o)
  /\ \A a, p, aa, pp : Unblocker(a, p) = Unblocker(aa, pp) <=> a = aa /\ p = pp
  /\ \A a, p, o, n : Resolver(o, n) # Unblocker(a, p)
BY DEF Resolvers, Resolver, Unblocker

LEMMA WaitsTyped ==
  \A w \in Waits : w[1] \in Adds /\ w[2] \in PortNames /\ w = <<w[1], w[2]>>
BY DEF Waits, PortNames

LEMMA CountsTyped ==
  ASSUME StackOK, HandlersOK
  PROVE  \A S : FrameCount(S) \in Nat /\ EntryCount(S) \in Nat
BY SpotsFinite DEF StackOK, HandlersOK, FrameCount, EntryCount

(* Nothing that is counted moves.                                          *)
LEMMA Neutral ==
  ASSUME IInv,
         \A w \in Waits : FrameCount({Frame("block", w)})' = FrameCount({Frame("block", w)}),
         \A w \in Waits : FrameCount(Handling({Unblocker(w[1], w[2])}))'
                            = FrameCount(Handling({Unblocker(w[1], w[2])})),
         \A o \in Objects : FrameCount(Resolving(o))' = FrameCount(Resolving(o)),
         UNCHANGED <<announced, inbox, handlers, blocked, unresolved>>
  PROVE  HandlersOK' /\ BlockedOnce' /\ OneUnblocker' /\ ResolversCounted'
<1>1. HandlersOK'
  BY DEF IInv, HandlersOK
<1>2. BlockedOnce'
  BY DEF IInv, BlockedOnce
<1>3. \A S : EntryCount(S)' = EntryCount(S)
  BY DEF EntryCount
<1>4. OneUnblocker'
  BY <1>3 DEF IInv, OneUnblocker
<1>5. ResolversCounted'
  BY <1>3 DEF IInv, ResolversCounted
<1> QED BY <1>1, <1>2, <1>4, <1>5

LEMMA NeutralRun ==
  ASSUME IInv, NEW t \in Threads, stack[t] # <<>>, NEW op, NEW x,
         Head(stack[t]) = Frame(op, x), op \notin CountedOps,
         NEW u \in Seq(Frames), t = Main => u \in Seq(MainFrames), Run(u, t),
         \A i \in DOMAIN u : u[i].op \notin CountedOps,
         UNCHANGED <<announced, inbox, handlers, blocked, unresolved>>
  PROVE  StackOK' /\ HandlersOK' /\ BlockedOnce' /\ OneUnblocker' /\ ResolversCounted'
<1>1. /\ StackOK'
      /\ \A S : /\ FrameCount(S) \in Nat /\ FrameCount(S)' \in Nat
                /\ FrameCount(S)' + One(Head(stack[t]) \in S) = FrameCount(S) + RowCount(u, S)
  BY Ran DEF IInv
<1>2. ASSUME NEW S, \A f \in S : f.op \in CountedOps
      PROVE  FrameCount(S)' = FrameCount(S)
  <2>1. RowCount(u, S) = 0
    BY <1>2, RowNone
  <2>2. Head(stack[t]) \notin S
    BY <1>2 DEF Frame
  <2>3. One(Head(stack[t]) \in S) = 0
    BY <2>2 DEF One
  <2>4. /\ FrameCount(S) \in Nat /\ FrameCount(S)' \in Nat
        /\ FrameCount(S)' + One(Head(stack[t]) \in S) = FrameCount(S) + RowCount(u, S)
    BY <1>1
  <2> QED BY <2>1, <2>3, <2>4
<1>3. /\ \A w, f : f \in {Frame("block", w)} => f.op \in CountedOps
      /\ \A H, f : f \in Handling(H) => f.op \in CountedOps
      /\ \A o, f : f \in Resolving(o) => f.op \in CountedOps
  BY DEF Frame, Handling, Resolving, CountedOps
<1>4. /\ \A w \in Waits : FrameCount({Frame("block", w)})' = FrameCount({Frame("block", w)})
      /\ \A w \in Waits : FrameCount(Handling({Unblocker(w[1], w[2])}))'
                            = FrameCount(Handling({Unblocker(w[1], w[2])}))
      /\ \A o \in Objects : FrameCount(Resolving(o))' = FrameCount(Resolving(o))
  BY <1>2, <1>3
<1> QED BY <1>1, <1>4, Neutral

LEMMA NeutralOne ==
  ASSUME IInv, NEW t \in Threads, stack[t] # <<>>, NEW op, NEW x,
         Head(stack[t]) = Frame(op, x), op \notin CountedOps,
         NEW f \in Frames, t = Main => f.op \in MainOps, Run(<<f>>, t), f.op \notin CountedOps,
         UNCHANGED <<announced, inbox, handlers, blocked, unresolved>>
  PROVE  StackOK' /\ HandlersOK' /\ BlockedOnce' /\ OneUnblocker' /\ ResolversCounted'
<1> DEFINE u == <<f>>
<1>1. u \in Seq(Frames) /\ (t = Main => u \in Seq(MainFrames))
  BY DEF MainFrames
<1>2. \A i \in DOMAIN u : u[i].op \notin CountedOps
  OBVIOUS
<1>3. Run(u, t)
  OBVIOUS
<1> HIDE DEF u
<1> QED BY <1>1, <1>2, <1>3, NeutralRun

LEMMA NeutralNone ==
  ASSUME IInv, NEW t \in Threads, stack[t] # <<>>, NEW op, NEW x,
         Head(stack[t]) = Frame(op, x), op \notin CountedOps, Run(<<>>, t),
         UNCHANGED <<announced, inbox, handlers, blocked, unresolved>>
  PROVE  StackOK' /\ HandlersOK' /\ BlockedOnce' /\ OneUnblocker' /\ ResolversCounted'
<1> DEFINE u == <<>>
<1>1. u \in Seq(Frames) /\ u \in Seq(MainFrames)
  OBVIOUS
<1>2. \A i \in DOMAIN u : u[i].op \notin CountedOps
  OBVIOUS
<1>3. Run(u, t)
  OBVIOUS
<1> HIDE DEF u
<1> QED BY <1>1, <1>2, <1>3, NeutralRun
-----------------------------------------------------------------------------
(* The actions that move nothing that is counted.                          *)

LEMMA SendAddObjectStep ==
  ASSUME IInv, NEW t \in Threads, SendAddObject(t)
  PROVE  IInv'
<1>1. /\ stack[t] # <<>> /\ Head(stack[t]) \in Frames
      /\ Head(stack[t]) = Frame("send", Arg(t))
      /\ Head(stack[t]).op = "send" /\ Head(stack[t]).arg = Arg(t)
  BY HeadTyped DEF SendAddObject, IInv
<1>2. Arg(t) \in Adds \X PortNames
  BY <1>1, FrameTyped
<1>3. UNCHANGED <<source, network, shm, tables, blocked>> /\ delivered' = delivered \cup {Arg(t)}
      /\ Run(<<>>, t)
  BY DEF SendAddObject
<1>4. StackOK' /\ HandlersOK' /\ BlockedOnce' /\ OneUnblocker' /\ ResolversCounted'
  BY <1>1, <1>3, NeutralNone DEF CountedOps, source, network, shm, tables
<1>5. TypeOK'
  BY <1>2, <1>3, <1>4 DEF IInv, TypeOK, StackOK, HandlersOK, source, network, shm, tables
<1>6. AddsFinite'
  BY <1>3 DEF IInv, AddsFinite, tables
<1> QED BY <1>4, <1>5, <1>6 DEF IInv

LEMMA NotifyTransferCompleteStep ==
  ASSUME IInv, NEW t \in Threads, NotifyTransferComplete(t)
  PROVE  IInv'
<1>1. /\ stack[t] # <<>> /\ Head(stack[t]) \in Frames
      /\ Head(stack[t]) = Frame("notify", Arg(t))
      /\ Head(stack[t]).op = "notify" /\ Head(stack[t]).arg = Arg(t)
  BY HeadTyped DEF NotifyTransferComplete, IInv
<1>2. Arg(t) \in Adds
  BY <1>1, FrameTyped
<1>3. /\ UNCHANGED <<source, inbox, requests, replies, shm, tables, modules>>
      /\ completions' = completions \cup {Arg(t)} /\ Run(<<>>, t)
  BY DEF NotifyTransferComplete
<1>4. StackOK' /\ HandlersOK' /\ BlockedOnce' /\ OneUnblocker' /\ ResolversCounted'
  BY <1>1, <1>3, NeutralNone DEF CountedOps, source, shm, tables, modules
<1>5. TypeOK'
  BY <1>2, <1>3, <1>4 DEF IInv, TypeOK, StackOK, HandlersOK, source, shm, tables, modules
<1>6. AddsFinite'
  BY <1>3 DEF IInv, AddsFinite, tables
<1> QED BY <1>4, <1>5, <1>6 DEF IInv

LEMMA LastResolvedStep ==
  ASSUME IInv, NEW t \in Threads, LastResolved(t)
  PROVE  IInv'
<1>1. /\ stack[t] # <<>> /\ Head(stack[t]) \in Frames
      /\ Head(stack[t]) = Frame("resolved", Arg(t))
      /\ Head(stack[t]).op = "resolved" /\ Head(stack[t]).arg = Arg(t)
  BY HeadTyped DEF LastResolved, IInv
<1>2. Arg(t) \in Objects
  BY <1>1, FrameTyped
<1>3. /\ UNCHANGED <<source, network, shm, tables, modules>>
      /\ Run(<<>>, t) \/ Run(<<Frame("complete", Arg(t))>>, t)
  BY DEF LastResolved
<1>4. /\ Frame("complete", Arg(t)) \in Frames
      /\ Frame("complete", Arg(t)).op \in MainOps \ CountedOps
  BY <1>2, FrameMade DEF Frame, MainOps, CountedOps
<1>5. StackOK' /\ HandlersOK' /\ BlockedOnce' /\ OneUnblocker' /\ ResolversCounted'
  <2>1. "resolved" \notin CountedOps
    BY DEF CountedOps
  <2>2. UNCHANGED <<announced, inbox, handlers, blocked, unresolved>>
    BY <1>3 DEF source, network, shm, tables, modules
  <2>3. CASE Run(<<>>, t)
    BY <1>1, <2>1, <2>2, <2>3, NeutralNone
  <2>4. CASE Run(<<Frame("complete", Arg(t))>>, t)
    BY <1>1, <1>4, <2>1, <2>2, <2>4, NeutralOne
  <2> QED BY <1>3, <2>3, <2>4
<1>6. TypeOK'
  BY <1>3, <1>5 DEF IInv, TypeOK, StackOK, HandlersOK, source, network, shm, tables, modules
<1>7. AddsFinite'
  BY <1>3 DEF IInv, AddsFinite, tables
<1> QED BY <1>5, <1>6, <1>7 DEF IInv

LEMMA LoadObjectStep ==
  ASSUME IInv, NEW t \in Threads, LoadObject(t)
  PROVE  IInv'
<1>1. /\ stack[t] # <<>> /\ Head(stack[t]) \in Frames
      /\ Head(stack[t]) = Frame("load", Arg(t))
      /\ Head(stack[t]).op = "load" /\ Head(stack[t]).arg = Arg(t)
      /\ t # Main
  BY HeadTyped DEF LoadObject, IInv, MainOps
<1>2. Arg(t) \in Objects
  BY <1>1, FrameTyped
<1>3. /\ UNCHANGED <<source, network, unresolved, restorer, tables, modules>>
      /\ memory' = [memory EXCEPT ![Arg(t)] = IF @ = "absent" THEN "fresh" ELSE @]
      /\ Run(<<Frame("restore", Arg(t))>>, t)
  BY DEF LoadObject
<1>4. Frame("restore", Arg(t)) \in Frames /\ Frame("restore", Arg(t)).op \notin CountedOps
  BY <1>2, FrameMade DEF Frame, CountedOps
<1>5. StackOK' /\ HandlersOK' /\ BlockedOnce' /\ OneUnblocker' /\ ResolversCounted'
  <2>1. "load" \notin CountedOps
    BY DEF CountedOps
  <2>2. UNCHANGED <<announced, inbox, handlers, blocked, unresolved>>
    BY <1>3 DEF source, network, tables, modules
  <2> QED BY <1>1, <1>3, <1>4, <2>1, <2>2, NeutralOne
<1>6. memory' \in [Names -> {"absent", "fresh", "restoring", "restored"}]
  BY <1>3 DEF IInv, TypeOK
<1>7. TypeOK'
  BY <1>3, <1>5, <1>6 DEF IInv, TypeOK, StackOK, HandlersOK, source, network, tables, modules
<1>8. AddsFinite'
  BY <1>3 DEF IInv, AddsFinite, tables
<1> QED BY <1>5, <1>7, <1>8 DEF IInv

LEMMA RefFramesTyped ==
  ASSUME NEW o \in Objects
  PROVE  RefFrames(o) \in Seq(Frames) /\ \A i \in DOMAIN RefFrames(o) : RefFrames(o)[i].op = "ref"
<1>1. Fields[o] \in Seq(Names)
  BY TransferAssumption
<1>2. PICK n \in Nat : DOMAIN Fields[o] = 1..n /\ \A i \in 1..n : Fields[o][i] \in Names
  BY <1>1, LenProperties, ElementOfSeq
<1>3. \A i \in 1..n : Frame("ref", <<o, Fields[o][i]>>) \in Frames
  BY <1>2, FrameMade
<1>4. RefFrames(o) = [i \in 1..n |-> Frame("ref", <<o, Fields[o][i]>>)]
  BY <1>2 DEF RefFrames
<1>5. RefFrames(o) \in [1..n -> Frames]
  BY <1>3, <1>4
<1>6. RefFrames(o) \in Seq(Frames)
  BY <1>5
<1> QED BY <1>4, <1>6 DEF Frame

LEMMA RestoreStep ==
  ASSUME IInv, NEW t \in Threads, Restore(t)
  PROVE  IInv'
<1>1. /\ stack[t] # <<>> /\ Head(stack[t]) \in Frames
      /\ Head(stack[t]) = Frame("restore", Arg(t))
      /\ Head(stack[t]).op = "restore" /\ Head(stack[t]).arg = Arg(t)
      /\ t # Main
  BY HeadTyped DEF Restore, IInv, MainOps
<1>2. Arg(t) \in Objects /\ t \in Tasks
  BY <1>1, FrameTyped DEF Threads
<1> DEFINE o == Arg(t)
           u == RefFrames(o) \o <<Frame("finish", o)>>
<1>3. /\ UNCHANGED <<source, network, unresolved, tables, modules>>
      /\ \/ /\ memory' = [memory EXCEPT ![o] = "restoring"]
            /\ restorer' = [restorer EXCEPT ![o] = t]
            /\ Run(u, t)
         \/ Run(<<Frame("check", o)>>, t) /\ UNCHANGED <<memory, restorer>>
  BY DEF Restore
<1>4. u \in Seq(Frames) /\ \A i \in DOMAIN u : u[i].op \notin CountedOps
  <2>1. /\ RefFrames(o) \in Seq(Frames)
        /\ \A i \in DOMAIN RefFrames(o) : RefFrames(o)[i].op = "ref"
    BY <1>2, RefFramesTyped
  <2>2. Frame("finish", o) \in Frames /\ Frame("finish", o).op = "finish"
    BY <1>2, FrameMade DEF Frame
  <2> DEFINE v == <<Frame("finish", o)>>
             r == RefFrames(o)
  <2>3. v \in Seq(Frames) /\ Len(v) = 1 /\ v[1].op = "finish"
    BY <2>2
  <2> HIDE DEF v, r
  <2>4. r \o v \in Seq(Frames) /\ DOMAIN (r \o v) = 1..(Len(r) + Len(v))
        /\ \A i \in 1..(Len(r) + Len(v)) : (r \o v)[i] = IF i <= Len(r) THEN r[i] ELSE v[i - Len(r)]
    BY <2>1, <2>3, ConcatProperties, LenProperties DEF r
  <2>5. Len(r) \in Nat /\ DOMAIN r = 1..Len(r)
    BY <2>1, LenProperties DEF r
  <2>6. ASSUME NEW i \in DOMAIN (r \o v)
        PROVE  (r \o v)[i].op \notin CountedOps
    <3>1. CASE i <= Len(r)
      <4>1. i \in DOMAIN r /\ (r \o v)[i] = r[i]
        BY <2>4, <2>5, <3>1
      <4>2. r[i].op = "ref"
        BY <2>1, <4>1 DEF r
      <4> QED BY <4>1, <4>2 DEF CountedOps
    <3>2. CASE i > Len(r)
      <4>1. i - Len(r) = 1 /\ (r \o v)[i] = v[i - Len(r)]
        BY <2>3, <2>4, <2>5, <3>2
      <4> QED BY <2>3, <4>1 DEF CountedOps
    <3> QED BY <2>4, <2>5, <3>1, <3>2
  <2> QED BY <2>4, <2>6 DEF v, r
<1>5. Frame("check", o) \in Frames /\ Frame("check", o).op \notin CountedOps
  BY <1>2, FrameMade DEF Frame, CountedOps
<1> HIDE DEF u
<1>6. StackOK' /\ HandlersOK' /\ BlockedOnce' /\ OneUnblocker' /\ ResolversCounted'
  <2>1. "restore" \notin CountedOps
    BY DEF CountedOps
  <2>2. UNCHANGED <<announced, inbox, handlers, blocked, unresolved>>
    BY <1>3 DEF source, network, tables, modules
  <2>3. CASE Run(u, t)
    BY <1>1, <1>4, <2>1, <2>2, <2>3, NeutralRun
  <2>4. CASE Run(<<Frame("check", o)>>, t)
    BY <1>1, <1>5, <2>1, <2>2, <2>4, NeutralOne
  <2> QED BY <1>3, <2>3, <2>4
<1>7. /\ memory' \in [Names -> {"absent", "fresh", "restoring", "restored"}]
      /\ restorer' \in [Objects -> Tasks \cup {NoThread}]
  BY <1>2, <1>3 DEF IInv, TypeOK
<1>8. TypeOK'
  BY <1>3, <1>6, <1>7 DEF IInv, TypeOK, StackOK, HandlersOK, source, network, tables, modules
<1>9. AddsFinite'
  BY <1>3 DEF IInv, AddsFinite, tables
<1> QED BY <1>6, <1>8, <1>9 DEF IInv

LEMMA FinishRestoreStep ==
  ASSUME IInv, NEW t \in Threads, FinishRestore(t)
  PROVE  IInv'
<1>1. /\ stack[t] # <<>> /\ Head(stack[t]) \in Frames
      /\ Head(stack[t]) = Frame("finish", Arg(t))
      /\ Head(stack[t]).op = "finish" /\ Head(stack[t]).arg = Arg(t)
      /\ t # Main
  BY HeadTyped DEF FinishRestore, IInv, MainOps
<1>2. Arg(t) \in Objects
  BY <1>1, FrameTyped
<1>3. /\ UNCHANGED <<source, network, unresolved, tables, modules>>
      /\ memory' = [memory EXCEPT ![Arg(t)] = "restored"]
      /\ restorer' = [restorer EXCEPT ![Arg(t)] = NoThread]
      /\ Run(<<Frame("check", Arg(t))>>, t)
  BY DEF FinishRestore
<1>4. Frame("check", Arg(t)) \in Frames /\ Frame("check", Arg(t)).op \notin CountedOps
  BY <1>2, FrameMade DEF Frame, CountedOps
<1>5. StackOK' /\ HandlersOK' /\ BlockedOnce' /\ OneUnblocker' /\ ResolversCounted'
  <2>1. "finish" \notin CountedOps
    BY DEF CountedOps
  <2>2. UNCHANGED <<announced, inbox, handlers, blocked, unresolved>>
    BY <1>3 DEF source, network, tables, modules
  <2> QED BY <1>1, <1>3, <1>4, <2>1, <2>2, NeutralOne
<1>6. /\ memory' \in [Names -> {"absent", "fresh", "restoring", "restored"}]
      /\ restorer' \in [Objects -> Tasks \cup {NoThread}]
  BY <1>3 DEF IInv, TypeOK
<1>7. TypeOK'
  BY <1>3, <1>5, <1>6 DEF IInv, TypeOK, StackOK, HandlersOK, source, network, tables, modules
<1>8. AddsFinite'
  BY <1>3 DEF IInv, AddsFinite, tables
<1> QED BY <1>5, <1>7, <1>8 DEF IInv

LEMMA CheckCompleteStep ==
  ASSUME IInv, NEW t \in Threads, CheckComplete(t)
  PROVE  IInv'
<1>1. /\ stack[t] # <<>> /\ Head(stack[t]) \in Frames
      /\ Head(stack[t]) = Frame("check", Arg(t))
      /\ Head(stack[t]).op = "check" /\ Head(stack[t]).arg = Arg(t)
      /\ t # Main
  BY HeadTyped DEF CheckComplete, IInv, MainOps
<1>2. Arg(t) \in Objects
  BY <1>1, FrameTyped
<1> DEFINE u == <<Frame("complete", Arg(t)), Frame("keep", Arg(t))>>
<1>3. /\ UNCHANGED <<source, network, shm, tables, modules>>
      /\ Run(u, t) \/ Run(<<Frame("keep", Arg(t))>>, t)
  BY DEF CheckComplete
<1>4. /\ Frame("keep", Arg(t)) \in Frames /\ Frame("keep", Arg(t)).op \notin CountedOps
      /\ Frame("complete", Arg(t)) \in Frames /\ Frame("complete", Arg(t)).op \notin CountedOps
  BY <1>2, FrameMade DEF Frame, CountedOps
<1>5. u \in Seq(Frames) /\ \A i \in DOMAIN u : u[i].op \notin CountedOps
  BY <1>4
<1> HIDE DEF u
<1>6. StackOK' /\ HandlersOK' /\ BlockedOnce' /\ OneUnblocker' /\ ResolversCounted'
  <2>1. "check" \notin CountedOps
    BY DEF CountedOps
  <2>2. UNCHANGED <<announced, inbox, handlers, blocked, unresolved>>
    BY <1>3 DEF source, network, shm, tables, modules
  <2>3. CASE Run(u, t)
    BY <1>1, <1>5, <2>1, <2>2, <2>3, NeutralRun
  <2>4. CASE Run(<<Frame("keep", Arg(t))>>, t)
    BY <1>1, <1>4, <2>1, <2>2, <2>4, NeutralOne
  <2> QED BY <1>3, <2>3, <2>4
<1>7. TypeOK'
  BY <1>3, <1>6 DEF IInv, TypeOK, StackOK, HandlersOK, source, network, shm, tables, modules
<1>8. AddsFinite'
  BY <1>3 DEF IInv, AddsFinite, tables
<1> QED BY <1>6, <1>7, <1>8 DEF IInv

LEMMA KeepObjectStep ==
  ASSUME IInv, NEW t \in Threads, KeepObject(t)
  PROVE  IInv'
<1>1. /\ stack[t] # <<>> /\ Head(stack[t]) \in Frames
      /\ Head(stack[t]) = Frame("keep", Arg(t))
      /\ Head(stack[t]).op = "keep" /\ Head(stack[t]).arg = Arg(t)
  BY HeadTyped DEF KeepObject, IInv
<1>2. Arg(t) \in Objects
  BY <1>1, FrameTyped
<1>3. /\ UNCHANGED <<source, network, shm, outstandingAdds, requested, handlers, modules>>
      /\ kept' \subseteq kept \cup {Arg(t)} /\ Run(<<>>, t)
  BY DEF KeepObject
<1>4. StackOK' /\ HandlersOK' /\ BlockedOnce' /\ OneUnblocker' /\ ResolversCounted'
  BY <1>1, <1>3, NeutralNone DEF CountedOps, source, network, shm, modules
<1>5. TypeOK'
  BY <1>2, <1>3, <1>4 DEF IInv, TypeOK, StackOK, HandlersOK, source, network, shm, modules
<1>6. AddsFinite'
  BY <1>3 DEF IInv, AddsFinite
<1> QED BY <1>4, <1>5, <1>6 DEF IInv

LEMMA LoadArrayStep ==
  ASSUME IInv, NEW t \in Threads, LoadArray(t)
  PROVE  IInv'
<1>1. /\ stack[t] # <<>> /\ Head(stack[t]) \in Frames
      /\ Head(stack[t]) = Frame("loadArray", Arg(t))
      /\ Head(stack[t]).op = "loadArray" /\ Head(stack[t]).arg = Arg(t)
      /\ t # Main
  BY HeadTyped DEF LoadArray, IInv, MainOps
<1>2. Arg(t) \in Arrays
  BY <1>1, FrameTyped
<1> DEFINE n == Arg(t)
<1>3. /\ UNCHANGED <<source, network, unresolved, restorer, tables, modules>>
      /\ memory' = memory \/ memory' = [memory EXCEPT ![n] = IF @ = "absent" THEN "fresh" ELSE @]
      /\ \/ Run(<<>>, t)
         \/ Run(<<Frame("fillArray", n)>>, t)
         \/ Run(<<Frame("arrayDone", n)>>, t)
  BY DEF LoadArray
<1>4. /\ Frame("fillArray", n) \in Frames /\ Frame("fillArray", n).op \notin CountedOps
      /\ Frame("arrayDone", n) \in Frames /\ Frame("arrayDone", n).op \notin CountedOps
  BY <1>2, FrameMade DEF Frame, CountedOps
<1>5. StackOK' /\ HandlersOK' /\ BlockedOnce' /\ OneUnblocker' /\ ResolversCounted'
  <2>1. "loadArray" \notin CountedOps
    BY DEF CountedOps
  <2>2. UNCHANGED <<announced, inbox, handlers, blocked, unresolved>>
    BY <1>3 DEF source, network, tables, modules
  <2>3. CASE Run(<<>>, t)
    BY <1>1, <2>1, <2>2, <2>3, NeutralNone
  <2>4. CASE Run(<<Frame("fillArray", n)>>, t)
    BY <1>1, <1>4, <2>1, <2>2, <2>4, NeutralOne
  <2>5. CASE Run(<<Frame("arrayDone", n)>>, t)
    BY <1>1, <1>4, <2>1, <2>2, <2>5, NeutralOne
  <2> QED BY <1>3, <2>3, <2>4, <2>5
<1>6. memory' \in [Names -> {"absent", "fresh", "restoring", "restored"}]
  BY <1>3 DEF IInv, TypeOK
<1>7. TypeOK'
  BY <1>3, <1>5, <1>6 DEF IInv, TypeOK, StackOK, HandlersOK, source, network, tables, modules
<1>8. AddsFinite'
  BY <1>3 DEF IInv, AddsFinite, tables
<1> QED BY <1>5, <1>7, <1>8 DEF IInv

LEMMA FillArrayStep ==
  ASSUME IInv, NEW t \in Threads, FillArray(t)
  PROVE  IInv'
<1>1. /\ stack[t] # <<>> /\ Head(stack[t]) \in Frames
      /\ Head(stack[t]) = Frame("fillArray", Arg(t))
      /\ Head(stack[t]).op = "fillArray" /\ Head(stack[t]).arg = Arg(t)
      /\ t # Main
  BY HeadTyped DEF FillArray, IInv, MainOps
<1>2. Arg(t) \in Arrays
  BY <1>1, FrameTyped
<1>3. /\ UNCHANGED <<source, network, unresolved, restorer, tables, modules>>
      /\ memory' = [memory EXCEPT ![Arg(t)] = "restored"]
      /\ Run(<<Frame("arrayDone", Arg(t))>>, t)
  BY DEF FillArray
<1>4. Frame("arrayDone", Arg(t)) \in Frames /\ Frame("arrayDone", Arg(t)).op \notin CountedOps
  BY <1>2, FrameMade DEF Frame, CountedOps
<1>5. StackOK' /\ HandlersOK' /\ BlockedOnce' /\ OneUnblocker' /\ ResolversCounted'
  <2>1. "fillArray" \notin CountedOps
    BY DEF CountedOps
  <2>2. UNCHANGED <<announced, inbox, handlers, blocked, unresolved>>
    BY <1>3 DEF source, network, tables, modules
  <2> QED BY <1>1, <1>3, <1>4, <2>1, <2>2, NeutralOne
<1>6. memory' \in [Names -> {"absent", "fresh", "restoring", "restored"}]
  BY <1>3 DEF IInv, TypeOK
<1>7. TypeOK'
  BY <1>3, <1>5, <1>6 DEF IInv, TypeOK, StackOK, HandlersOK, source, network, tables, modules
<1>8. AddsFinite'
  BY <1>3 DEF IInv, AddsFinite, tables
<1> QED BY <1>5, <1>7, <1>8 DEF IInv

LEMMA ReceiveReplyStep ==
  ASSUME IInv, NEW t \in Tasks, NEW n \in Names, ReceiveReply(t, n)
  PROVE  IInv'
<1> DEFINE f == Frame(IF n \in Objects THEN "load" ELSE "loadArray", n)
           u == <<f>>
<1>1. /\ UNCHANGED <<source, inbox, requests, completions, shm, tables, modules>>
      /\ replies[n] > 0 /\ replies' = [replies EXCEPT ![n] = @ - 1]
      /\ stack[t] = <<>> /\ stack' = [stack EXCEPT ![t] = u]
  BY DEF ReceiveReply
<1>2. f \in Frames /\ f.op \notin CountedOps
  BY FrameMade DEF Frame, CountedOps, Names
<1>3. t \in Threads /\ t # Main
  BY TransferAssumption DEF Threads
<1>4. u \in Seq(Frames) /\ \A i \in DOMAIN u : u[i].op \notin CountedOps
  BY <1>2
<1> HIDE DEF u
<1>5. /\ StackOK'
      /\ \A S : /\ FrameCount(S) \in Nat
                /\ FrameCount(S)' = FrameCount(S) + RowCount(u, S)
  BY <1>1, <1>3, <1>4, Started DEF IInv
<1>6. ASSUME NEW S, \A g \in S : g.op \in CountedOps
      PROVE  FrameCount(S)' = FrameCount(S)
  <2>1. RowCount(u, S) = 0
    BY <1>4, <1>6, RowNone
  <2> QED BY <1>5, <2>1
<1>7. /\ \A w, g : g \in {Frame("block", w)} => g.op \in CountedOps
      /\ \A H, g : g \in Handling(H) => g.op \in CountedOps
      /\ \A o, g : g \in Resolving(o) => g.op \in CountedOps
  BY DEF Frame, Handling, Resolving, CountedOps
<1>8. HandlersOK' /\ BlockedOnce' /\ OneUnblocker' /\ ResolversCounted'
  <2>1. /\ \A w \in Waits : FrameCount({Frame("block", w)})' = FrameCount({Frame("block", w)})
        /\ \A w \in Waits : FrameCount(Handling({Unblocker(w[1], w[2])}))'
                              = FrameCount(Handling({Unblocker(w[1], w[2])}))
        /\ \A o \in Objects : FrameCount(Resolving(o))' = FrameCount(Resolving(o))
    BY <1>6, <1>7
  <2>2. UNCHANGED <<announced, inbox, handlers, blocked, unresolved>>
    BY <1>1 DEF source, shm, tables, modules
  <2> QED BY <2>1, <2>2, Neutral
<1>9. replies' \in [Names -> Nat]
  BY <1>1 DEF IInv, TypeOK
<1>10. TypeOK'
  BY <1>1, <1>5, <1>8, <1>9 DEF IInv, TypeOK, StackOK, HandlersOK, source, shm, tables, modules
<1>11. AddsFinite'
  BY <1>1 DEF IInv, AddsFinite, tables
<1> QED BY <1>5, <1>8, <1>10, <1>11 DEF IInv

LEMMA SourceStep ==
  ASSUME IInv,
         \/ \E n \in Names : ServeRequest(n)
         \/ \E a \in Adds : CompleteTransfer(a)
  PROVE  IInv'
<1>1. UNCHANGED <<announced, inbox, shm, tables, modules, stack>>
  BY DEF ServeRequest, CompleteTransfer, source
<1>2. /\ requests' \in [Names -> Nat] /\ replies' \in [Names -> Nat]
      /\ inTransitObjects' \subseteq inTransitObjects /\ completions' \subseteq Adds
  <2>1. CASE \E n \in Names : ServeRequest(n)
    <3>1. PICK n \in Names : ServeRequest(n)
      BY <2>1
    <3>2. requests' \in [Names -> Nat]
      BY <3>1 DEF IInv, TypeOK, ServeRequest
    <3>3. replies' \in [Names -> Nat]
      BY <3>1 DEF IInv, TypeOK, ServeRequest
    <3> QED BY <3>1, <3>2, <3>3 DEF IInv, TypeOK, ServeRequest, source
  <2>2. CASE \E a \in Adds : CompleteTransfer(a)
    BY <2>2 DEF IInv, TypeOK, CompleteTransfer
  <2> QED BY <2>1, <2>2
<1>3. TypeOK'
  BY <1>1, <1>2 DEF IInv, TypeOK, shm, tables, modules
<1>4. StackOK' /\ HandlersOK' /\ AddsFinite'
  BY <1>1 DEF IInv, StackOK, HandlersOK, AddsFinite, tables
<1>5. /\ \A S : FrameCount(S)' = FrameCount(S)
      /\ UNCHANGED <<announced, inbox, handlers, blocked, unresolved>>
  BY <1>1 DEF FrameCount, shm, tables, modules
<1>6. BlockedOnce' /\ OneUnblocker' /\ ResolversCounted'
  BY <1>5, Neutral
<1> QED BY <1>3, <1>4, <1>6 DEF IInv
-----------------------------------------------------------------------------
(* Blocking and unblocking a module.                                       *)

LEMMA BlockModuleStep ==
  ASSUME IInv, NEW t \in Threads, BlockModule(t)
  PROVE  IInv'
<1>1. /\ stack[t] # <<>> /\ Head(stack[t]) \in Frames
      /\ Head(stack[t]) = Frame("block", Arg(t))
      /\ Head(stack[t]).op = "block" /\ Head(stack[t]).arg = Arg(t)
  BY HeadTyped DEF BlockModule, IInv
<1> DEFINE v == Arg(t)
           h == Unblocker(v[1], v[2])
           f == Frame("want", h)
<1>2. v \in Adds \X PortNames /\ v = <<v[1], v[2]>>
  BY <1>1, FrameTyped
<1>3. /\ UNCHANGED <<source, network, shm, tables, delivered>>
      /\ blocked' = blocked \cup {v} /\ Run(<<f>>, t)
  BY DEF BlockModule
<1>4. f \in Frames /\ f.op \in MainOps
  BY <1>2, HandlerTyped, FrameMade DEF Frame, MainOps
<1>5. /\ StackOK'
      /\ \A S : /\ FrameCount(S) \in Nat /\ FrameCount(S)' \in Nat
                /\ FrameCount(S)' + One(Head(stack[t]) \in S) = FrameCount(S) + One(f \in S)
  BY <1>1, <1>3, <1>4, RanOne DEF IInv
<1> HIDE DEF v, f
<1>6. \A S : EntryCount(S)' = EntryCount(S) /\ EntryCount(S) \in Nat
  BY <1>3, CountsTyped DEF EntryCount, tables, IInv
<1>7. ASSUME NEW w \in Waits
      PROVE  FrameCount({Frame("block", w)})' + One(v = w) = FrameCount({Frame("block", w)})
  <2> DEFINE S == {Frame("block", w)}
  <2>1. One(Head(stack[t]) \in S) = One(v = w) /\ One(f \in S) = 0
    BY <1>1, Membership DEF One, f, v
  <2> HIDE DEF S
  <2>2. FrameCount(S)' + One(v = w) = FrameCount(S) + 0 /\ FrameCount(S) \in Nat
    BY <1>5, <2>1
  <2> QED BY <2>2 DEF S
<1>8. ASSUME NEW w \in Waits
      PROVE  v = w => w \notin blocked
  <2>1. /\ RowCount(inbox, {w[1]}) + FrameCount({Frame("block", w)}) + One(w \in blocked)
              <= One(w[1] \in announced)
        /\ RowCount(inbox, {w[1]}) \in Nat
        /\ FrameCount({Frame("block", w)}) \in Nat /\ FrameCount({Frame("block", w)})' \in Nat
    BY <1>5, RowFinite DEF IInv, BlockedOnce, TypeOK
  <2>2. FrameCount({Frame("block", w)})' + One(v = w) = FrameCount({Frame("block", w)})
    BY <1>7
  <2> QED BY <2>1, <2>2 DEF One
<1>9. ASSUME NEW w \in Waits
      PROVE  One(w \in blocked') = One(w \in blocked) + One(v = w)
  BY <1>3, <1>8 DEF One
<1>10. BlockedOnce'
  <2>1. ASSUME NEW w \in Waits
        PROVE  RowCount(inbox, {w[1]}) + FrameCount({Frame("block", w)})' + One(w \in blocked')
                 <= One(w[1] \in announced)
    <3>1. /\ RowCount(inbox, {w[1]}) + FrameCount({Frame("block", w)}) + One(w \in blocked)
              <= One(w[1] \in announced)
        /\ RowCount(inbox, {w[1]}) \in Nat
        /\ FrameCount({Frame("block", w)}) \in Nat /\ FrameCount({Frame("block", w)})' \in Nat
      BY <1>5, RowFinite DEF IInv, BlockedOnce, TypeOK
    <3>2. One(w \in blocked) \in Nat /\ One(v = w) \in Nat /\ One(w[1] \in announced) \in Nat
      BY DEF One
    <3>3. FrameCount({Frame("block", w)})' + One(v = w) = FrameCount({Frame("block", w)})
          /\ One(w \in blocked') = One(w \in blocked) + One(v = w)
      BY <1>7, <1>9
    <3> QED BY <3>1, <3>2, <3>3
  <2>2. UNCHANGED <<inbox, announced>>
    BY <1>3 DEF source, network
  <2> QED BY <2>1, <2>2 DEF BlockedOnce
<1>11. OneUnblocker'
  <2>1. ASSUME NEW w \in Waits
        PROVE  FrameCount(Handling({Unblocker(w[1], w[2])}))'
                  + EntryCount({Unblocker(w[1], w[2])})' = One(w \in blocked')
    <3> DEFINE S == Handling({Unblocker(w[1], w[2])})
               E == EntryCount({Unblocker(w[1], w[2])})
    <3>1. One(Head(stack[t]) \in S) = 0
      BY <1>1, Membership DEF One
    <3>2. w = <<w[1], w[2]>>
      BY WaitsTyped
    <3>3. h = Unblocker(w[1], w[2]) <=> v = w
      BY <1>2, <3>2, ResolverOf
    <3>4. One(f \in S) = One(v = w)
      BY <3>3, Membership DEF One, f
    <3>5. FrameCount(S) + E = One(w \in blocked)
      BY DEF IInv, OneUnblocker
    <3> HIDE DEF S
    <3>6. FrameCount(S)' + 0 = FrameCount(S) + One(v = w)
          /\ FrameCount(S) \in Nat /\ FrameCount(S)' \in Nat
      BY <1>5, <3>1, <3>4
    <3>7. E' = E /\ E \in Nat
      BY <1>6
    <3> HIDE DEF E
    <3>8. FrameCount(S)' + E' = One(w \in blocked')
      <4>1. One(w \in blocked) \in Nat /\ One(v = w) \in Nat
        BY DEF One
      <4> QED BY <1>9, <3>5, <3>6, <3>7, <4>1
    <3> QED BY <3>8 DEF S, E
  <2> QED BY <2>1 DEF OneUnblocker
<1>12. ResolversCounted'
  <2>1. ASSUME NEW o \in Objects
        PROVE  FrameCount(Resolving(o))' = FrameCount(Resolving(o))
    <3>1. One(Head(stack[t]) \in Resolving(o)) = 0 /\ One(f \in Resolving(o)) = 0
      BY <1>1, Membership, ResolverOf DEF One, f
    <3>2. /\ FrameCount(Resolving(o)) \in Nat /\ FrameCount(Resolving(o))' \in Nat
          /\ FrameCount(Resolving(o))' + One(Head(stack[t]) \in Resolving(o))
               = FrameCount(Resolving(o)) + One(f \in Resolving(o))
      BY <1>5
    <3> QED BY <3>1, <3>2
  <2>2. UNCHANGED unresolved
    BY <1>3 DEF shm
  <2> QED BY <1>6, <2>1, <2>2 DEF IInv, ResolversCounted
<1>13. HandlersOK' /\ AddsFinite'
  BY <1>3 DEF IInv, HandlersOK, AddsFinite, tables
<1>14. TypeOK'
  BY <1>2, <1>3, <1>5, <1>13 DEF IInv, TypeOK, StackOK, HandlersOK, source, network, shm, tables
<1> QED BY <1>5, <1>10, <1>11, <1>12, <1>13, <1>14 DEF IInv

LEMMA UnblockStep ==
  ASSUME IInv, NEW t \in Threads, Unblock(t)
  PROVE  IInv'
<1>1. /\ stack[t] # <<>> /\ Head(stack[t]) \in Frames
      /\ Head(stack[t]) = Frame("call", Arg(t))
      /\ Head(stack[t]).op = "call" /\ Head(stack[t]).arg = Arg(t)
  BY HeadTyped DEF Unblock, IInv
<1>2. PICK a \in Adds, p \in PortNames : Arg(t) = Unblocker(a, p)
  <2>1. Arg(t) \in Handlers /\ Arg(t)[1] = "unblock"
    BY <1>1, FrameTyped DEF Unblock
  <2>2. \A o, n : Resolver(o, n)[1] # "unblock"
    BY DEF Resolver
  <2> QED BY <2>1, <2>2, HandlerTyped
<1> DEFINE v == <<a, p>>
<1>3. /\ UNCHANGED <<source, network, shm, tables>>
      /\ blocked' = blocked \ {v} /\ delivered' = delivered \cup {v} /\ Run(<<>>, t)
  <2>1. Arg(t)[2] = a /\ Arg(t)[3] = p
    BY <1>2 DEF Unblocker
  <2> QED BY <2>1 DEF Unblock
<1>4. /\ StackOK'
      /\ \A S : /\ FrameCount(S) \in Nat /\ FrameCount(S)' \in Nat
                /\ FrameCount(S)' + One(Head(stack[t]) \in S) = FrameCount(S)
  BY <1>1, <1>3, RanNone DEF IInv
<1>5. v \in Adds \X PortNames
  OBVIOUS
<1>6. \A S : EntryCount(S)' = EntryCount(S) /\ EntryCount(S) \in Nat
  BY <1>3, CountsTyped DEF EntryCount, tables, IInv
<1>7. OneUnblocker'
  <2>1. ASSUME NEW w \in Waits
        PROVE  FrameCount(Handling({Unblocker(w[1], w[2])}))'
                  + EntryCount({Unblocker(w[1], w[2])})' = One(w \in blocked')
    <3> DEFINE S == Handling({Unblocker(w[1], w[2])})
               E == EntryCount({Unblocker(w[1], w[2])})
    <3>2. w = <<w[1], w[2]>>
      BY WaitsTyped
    <3>3. Unblocker(a, p) = Unblocker(w[1], w[2]) <=> v = w
      BY <3>2, ResolverOf
    <3>4. One(Head(stack[t]) \in S) = One(v = w)
      BY <1>1, <1>2, <3>3, Membership DEF One
    <3>5. FrameCount(S) + E = One(w \in blocked)
      BY DEF IInv, OneUnblocker
    <3> HIDE DEF S
    <3>6. FrameCount(S)' + One(v = w) = FrameCount(S)
          /\ FrameCount(S) \in Nat /\ FrameCount(S)' \in Nat
      BY <1>4, <3>4
    <3>7. E' = E /\ E \in Nat
      BY <1>6
    <3> HIDE DEF E, v
    <3>8. FrameCount(S)' + E' = One(w \in blocked')
      BY <1>3, <3>5, <3>6, <3>7 DEF One
    <3> QED BY <3>8 DEF S, E
  <2> QED BY <2>1 DEF OneUnblocker
<1>8. BlockedOnce'
  <2>1. ASSUME NEW w \in Waits
        PROVE  RowCount(inbox, {w[1]}) + FrameCount({Frame("block", w)})' + One(w \in blocked')
                 <= One(w[1] \in announced)
    <3>1. /\ RowCount(inbox, {w[1]}) + FrameCount({Frame("block", w)}) + One(w \in blocked)
              <= One(w[1] \in announced)
        /\ RowCount(inbox, {w[1]}) \in Nat
        /\ FrameCount({Frame("block", w)}) \in Nat /\ FrameCount({Frame("block", w)})' \in Nat
      BY <1>4, RowFinite DEF IInv, BlockedOnce, TypeOK
    <3>2. FrameCount({Frame("block", w)})' = FrameCount({Frame("block", w)})
      <4>1. One(Head(stack[t]) \in {Frame("block", w)}) = 0
        BY <1>1, Membership DEF One
      <4>2. FrameCount({Frame("block", w)})' + One(Head(stack[t]) \in {Frame("block", w)})
              = FrameCount({Frame("block", w)})
        BY <1>4
      <4> QED BY <3>1, <4>1, <4>2
    <3>3. One(w \in blocked) \in Nat /\ One(w \in blocked') \in Nat
          /\ One(w \in blocked') <= One(w \in blocked) /\ One(w[1] \in announced) \in Nat
      BY <1>3 DEF One
    <3> QED BY <3>1, <3>2, <3>3
  <2>2. UNCHANGED <<inbox, announced>>
    BY <1>3 DEF source, network
  <2> QED BY <2>1, <2>2 DEF BlockedOnce
<1>9. ResolversCounted'
  <2>1. ASSUME NEW o \in Objects
        PROVE  FrameCount(Resolving(o))' = FrameCount(Resolving(o))
    <3>1. One(Head(stack[t]) \in Resolving(o)) = 0
      BY <1>1, <1>2, Membership, ResolverOf DEF One
    <3>2. /\ FrameCount(Resolving(o)) \in Nat /\ FrameCount(Resolving(o))' \in Nat
          /\ FrameCount(Resolving(o))' + One(Head(stack[t]) \in Resolving(o))
               = FrameCount(Resolving(o))
      BY <1>4
    <3> QED BY <3>1, <3>2
  <2>2. UNCHANGED unresolved
    BY <1>3 DEF shm
  <2> QED BY <1>6, <2>1, <2>2 DEF IInv, ResolversCounted
<1>10. HandlersOK' /\ AddsFinite'
  BY <1>3 DEF IInv, HandlersOK, AddsFinite, tables
<1>11. TypeOK'
  BY <1>3, <1>4, <1>5, <1>10 DEF IInv, TypeOK, StackOK, HandlersOK, source, network, shm, tables
<1> QED BY <1>4, <1>7, <1>8, <1>9, <1>10, <1>11 DEF IInv
-----------------------------------------------------------------------------
(* Handlers on their way, and the references they resolve.                 *)

LEMMA BlockingKept ==
  ASSUME IInv,
         \A w \in Waits : FrameCount({Frame("block", w)})' = FrameCount({Frame("block", w)}),
         \A w \in Waits : FrameCount(Handling({Unblocker(w[1], w[2])}))'
                            = FrameCount(Handling({Unblocker(w[1], w[2])})),
         UNCHANGED <<announced, inbox, handlers, blocked>>
  PROVE  /\ HandlersOK' /\ BlockedOnce' /\ OneUnblocker'
         /\ \A S : EntryCount(S)' = EntryCount(S) /\ EntryCount(S) \in Nat
<1>1. HandlersOK'
  BY DEF IInv, HandlersOK
<1>2. BlockedOnce'
  BY DEF IInv, BlockedOnce
<1>3. \A S : EntryCount(S)' = EntryCount(S) /\ EntryCount(S) \in Nat
  BY CountsTyped DEF EntryCount, IInv
<1>4. OneUnblocker'
  BY <1>3 DEF IInv, OneUnblocker
<1> QED BY <1>1, <1>2, <1>3, <1>4

LEMMA WantStep ==
  ASSUME IInv, NEW t \in Threads, Want(t)
  PROVE  IInv'
<1>1. /\ stack[t] # <<>> /\ Head(stack[t]) \in Frames
      /\ Head(stack[t]) = Frame("want", Arg(t))
      /\ Head(stack[t]).op = "want" /\ Head(stack[t]).arg = Arg(t)
  BY HeadTyped DEF Want, IInv
<1>2. Arg(t) \in Handlers
  BY <1>1, FrameTyped
<1>3. /\ UNCHANGED <<source, network, shm, tables, modules>>
      /\ \E op \in {"call", "enlist"} : Run(<<Frame(op, Arg(t))>>, t)
  BY DEF Want
<1>4. PICK op \in {"call", "enlist"} : Run(<<Frame(op, Arg(t))>>, t)
  BY <1>3
<1> DEFINE f == Frame(op, Arg(t))
<1>5. f \in Frames /\ f.op \in MainOps
  BY <1>2, FrameMade DEF Frame, MainOps
<1>6. /\ StackOK'
      /\ \A S : /\ FrameCount(S) \in Nat /\ FrameCount(S)' \in Nat
                /\ FrameCount(S)' + One(Head(stack[t]) \in S) = FrameCount(S) + One(f \in S)
  BY <1>1, <1>4, <1>5, RanOne DEF IInv
<1>7. ASSUME NEW S, Head(stack[t]) \in S <=> f \in S
      PROVE  FrameCount(S)' = FrameCount(S)
  <2>1. One(Head(stack[t]) \in S) = One(f \in S) /\ One(f \in S) \in Nat
    BY <1>7 DEF One
  <2> QED BY <1>6, <2>1
<1>8. /\ \A w : Head(stack[t]) \in {Frame("block", w)} <=> f \in {Frame("block", w)}
      /\ \A H : Head(stack[t]) \in Handling(H) <=> f \in Handling(H)
      /\ \A o : Head(stack[t]) \in Resolving(o) <=> f \in Resolving(o)
  <2> DEFINE x == Arg(t)
  <2>1. Head(stack[t]) = Frame("want", x) /\ f = Frame(op, x)
    BY <1>1
  <2> HIDE DEF x, f
  <2> QED BY <2>1, Membership
<1>9. /\ \A w \in Waits : FrameCount({Frame("block", w)})' = FrameCount({Frame("block", w)})
      /\ \A w \in Waits : FrameCount(Handling({Unblocker(w[1], w[2])}))'
                            = FrameCount(Handling({Unblocker(w[1], w[2])}))
      /\ \A o \in Objects : FrameCount(Resolving(o))' = FrameCount(Resolving(o))
  BY <1>7, <1>8
<1>10. HandlersOK' /\ BlockedOnce' /\ OneUnblocker' /\ ResolversCounted'
  <2>1. UNCHANGED <<announced, inbox, handlers, blocked, unresolved>>
    BY <1>3 DEF source, network, shm, tables, modules
  <2> QED BY <1>9, <2>1, Neutral
<1>11. TypeOK' /\ AddsFinite'
  BY <1>3, <1>6, <1>10 DEF IInv, TypeOK, StackOK, HandlersOK, AddsFinite, source, network, shm, tables, modules
<1> QED BY <1>6, <1>10, <1>11 DEF IInv

LEMMA ResolveStep ==
  ASSUME IInv, NEW t \in Threads, Resolve(t)
  PROVE  IInv'
<1>1. /\ stack[t] # <<>> /\ Head(stack[t]) \in Frames
      /\ Head(stack[t]) = Frame("call", Arg(t))
      /\ Head(stack[t]).op = "call" /\ Head(stack[t]).arg = Arg(t)
  BY HeadTyped DEF Resolve, IInv
<1>2. PICK o \in Objects, n \in Names : Arg(t) = Resolver(o, n)
  <2>1. Arg(t) \in Handlers /\ Arg(t)[1] = "resolve"
    BY <1>1, FrameTyped DEF Resolve
  <2>2. \A a, p : Unblocker(a, p)[1] # "resolve"
    BY DEF Unblocker
  <2> QED BY <2>1, <2>2, HandlerTyped
<1> DEFINE f == Frame("resolved", o)
<1>3. /\ UNCHANGED <<source, network, memory, restorer, tables, modules>>
      /\ unresolved' = [unresolved EXCEPT ![o] = @ - 1]
      /\ Run(<<>>, t) \/ Run(<<f>>, t)
  <2>1. Arg(t)[2] = o
    BY <1>2 DEF Resolver
  <2> QED BY <2>1 DEF Resolve
<1>4. f \in Frames /\ f.op \in MainOps
  BY FrameMade DEF Frame, MainOps
<1>5. /\ \A w : f \notin {Frame("block", w)}
      /\ \A H : f \notin Handling(H)
      /\ \A oo : f \notin Resolving(oo)
  BY Membership
<1> HIDE DEF f
<1>6. /\ StackOK'
      /\ \A S : f \notin S => /\ FrameCount(S) \in Nat /\ FrameCount(S)' \in Nat
                              /\ FrameCount(S)' + One(Head(stack[t]) \in S) = FrameCount(S)
  <2>1. CASE Run(<<>>, t)
    BY <1>1, <2>1, RanNone DEF IInv
  <2>2. CASE Run(<<f>>, t)
    <3>1. /\ StackOK'
          /\ \A S : /\ FrameCount(S) \in Nat /\ FrameCount(S)' \in Nat
                    /\ FrameCount(S)' + One(Head(stack[t]) \in S) = FrameCount(S) + One(f \in S)
      BY <1>1, <1>4, <2>2, RanOne DEF IInv
    <3>2. ASSUME NEW S, f \notin S
          PROVE  FrameCount(S)' + One(Head(stack[t]) \in S) = FrameCount(S)
      <4>1. One(f \in S) = 0
        BY <3>2 DEF One
      <4>2. /\ FrameCount(S) \in Nat
            /\ FrameCount(S)' + One(Head(stack[t]) \in S) = FrameCount(S) + One(f \in S)
        BY <3>1
      <4> QED BY <4>1, <4>2
    <3> QED BY <3>1, <3>2
  <2> QED BY <1>3, <2>1, <2>2
<1>7. /\ HandlersOK' /\ BlockedOnce' /\ OneUnblocker'
      /\ \A S : EntryCount(S)' = EntryCount(S) /\ EntryCount(S) \in Nat
  <2>1. ASSUME NEW S, f \notin S, Head(stack[t]) \notin S
        PROVE  FrameCount(S)' = FrameCount(S)
    <3>1. One(Head(stack[t]) \in S) = 0
      BY <2>1 DEF One
    <3>2. /\ FrameCount(S) \in Nat /\ FrameCount(S)' \in Nat
          /\ FrameCount(S)' + One(Head(stack[t]) \in S) = FrameCount(S)
      BY <1>6, <2>1
    <3> QED BY <3>1, <3>2
  <2>2. /\ \A w : Head(stack[t]) \notin {Frame("block", w)}
        /\ \A a, p : Head(stack[t]) \notin Handling({Unblocker(a, p)})
    BY <1>1, <1>2, Membership, ResolverOf
  <2>3. /\ \A w \in Waits : FrameCount({Frame("block", w)})' = FrameCount({Frame("block", w)})
        /\ \A w \in Waits : FrameCount(Handling({Unblocker(w[1], w[2])}))'
                              = FrameCount(Handling({Unblocker(w[1], w[2])}))
    BY <1>5, <2>1, <2>2
  <2>4. UNCHANGED <<announced, inbox, handlers, blocked>>
    BY <1>3 DEF source, network, tables, modules
  <2> QED BY <2>3, <2>4, BlockingKept
<1>8. ASSUME NEW oo \in Objects
      PROVE  /\ FrameCount(Resolving(oo))' + EntryCount(Resolvers(oo))' <= unresolved'[oo]
             /\ unresolved'[oo] \in Nat
  <2> DEFINE fc == FrameCount(Resolving(oo))
             ec == EntryCount(Resolvers(oo))
  <2>1. fc + ec <= unresolved[oo] /\ unresolved[oo] \in Nat
    BY DEF IInv, ResolversCounted, TypeOK
  <2>2. One(Head(stack[t]) \in Resolving(oo)) = One(o = oo)
    BY <1>1, <1>2, Membership, ResolverOf DEF One
  <2>3. fc \in Nat /\ fc' \in Nat /\ fc' + One(Head(stack[t]) \in Resolving(oo)) = fc
    BY <1>5, <1>6
  <2>4. ec' = ec /\ ec \in Nat
    BY <1>7
  <2>5. unresolved'[oo] = unresolved[oo] - One(o = oo)
    BY <1>3 DEF One, IInv, TypeOK
  <2>6. One(o = oo) \in Nat
    BY DEF One
  <2> HIDE DEF fc, ec
  <2>7. fc' + ec' <= unresolved'[oo] /\ unresolved'[oo] \in Nat
    BY <2>1, <2>2, <2>3, <2>4, <2>5, <2>6
  <2> QED BY <2>7 DEF fc, ec
<1>9. ResolversCounted'
  BY <1>8 DEF ResolversCounted
<1>10. unresolved' \in [Objects -> Nat]
  <2>1. unresolved' \in [Objects -> Int]
    BY <1>3 DEF IInv, TypeOK
  <2> QED BY <1>8, <2>1
<1>11. TypeOK' /\ AddsFinite'
  BY <1>3, <1>6, <1>7, <1>10
     DEF IInv, TypeOK, StackOK, HandlersOK, AddsFinite, source, network, tables, modules
<1> QED BY <1>6, <1>7, <1>9, <1>11 DEF IInv

LEMMA LoadReferenceStep ==
  ASSUME IInv, NEW t \in Threads, LoadReference(t)
  PROVE  IInv'
<1>1. /\ stack[t] # <<>> /\ Head(stack[t]) \in Frames
      /\ Head(stack[t]) = Frame("ref", Arg(t))
      /\ Head(stack[t]).op = "ref" /\ Head(stack[t]).arg = Arg(t)
      /\ t # Main
  BY HeadTyped DEF LoadReference, IInv, MainOps
<1>2. PICK o \in Objects, n \in Names : Arg(t) = <<o, n>>
  BY <1>1, FrameTyped
<1> DEFINE f == Frame("fetch", <<o, n>>)
           g == Frame("want", Resolver(o, n))
<1>3. /\ UNCHANGED <<source, network, memory, restorer, tables, modules>>
      /\ \/ Run(<<>>, t) /\ UNCHANGED unresolved
         \/ /\ unresolved' = [unresolved EXCEPT ![o] = @ + 1]
            /\ Run(<<f>>, t) \/ Run(<<g>>, t)
  BY <1>2 DEF LoadReference
<1>4. f \in Frames /\ g \in Frames
  BY HandlerTyped, FrameMade
<1>5. CASE Run(<<>>, t) /\ UNCHANGED unresolved
  <2>1. UNCHANGED <<announced, inbox, handlers, blocked, unresolved>>
    BY <1>3, <1>5 DEF source, network, tables, modules
  <2>2. StackOK' /\ HandlersOK' /\ BlockedOnce' /\ OneUnblocker' /\ ResolversCounted'
    BY <1>1, <1>5, <2>1, NeutralNone DEF CountedOps
  <2>3. TypeOK' /\ AddsFinite'
    BY <1>3, <1>5, <2>2
       DEF IInv, TypeOK, StackOK, HandlersOK, AddsFinite, source, network, tables, modules
  <2> QED BY <2>2, <2>3 DEF IInv
<1>6. ASSUME NEW e \in {f, g}, Run(<<e>>, t), unresolved' = [unresolved EXCEPT ![o] = @ + 1]
      PROVE  IInv'
  <2>1. /\ StackOK'
        /\ \A S : /\ FrameCount(S) \in Nat /\ FrameCount(S)' \in Nat
                  /\ FrameCount(S)' + One(Head(stack[t]) \in S) = FrameCount(S) + One(e \in S)
    BY <1>1, <1>4, <1>6, RanOne DEF IInv
  <2>2. /\ \A w : Head(stack[t]) \notin {Frame("block", w)} /\ e \notin {Frame("block", w)}
        /\ \A a, p : Head(stack[t]) \notin Handling({Unblocker(a, p)})
                       /\ e \notin Handling({Unblocker(a, p)})
        /\ \A oo : Head(stack[t]) \notin Resolving(oo) /\ (e \in Resolving(oo) <=> o = oo)
    <3>1. e = f \/ e = g
      BY <1>6
    <3>2. <<o, n>> \in {o} \X Names /\ \A oo : <<o, n>> \in {oo} \X Names => o = oo
      OBVIOUS
    <3>3. /\ \A w : Head(stack[t]) \notin {Frame("block", w)}
          /\ \A a, p : Head(stack[t]) \notin Handling({Unblocker(a, p)})
          /\ \A oo : Head(stack[t]) \notin Resolving(oo)
      BY <1>1, Membership
    <3>4. CASE e = f
      BY <3>2, <3>3, <3>4, Membership
    <3>5. CASE e = g
      BY <3>3, <3>5, Membership, ResolverOf
    <3> QED BY <3>1, <3>4, <3>5
  <2> HIDE DEF f, g
  <2>3. ASSUME NEW S, e \notin S, Head(stack[t]) \notin S
        PROVE  FrameCount(S)' = FrameCount(S)
    <3>1. One(Head(stack[t]) \in S) = 0 /\ One(e \in S) = 0
      BY <2>3 DEF One
    <3>2. /\ FrameCount(S) \in Nat /\ FrameCount(S)' \in Nat
          /\ FrameCount(S)' + One(Head(stack[t]) \in S) = FrameCount(S) + One(e \in S)
      BY <2>1
    <3> QED BY <3>1, <3>2
  <2>4. /\ HandlersOK' /\ BlockedOnce' /\ OneUnblocker'
        /\ \A S : EntryCount(S)' = EntryCount(S) /\ EntryCount(S) \in Nat
    <3>1. /\ \A w \in Waits : FrameCount({Frame("block", w)})' = FrameCount({Frame("block", w)})
          /\ \A w \in Waits : FrameCount(Handling({Unblocker(w[1], w[2])}))'
                                = FrameCount(Handling({Unblocker(w[1], w[2])}))
      BY <2>2, <2>3
    <3>2. UNCHANGED <<announced, inbox, handlers, blocked>>
      BY <1>3 DEF source, network, tables, modules
    <3> QED BY <3>1, <3>2, BlockingKept
  <2>5. unresolved' \in [Objects -> Nat]
    BY <1>6 DEF IInv, TypeOK
  <2>6. ASSUME NEW oo \in Objects
        PROVE  FrameCount(Resolving(oo))' + EntryCount(Resolvers(oo))' <= unresolved'[oo]
    <3> DEFINE fc == FrameCount(Resolving(oo))
               ec == EntryCount(Resolvers(oo))
    <3>1. fc + ec <= unresolved[oo] /\ unresolved[oo] \in Nat
      BY DEF IInv, ResolversCounted, TypeOK
    <3>2. One(Head(stack[t]) \in Resolving(oo)) = 0 /\ One(e \in Resolving(oo)) = One(o = oo)
      BY <2>2 DEF One
    <3>3. /\ fc \in Nat /\ fc' \in Nat
          /\ fc' + One(Head(stack[t]) \in Resolving(oo)) = fc + One(e \in Resolving(oo))
      BY <2>1
    <3>4. ec' = ec /\ ec \in Nat
      BY <2>4
    <3>5. unresolved'[oo] = unresolved[oo] + One(o = oo) /\ One(o = oo) \in Nat
      BY <1>6 DEF One, IInv, TypeOK
    <3> HIDE DEF fc, ec
    <3>6. fc' + ec' <= unresolved'[oo]
      BY <3>1, <3>2, <3>3, <3>4, <3>5
    <3> QED BY <3>6 DEF fc, ec
  <2>7. ResolversCounted'
    BY <2>6 DEF ResolversCounted
  <2>8. TypeOK' /\ AddsFinite'
    BY <1>3, <2>1, <2>4, <2>5
       DEF IInv, TypeOK, StackOK, HandlersOK, AddsFinite, source, network, tables, modules
  <2> QED BY <2>1, <2>4, <2>7, <2>8 DEF IInv
<1> QED BY <1>3, <1>5, <1>6

LEMMA GetObjectStep ==
  ASSUME IInv, NEW t \in Threads, GetObject(t)
  PROVE  IInv'
<1>1. /\ stack[t] # <<>> /\ Head(stack[t]) \in Frames
      /\ Head(stack[t]) = Frame("fetch", Arg(t))
      /\ Head(stack[t]).op = "fetch" /\ Head(stack[t]).arg = Arg(t)
      /\ t # Main
  BY HeadTyped DEF GetObject, IInv, MainOps
<1>2. PICK o \in Objects, n \in Names : Arg(t) = <<o, n>>
  BY <1>1, FrameTyped
<1> DEFINE g == Frame("want", Resolver(o, n))
<1>3. /\ UNCHANGED <<source, network, shm, tables, modules>>
      /\ Run(<<>>, t) \/ Run(<<g>>, t)
  BY <1>2 DEF GetObject
<1>4. g \in Frames
  BY HandlerTyped, FrameMade
<1>5. /\ \A w : Head(stack[t]) \notin {Frame("block", w)} /\ g \notin {Frame("block", w)}
      /\ \A a, p : Head(stack[t]) \notin Handling({Unblocker(a, p)})
                     /\ g \notin Handling({Unblocker(a, p)})
      /\ \A oo : g \in Resolving(oo) => Head(stack[t]) \in Resolving(oo)
  <2>1. <<o, n>> \in {o} \X Names
    OBVIOUS
  <2> QED BY <1>1, <1>2, <2>1, Membership, ResolverOf
<1> HIDE DEF g
<1>6. /\ StackOK'
      /\ \A S : (g \in S => Head(stack[t]) \in S) =>
                  /\ FrameCount(S) \in Nat /\ FrameCount(S)' \in Nat
                  /\ FrameCount(S)' <= FrameCount(S)
                  /\ Head(stack[t]) \notin S => FrameCount(S)' = FrameCount(S)
  <2>1. CASE Run(<<>>, t)
    <3>1. /\ StackOK'
          /\ \A S : /\ FrameCount(S) \in Nat /\ FrameCount(S)' \in Nat
                    /\ FrameCount(S)' + One(Head(stack[t]) \in S) = FrameCount(S)
      BY <1>1, <2>1, RanNone DEF IInv
    <3> QED BY <3>1 DEF One
  <2>2. CASE Run(<<g>>, t)
    <3>1. /\ StackOK'
          /\ \A S : /\ FrameCount(S) \in Nat /\ FrameCount(S)' \in Nat
                    /\ FrameCount(S)' + One(Head(stack[t]) \in S) = FrameCount(S) + One(g \in S)
      BY <1>1, <1>4, <2>2, RanOne DEF IInv
    <3> QED BY <3>1 DEF One
  <2> QED BY <1>3, <2>1, <2>2
<1>7. /\ HandlersOK' /\ BlockedOnce' /\ OneUnblocker'
      /\ \A S : EntryCount(S)' = EntryCount(S) /\ EntryCount(S) \in Nat
  <2>1. /\ \A w \in Waits : FrameCount({Frame("block", w)})' = FrameCount({Frame("block", w)})
        /\ \A w \in Waits : FrameCount(Handling({Unblocker(w[1], w[2])}))'
                              = FrameCount(Handling({Unblocker(w[1], w[2])}))
    BY <1>5, <1>6
  <2>2. UNCHANGED <<announced, inbox, handlers, blocked>>
    BY <1>3 DEF source, network, tables, modules
  <2> QED BY <2>1, <2>2, BlockingKept
<1>8. ResolversCounted'
  <2>1. ASSUME NEW oo \in Objects
        PROVE  FrameCount(Resolving(oo))' + EntryCount(Resolvers(oo))' <= unresolved[oo]
    <3> DEFINE fc == FrameCount(Resolving(oo))
               ec == EntryCount(Resolvers(oo))
    <3>1. fc + ec <= unresolved[oo] /\ unresolved[oo] \in Nat
      BY DEF IInv, ResolversCounted, TypeOK
    <3>2. fc \in Nat /\ fc' \in Nat /\ fc' <= fc
      BY <1>5, <1>6
    <3>3. ec' = ec /\ ec \in Nat
      BY <1>7
    <3> HIDE DEF fc, ec
    <3>4. fc' + ec' <= unresolved[oo]
      BY <3>1, <3>2, <3>3
    <3> QED BY <3>4 DEF fc, ec
  <2>2. UNCHANGED unresolved
    BY <1>3 DEF shm
  <2> QED BY <2>1, <2>2 DEF ResolversCounted
<1>9. TypeOK' /\ AddsFinite'
  BY <1>3, <1>6, <1>7
     DEF IInv, TypeOK, StackOK, HandlersOK, AddsFinite, source, network, shm, tables, modules
<1> QED BY <1>6, <1>7, <1>8, <1>9 DEF IInv

(* Counts of handlers in a list of calls.                                  *)
LEMMA CallsTyped ==
  ASSUME NEW hs \in Seq(Handlers)
  PROVE  /\ Calls(hs) \in Seq(Frames) /\ Calls(hs) \in Seq(MainFrames)
         /\ \A H : RowCount(Calls(hs), Handling(H)) = RowCount(hs, H)
         /\ \A o : RowCount(Calls(hs), Resolving(o)) = RowCount(hs, Resolvers(o))
         /\ \A w : RowCount(Calls(hs), {Frame("block", w)}) = 0
<1>1. PICK k \in Nat : DOMAIN hs = 1..k /\ \A i \in 1..k : hs[i] \in Handlers
  BY LenProperties, ElementOfSeq
<1>2. Calls(hs) = [i \in 1..k |-> Frame("call", hs[i])]
  BY <1>1 DEF Calls
<1>3. ASSUME NEW i \in 1..k
      PROVE  Frame("call", hs[i]) \in Frames /\ Frame("call", hs[i]) \in MainFrames
  <2>1. Frame("call", hs[i]) \in Frames /\ Frame("call", hs[i]).op \in MainOps
    BY <1>1, FrameMade DEF Frame, MainOps
  <2> QED BY <2>1 DEF MainFrames
<1>4. Calls(hs) \in [1..k -> Frames] /\ Calls(hs) \in [1..k -> MainFrames]
  BY <1>2, <1>3
<1>5. Calls(hs) \in Seq(Frames) /\ Calls(hs) \in Seq(MainFrames)
  BY <1>4
<1>6. DOMAIN Calls(hs) = DOMAIN hs /\ \A i \in DOMAIN hs : Calls(hs)[i] = Frame("call", hs[i])
  BY DEF Calls
<1>7. ASSUME NEW S, NEW H, \A i \in DOMAIN hs : Frame("call", hs[i]) \in S <=> hs[i] \in H
      PROVE  RowCount(Calls(hs), S) = RowCount(hs, H)
  <2>1. Row(Calls(hs), S) = Row(hs, H)
    BY <1>6, <1>7 DEF Row
  <2> QED BY <2>1 DEF RowCount
<1>8. \A H : RowCount(Calls(hs), Handling(H)) = RowCount(hs, H)
  BY <1>7, Membership
<1>9. \A o : RowCount(Calls(hs), Resolving(o)) = RowCount(hs, Resolvers(o))
  BY <1>7, Membership
<1>10. ASSUME NEW w
       PROVE  RowCount(Calls(hs), {Frame("block", w)}) = 0
  <2>1. \A i \in DOMAIN Calls(hs) : Calls(hs)[i] \notin {Frame("block", w)}
    BY <1>6, Membership
  <2> QED BY <2>1, RowNone
<1> QED BY <1>5, <1>8, <1>9, <1>10

LEMMA NoticesTyped ==
  ASSUME NEW adds \in SUBSET Adds, IsFiniteSet(adds), NEW q \in Notices(adds)
  PROVE  /\ q \in Seq(Frames) /\ q \in Seq(MainFrames)
         /\ \A i \in DOMAIN q : q[i].op = "notify"
<1> DEFINE k == Cardinality(adds)
<1>1. k \in Nat
  BY FS_CardinalityType
<1>2. PICK order \in [1..k -> adds] : q = [i \in DOMAIN order |-> Frame("notify", order[i])]
  BY DEF Notices
<1> HIDE DEF k
<1>3. ASSUME NEW i \in 1..k
      PROVE  /\ Frame("notify", order[i]) \in Frames /\ Frame("notify", order[i]) \in MainFrames
             /\ Frame("notify", order[i]).op = "notify"
  <2>1. order[i] \in Adds
    BY <1>2
  <2>2. Frame("notify", order[i]) \in Frames /\ Frame("notify", order[i]).op = "notify"
    BY <2>1, FrameMade DEF Frame
  <2> QED BY <2>2 DEF MainFrames, MainOps
<1>4. q = [i \in 1..k |-> Frame("notify", order[i])]
  BY <1>2
<1>5. q \in [1..k -> Frames] /\ q \in [1..k -> MainFrames]
  BY <1>3, <1>4
<1>6. q \in Seq(Frames) /\ q \in Seq(MainFrames)
  BY <1>1, <1>5
<1> QED BY <1>3, <1>4, <1>6

(* The handlers of a request move to the front of a stack.                 *)
LEMMA HandlersCalled ==
  ASSUME IInv, NEW t \in Threads, stack[t] # <<>>, NEW op, NEW x,
         Head(stack[t]) = Frame(op, x), op \notin CountedOps, NEW n \in Names,
         NEW q \in Seq(Frames), t = Main => q \in Seq(MainFrames),
         \A i \in DOMAIN q : q[i].op \notin CountedOps,
         Run(Calls(handlers[n]) \o q, t), handlers' = [handlers EXCEPT ![n] = <<>>],
         UNCHANGED <<announced, inbox, blocked, unresolved>>
  PROVE  StackOK' /\ HandlersOK' /\ BlockedOnce' /\ OneUnblocker' /\ ResolversCounted'
<1> DEFINE hs == handlers[n]
           c == Calls(hs)
           u == c \o q
<1>1. hs \in Seq(Handlers)
  BY DEF IInv, TypeOK
<1>2. /\ c \in Seq(Frames) /\ c \in Seq(MainFrames)
      /\ \A H : RowCount(c, Handling(H)) = RowCount(hs, H)
      /\ \A o : RowCount(c, Resolving(o)) = RowCount(hs, Resolvers(o))
      /\ \A w : RowCount(c, {Frame("block", w)}) = 0
  BY <1>1, CallsTyped
<1> HIDE DEF c
<1>3. u \in Seq(Frames) /\ (t = Main => u \in Seq(MainFrames))
  BY <1>2, ConcatProperties
<1>4. /\ HandlersOK'
      /\ \A S : /\ EntryCount(S) \in Nat /\ EntryCount(S)' \in Nat
                /\ RowCount(hs, S) \in Nat
                /\ EntryCount(S)' + RowCount(hs, S) = EntryCount(S)
  <2>1. <<>> \in Seq(Handlers)
    OBVIOUS
  <2>2. /\ HandlersOK'
        /\ \A S : /\ EntryCount(S) \in Nat /\ EntryCount(S)' \in Nat
                  /\ RowCount(hs, S) \in Nat
                  /\ EntryCount(S)' + RowCount(hs, S) = EntryCount(S) + RowCount(<<>>, S)
    BY <2>1, HandlersReplaced DEF IInv
  <2>3. \A S : RowCount(<<>>, S) = 0
    BY RowEmpty
  <2> QED BY <2>2, <2>3
<1>5. /\ StackOK'
      /\ \A S : /\ FrameCount(S) \in Nat /\ FrameCount(S)' \in Nat
                /\ FrameCount(S)' + One(Head(stack[t]) \in S) = FrameCount(S) + RowCount(u, S)
  <2> HIDE DEF u
  <2>1. Run(u, t)
    BY DEF u, c
  <2> QED BY <1>3, <2>1, Ran DEF IInv
<1>6. ASSUME NEW S, \A f \in S : f.op \in CountedOps
      PROVE  FrameCount(S)' = FrameCount(S) + RowCount(c, S)
  <2>1. RowCount(q, S) = 0
    BY <1>6, RowNone
  <2>2. Head(stack[t]) \notin S
    BY <1>6 DEF Frame
  <2>3. One(Head(stack[t]) \in S) = 0
    BY <2>2 DEF One
  <2>4. RowCount(u, S) = RowCount(c, S) + RowCount(q, S)
    BY <1>2, RowConcat
  <2>5. RowCount(c, S) \in Nat
    BY <1>2, RowFinite
  <2> HIDE DEF u
  <2>6. /\ FrameCount(S) \in Nat /\ FrameCount(S)' \in Nat
        /\ FrameCount(S)' + One(Head(stack[t]) \in S) = FrameCount(S) + RowCount(u, S)
    BY <1>5
  <2> QED BY <2>1, <2>3, <2>4, <2>5, <2>6
<1> HIDE DEF hs, u
<1>7. /\ \A w, f : f \in {Frame("block", w)} => f.op \in CountedOps
      /\ \A H, f : f \in Handling(H) => f.op \in CountedOps
      /\ \A o, f : f \in Resolving(o) => f.op \in CountedOps
  BY DEF Frame, Handling, Resolving, CountedOps
<1>8. BlockedOnce'
  <2>1. ASSUME NEW w \in Waits
        PROVE  FrameCount({Frame("block", w)})' = FrameCount({Frame("block", w)})
    <3>1. FrameCount({Frame("block", w)})' = FrameCount({Frame("block", w)}) + RowCount(c, {Frame("block", w)})
      BY <1>6, <1>7
    <3> QED BY <1>2, <1>5, <3>1
  <2> QED BY <2>1 DEF IInv, BlockedOnce
<1>9. ASSUME NEW S, NEW H, \A f \in S : f.op \in CountedOps, RowCount(c, S) = RowCount(hs, H)
      PROVE  FrameCount(S)' + EntryCount(H)' = FrameCount(S) + EntryCount(H)
  <2>1. FrameCount(S)' = FrameCount(S) + RowCount(hs, H)
    BY <1>6, <1>9
  <2>2. FrameCount(S) \in Nat /\ FrameCount(S)' \in Nat
    BY <1>5
  <2>3. /\ EntryCount(H) \in Nat /\ EntryCount(H)' \in Nat /\ RowCount(hs, H) \in Nat
        /\ EntryCount(H)' + RowCount(hs, H) = EntryCount(H)
    BY <1>4
  <2> QED BY <2>1, <2>2, <2>3
<1>10. OneUnblocker'
  <2>1. ASSUME NEW w \in Waits
        PROVE  FrameCount(Handling({Unblocker(w[1], w[2])}))'
                  + EntryCount({Unblocker(w[1], w[2])})' = One(w \in blocked)
    <3>1. FrameCount(Handling({Unblocker(w[1], w[2])})) + EntryCount({Unblocker(w[1], w[2])})
             = One(w \in blocked)
      BY DEF IInv, OneUnblocker
    <3> QED BY <1>2, <1>7, <1>9, <3>1
  <2> QED BY <2>1 DEF OneUnblocker
<1>11. ResolversCounted'
  <2>1. ASSUME NEW o \in Objects
        PROVE  FrameCount(Resolving(o))' + EntryCount(Resolvers(o))' <= unresolved[o]
    <3>1. FrameCount(Resolving(o)) + EntryCount(Resolvers(o)) <= unresolved[o]
      BY DEF IInv, ResolversCounted
    <3> QED BY <1>2, <1>7, <1>9, <3>1
  <2> QED BY <2>1 DEF ResolversCounted
<1> QED BY <1>4, <1>5, <1>8, <1>10, <1>11

LEMMA CompleteStep ==
  ASSUME IInv, NEW t \in Threads, Complete(t)
  PROVE  IInv'
<1>1. /\ stack[t] # <<>> /\ Head(stack[t]) \in Frames
      /\ Head(stack[t]) = Frame("complete", Arg(t))
      /\ Head(stack[t]).op = "complete" /\ Head(stack[t]).arg = Arg(t)
  BY HeadTyped DEF Complete, IInv
<1> DEFINE o == Arg(t)
<1>2. o \in Objects /\ o \in Names
  BY <1>1, FrameTyped DEF Names
<1>3. PICK q \in Notices(outstandingAdds[o]) : Run(Calls(handlers[o]) \o q, t)
  BY DEF Complete
<1>4. /\ UNCHANGED <<source, network, shm, modules>>
      /\ requested' = requested \ {o} /\ kept' = kept \ {o}
      /\ handlers' = [handlers EXCEPT ![o] = <<>>]
      /\ outstandingAdds' = [outstandingAdds EXCEPT ![o] = {}]
  BY DEF Complete, CloseRequest
<1> HIDE DEF o
<1>5. outstandingAdds[o] \in SUBSET Adds /\ IsFiniteSet(outstandingAdds[o])
  BY <1>2 DEF IInv, TypeOK, AddsFinite
<1>6. /\ q \in Seq(Frames) /\ q \in Seq(MainFrames)
      /\ \A i \in DOMAIN q : q[i].op \notin CountedOps
  BY <1>5, NoticesTyped DEF CountedOps
<1>7. StackOK' /\ HandlersOK' /\ BlockedOnce' /\ OneUnblocker' /\ ResolversCounted'
  <2>1. UNCHANGED <<announced, inbox, blocked, unresolved>>
    BY <1>4 DEF source, network, shm, modules
  <2>2. "complete" \notin CountedOps
    BY DEF CountedOps
  <2> QED BY <1>1, <1>2, <1>3, <1>4, <1>6, <2>1, <2>2, HandlersCalled DEF o
<1>8. outstandingAdds' \in [Objects -> SUBSET Adds]
  BY <1>4 DEF IInv, TypeOK
<1>9. TypeOK'
  BY <1>4, <1>7, <1>8 DEF IInv, TypeOK, StackOK, HandlersOK, source, network, shm, modules
<1>10. AddsFinite'
  BY <1>4, FS_EmptySet DEF IInv, TypeOK, AddsFinite
<1> QED BY <1>7, <1>9, <1>10 DEF IInv

LEMMA ArrayDoneStep ==
  ASSUME IInv, NEW t \in Threads, ArrayDone(t)
  PROVE  IInv'
<1>1. /\ stack[t] # <<>> /\ Head(stack[t]) \in Frames
      /\ Head(stack[t]) = Frame("arrayDone", Arg(t))
      /\ Head(stack[t]).op = "arrayDone" /\ Head(stack[t]).arg = Arg(t)
  BY HeadTyped DEF ArrayDone, IInv
<1> DEFINE n == Arg(t)
           q == <<>>
<1>2. n \in Names
  BY <1>1, FrameTyped DEF Names
<1>3. /\ UNCHANGED <<source, network, shm, outstandingAdds, kept, modules>>
      /\ requested' = requested \ {n} /\ Run(Calls(handlers[n]), t)
      /\ handlers' = [handlers EXCEPT ![n] = <<>>]
  BY DEF ArrayDone
<1> HIDE DEF n
<1>4. /\ q \in Seq(Frames) /\ q \in Seq(MainFrames)
      /\ \A i \in DOMAIN q : q[i].op \notin CountedOps
  OBVIOUS
<1>5. Run(Calls(handlers[n]) \o q, t)
  <2>1. Calls(handlers[n]) \in Seq(Frames)
    BY <1>2, CallsTyped DEF IInv, TypeOK
  <2>2. Calls(handlers[n]) \o q = Calls(handlers[n])
    BY <2>1, ConcatEmptySeq
  <2> QED BY <1>3, <2>2
<1> HIDE DEF q
<1>6. StackOK' /\ HandlersOK' /\ BlockedOnce' /\ OneUnblocker' /\ ResolversCounted'
  <2>1. UNCHANGED <<announced, inbox, blocked, unresolved>>
    BY <1>3 DEF source, network, shm, modules
  <2>2. "arrayDone" \notin CountedOps
    BY DEF CountedOps
  <2> QED BY <1>1, <1>2, <1>3, <1>4, <1>5, <2>1, <2>2, HandlersCalled DEF n
<1>7. TypeOK' /\ AddsFinite'
  BY <1>3, <1>6 DEF IInv, TypeOK, StackOK, HandlersOK, AddsFinite, source, network, shm, modules
<1> QED BY <1>6, <1>7 DEF IInv

LEMMA RowAppend ==
  ASSUME NEW X, NEW s \in Seq(X), NEW x \in X
  PROVE  /\ Append(s, x) \in Seq(X)
         /\ \A S : RowCount(Append(s, x), S) = RowCount(s, S) + One(x \in S)
<1>1. Append(s, x) = s \o <<x>> /\ <<x>> \in Seq(X) /\ Append(s, x) \in Seq(X)
  BY AppendProperties, AppendIsConcat
<1>2. \A S : RowCount(s \o <<x>>, S) = RowCount(s, S) + RowCount(<<x>>, S)
  BY <1>1, RowConcat
<1>3. \A S : RowCount(<<x>>, S) = One(x \in S)
  BY RowOne
<1> QED BY <1>1, <1>2, <1>3

LEMMA EnlistStep ==
  ASSUME IInv, NEW t \in Threads, Enlist(t)
  PROVE  IInv'
<1>1. /\ stack[t] # <<>> /\ Head(stack[t]) \in Frames
      /\ Head(stack[t]) = Frame("enlist", Arg(t))
      /\ Head(stack[t]).op = "enlist" /\ Head(stack[t]).arg = Arg(t)
  BY HeadTyped DEF Enlist, IInv
<1> DEFINE h == Arg(t)
           n == Subject(h)
<1>2. h \in Handlers /\ n \in Names
  BY <1>1, FrameTyped, HandlerTyped
<1>3. /\ UNCHANGED <<source, inbox, replies, completions, shm, kept, modules>>
      /\ handlers' = [handlers EXCEPT ![n] = Append(@, h)]
      /\ requested' = requested \cup {n}
      /\ requests' = requests \/ requests' = [requests EXCEPT ![n] = @ + 1]
      /\ outstandingAdds' = IF h[1] = "unblock"
                            THEN [outstandingAdds EXCEPT ![n] = @ \cup {h[2]}]
                            ELSE outstandingAdds
      /\ Run(<<>>, t)
  BY DEF Enlist, OpenRequest, Ask
<1>4. h[1] = "unblock" => h[2] \in Adds /\ n \in Objects
  <2>1. \A o, m : Resolver(o, m)[1] # "unblock"
    BY DEF Resolver
  <2>2. ASSUME NEW a \in Adds, NEW p \in PortNames
        PROVE  Unblocker(a, p)[2] \in Adds /\ Subject(Unblocker(a, p)) \in Objects
    BY TransferAssumption DEF Unblocker, Subject
  <2> QED BY <1>2, <2>1, <2>2, HandlerTyped
<1> HIDE DEF n
<1>5. /\ StackOK'
      /\ \A S : /\ FrameCount(S) \in Nat /\ FrameCount(S)' \in Nat
                /\ FrameCount(S)' + One(Head(stack[t]) \in S) = FrameCount(S)
  BY <1>1, <1>3, RanNone DEF IInv
<1>6. /\ HandlersOK'
      /\ \A S : /\ EntryCount(S) \in Nat /\ EntryCount(S)' \in Nat
                /\ EntryCount(S)' = EntryCount(S) + One(h \in S)
  <2> DEFINE r == handlers[n]
             s == Append(r, h)
  <2>1. r \in Seq(Handlers)
    BY <1>2 DEF IInv, TypeOK
  <2>2. /\ s \in Seq(Handlers)
        /\ \A S : RowCount(s, S) = RowCount(r, S) + One(h \in S)
    BY <1>2, <2>1, RowAppend
  <2>3. handlers' = [handlers EXCEPT ![n] = s]
    BY <1>3
  <2> HIDE DEF s
  <2>4. /\ HandlersOK'
        /\ \A S : /\ EntryCount(S) \in Nat /\ EntryCount(S)' \in Nat
                  /\ RowCount(r, S) \in Nat /\ RowCount(s, S) \in Nat
                  /\ EntryCount(S)' + RowCount(r, S) = EntryCount(S) + RowCount(s, S)
    BY <1>2, <2>2, <2>3, HandlersReplaced DEF IInv
  <2> HIDE DEF r
  <2>5. ASSUME NEW S
        PROVE  EntryCount(S)' = EntryCount(S) + One(h \in S)
    <3>1. One(h \in S) \in Nat
      BY DEF One
    <3>2. /\ EntryCount(S) \in Nat /\ EntryCount(S)' \in Nat
          /\ RowCount(r, S) \in Nat /\ RowCount(s, S) \in Nat
          /\ EntryCount(S)' + RowCount(r, S) = EntryCount(S) + RowCount(s, S)
          /\ RowCount(s, S) = RowCount(r, S) + One(h \in S)
      BY <2>2, <2>4
    <3> QED BY <3>1, <3>2
  <2> QED BY <2>4, <2>5
<1>7. ASSUME NEW S, NEW H, Head(stack[t]) \in S <=> h \in H
      PROVE  FrameCount(S)' + EntryCount(H)' = FrameCount(S) + EntryCount(H)
  <2>1. One(Head(stack[t]) \in S) = One(h \in H) /\ One(h \in H) \in Nat
    BY <1>7 DEF One
  <2>2. /\ FrameCount(S) \in Nat /\ FrameCount(S)' \in Nat
        /\ FrameCount(S)' + One(Head(stack[t]) \in S) = FrameCount(S)
    BY <1>5
  <2>3. EntryCount(H) \in Nat /\ EntryCount(H)' = EntryCount(H) + One(h \in H)
    BY <1>6
  <2> QED BY <2>1, <2>2, <2>3
<1>8. /\ \A w : Head(stack[t]) \notin {Frame("block", w)}
      /\ \A H : Head(stack[t]) \in Handling(H) <=> h \in H
      /\ \A o : Head(stack[t]) \in Resolving(o) <=> h \in Resolvers(o)
  BY <1>1, Membership
<1> HIDE DEF h
<1>9. OneUnblocker'
  <2>1. ASSUME NEW w \in Waits
        PROVE  FrameCount(Handling({Unblocker(w[1], w[2])}))'
                  + EntryCount({Unblocker(w[1], w[2])})' = One(w \in blocked)
    <3>1. FrameCount(Handling({Unblocker(w[1], w[2])})) + EntryCount({Unblocker(w[1], w[2])})
            = One(w \in blocked)
      BY DEF IInv, OneUnblocker
    <3>2. FrameCount(Handling({Unblocker(w[1], w[2])}))' + EntryCount({Unblocker(w[1], w[2])})'
            = FrameCount(Handling({Unblocker(w[1], w[2])})) + EntryCount({Unblocker(w[1], w[2])})
      BY <1>7, <1>8
    <3> QED BY <3>1, <3>2
  <2>2. UNCHANGED blocked
    BY <1>3 DEF modules
  <2> QED BY <2>1, <2>2 DEF OneUnblocker
<1>10. ResolversCounted'
  <2>1. ASSUME NEW o \in Objects
        PROVE  FrameCount(Resolving(o))' + EntryCount(Resolvers(o))' <= unresolved[o]
    <3>1. FrameCount(Resolving(o)) + EntryCount(Resolvers(o)) <= unresolved[o]
      BY DEF IInv, ResolversCounted
    <3>2. FrameCount(Resolving(o))' + EntryCount(Resolvers(o))'
            = FrameCount(Resolving(o)) + EntryCount(Resolvers(o))
      BY <1>7, <1>8
    <3> QED BY <3>1, <3>2
  <2>2. UNCHANGED unresolved
    BY <1>3 DEF shm
  <2> QED BY <2>1, <2>2 DEF ResolversCounted
<1>11. BlockedOnce'
  <2>1. ASSUME NEW w \in Waits
        PROVE  FrameCount({Frame("block", w)})' = FrameCount({Frame("block", w)})
    <3>1. One(Head(stack[t]) \in {Frame("block", w)}) = 0
      BY <1>8 DEF One
    <3>2. /\ FrameCount({Frame("block", w)}) \in Nat /\ FrameCount({Frame("block", w)})' \in Nat
          /\ FrameCount({Frame("block", w)})' + One(Head(stack[t]) \in {Frame("block", w)})
               = FrameCount({Frame("block", w)})
      BY <1>5
    <3> QED BY <3>1, <3>2
  <2>2. UNCHANGED <<inbox, announced, blocked>>
    BY <1>3 DEF source, modules
  <2> QED BY <2>1, <2>2 DEF IInv, BlockedOnce
<1>12. outstandingAdds' \in [Objects -> SUBSET Adds] /\ requests' \in [Names -> Nat]
  <2>1. outstandingAdds' \in [Objects -> SUBSET Adds]
    BY <1>3, <1>4 DEF IInv, TypeOK
  <2>2. requests' \in [Names -> Nat]
    BY <1>3 DEF IInv, TypeOK
  <2> QED BY <2>1, <2>2
<1>13. TypeOK'
  BY <1>2, <1>3, <1>5, <1>6, <1>12 DEF IInv, TypeOK, StackOK, HandlersOK, source, shm, modules
<1>14. AddsFinite'
  <2>1. ASSUME NEW o \in Objects
        PROVE  IsFiniteSet(outstandingAdds'[o])
    <3>1. IsFiniteSet(outstandingAdds[o])
      BY DEF IInv, AddsFinite
    <3>2. IsFiniteSet(outstandingAdds[o] \cup {h[2]})
      BY <3>1, FS_AddElement
    <3>3. outstandingAdds'[o] = outstandingAdds[o] \/ outstandingAdds'[o] = outstandingAdds[o] \cup {h[2]}
      BY <1>3 DEF IInv, TypeOK
    <3> QED BY <3>1, <3>2, <3>3
  <2> QED BY <2>1 DEF AddsFinite
<1> QED BY <1>5, <1>6, <1>9, <1>10, <1>11, <1>13, <1>14 DEF IInv
-----------------------------------------------------------------------------
(* Announcing an object, and receiving its announcement.                   *)

LEMMA AnnounceStep ==
  ASSUME IInv, NEW a \in Adds, Announce(a)
  PROVE  IInv'
<1>1. /\ a \notin announced /\ announced' = announced \cup {a}
      /\ inTransitObjects' = inTransitObjects \cup {a}
      /\ inbox' = Append(inbox, a)
      /\ UNCHANGED <<requests, replies, completions, shm, tables, modules, stack>>
  BY DEF Announce
<1>2. /\ inbox' \in Seq(Adds)
      /\ \A S : RowCount(inbox', S) = RowCount(inbox, S) + One(a \in S)
  BY <1>1, RowAppend DEF IInv, TypeOK
<1>3. \A S : FrameCount(S)' = FrameCount(S) /\ EntryCount(S)' = EntryCount(S)
  BY <1>1 DEF FrameCount, EntryCount, tables
<1>4. BlockedOnce'
  <2>1. ASSUME NEW w \in Waits
        PROVE  RowCount(inbox', {w[1]}) + FrameCount({Frame("block", w)}) + One(w \in blocked)
                 <= One(w[1] \in announced')
    <3> DEFINE i == RowCount(inbox, {w[1]})
               f == FrameCount({Frame("block", w)})
               b == One(w \in blocked)
    <3>1. i + f + b <= One(w[1] \in announced)
      BY DEF IInv, BlockedOnce
    <3>2. i \in Nat /\ f \in Nat /\ b \in Nat
      BY RowFinite, CountsTyped DEF IInv, TypeOK, One
    <3>3. RowCount(inbox', {w[1]}) = i + One(a \in {w[1]})
      BY <1>2
    <3>4. w[1] = a => One(w[1] \in announced) = 0
      BY <1>1 DEF One
    <3>5. One(w[1] \in announced) <= One(w[1] \in announced') /\ One(w[1] \in announced) \in Nat
          /\ One(w[1] \in announced') \in Nat
      BY <1>1 DEF One
    <3>6. w[1] = a => One(w[1] \in announced') = 1
      BY <1>1 DEF One
    <3> HIDE DEF i, f, b
    <3>7. CASE w[1] = a
      <4>1. One(a \in {w[1]}) = 1
        BY <3>7 DEF One
      <4> QED BY <3>1, <3>2, <3>3, <3>4, <3>6, <3>7, <4>1 DEF f, b
    <3>8. CASE w[1] # a
      <4>1. One(a \in {w[1]}) = 0
        BY <3>8 DEF One
      <4> QED BY <3>1, <3>2, <3>3, <3>5, <4>1 DEF f, b
    <3> QED BY <3>7, <3>8
  <2>2. UNCHANGED blocked
    BY <1>1 DEF modules
  <2> QED BY <1>3, <2>1, <2>2 DEF BlockedOnce
<1>5. OneUnblocker' /\ ResolversCounted'
  BY <1>1, <1>3 DEF IInv, OneUnblocker, ResolversCounted, modules, shm
<1>6. StackOK' /\ HandlersOK' /\ AddsFinite'
  BY <1>1 DEF IInv, StackOK, HandlersOK, AddsFinite, tables
<1>7. TypeOK'
  BY <1>1, <1>2 DEF IInv, TypeOK, shm, tables, modules
<1> QED BY <1>4, <1>5, <1>6, <1>7 DEF IInv

LEMMA RowTail ==
  ASSUME NEW X, NEW s \in Seq(X), s # <<>>, NEW S
  PROVE  /\ Tail(s) \in Seq(X)
         /\ RowCount(Tail(s), S) + One(Head(s) \in S) = RowCount(s, S)
<1>1. <<>> \in Seq(X) /\ Tail(s) \in Seq(X)
  BY HeadTailProperties
<1>2. RowCount(<<>> \o Tail(s), S) + One(Head(s) \in S) = RowCount(<<>>, S) + RowCount(s, S)
  BY <1>1, RowReplaced
<1>3. <<>> \o Tail(s) = Tail(s)
  BY <1>1, ConcatEmptySeq
<1>4. RowCount(<<>>, S) = 0 /\ RowCount(s, S) \in Nat
  BY RowEmpty, RowFinite
<1> QED BY <1>1, <1>2, <1>3, <1>4

LEMMA RowAtMostOne ==
  ASSUME NEW X, NEW s \in Seq(X), NEW S, \A i, j \in Row(s, S) : i = j
  PROVE  RowCount(s, S) <= 1
<1>1. CASE Row(s, S) = {}
  BY <1>1, FS_EmptySet DEF RowCount
<1>2. CASE Row(s, S) # {}
  <2>1. PICK i : Row(s, S) = {i}
    BY <1>2
  <2>2. Cardinality({i}) = 1
    BY FS_Singleton
  <2> QED BY <2>1, <2>2 DEF RowCount
<1> QED BY <1>1, <1>2

(* The frames for the ports of an AddObject.                               *)
ForPorts(a, op) == [i \in DOMAIN Ports[a] |-> Frame(op, <<a, Ports[a][i]>>)]

LEMMA PortFrames ==
  ASSUME NEW a \in Adds, NEW op \in {"send", "block"}
  PROVE  /\ ForPorts(a, op) \in Seq(MainFrames)
         /\ \A i \in DOMAIN ForPorts(a, op) : ForPorts(a, op)[i].op = op
         /\ \A w : RowCount(ForPorts(a, op), {Frame("block", w)}) <= One(w[1] = a)
<1> DEFINE r == ForPorts(a, op)
<1>1. Ports[a] \in Seq(PortNames)
      /\ \A i, j \in DOMAIN Ports[a] : Ports[a][i] = Ports[a][j] => i = j
  BY TransferAssumption
<1>2. PICK k \in Nat : DOMAIN Ports[a] = 1..k /\ \A i \in 1..k : Ports[a][i] \in PortNames
  BY <1>1, LenProperties, ElementOfSeq
<1>3. ASSUME NEW i \in 1..k
      PROVE  Frame(op, <<a, Ports[a][i]>>) \in MainFrames
  <2>1. /\ Frame(op, <<a, Ports[a][i]>>) \in Frames
        /\ Frame(op, <<a, Ports[a][i]>>).op = op
    BY <1>2, FrameMade DEF Frame
  <2> QED BY <2>1 DEF MainFrames, MainOps
<1>4. r = [i \in 1..k |-> Frame(op, <<a, Ports[a][i]>>)]
  BY <1>2 DEF ForPorts
<1>5. r \in [1..k -> MainFrames]
  BY <1>3, <1>4
<1>6. r \in Seq(MainFrames)
  <2> HIDE DEF r
  <2> QED BY <1>5
<1>7. DOMAIN r = 1..k /\ \A i \in 1..k : r[i] = Frame(op, <<a, Ports[a][i]>>)
  BY <1>2 DEF ForPorts
<1> HIDE DEF r
<1>8. ASSUME NEW w
      PROVE  RowCount(r, {Frame("block", w)}) <= One(w[1] = a)
  <2>1. ASSUME NEW i \in Row(r, {Frame("block", w)})
        PROVE  i \in 1..k /\ w = <<a, Ports[a][i]>>
    <3>1. i \in 1..k /\ Frame(op, <<a, Ports[a][i]>>) = Frame("block", w)
      BY <1>7 DEF Row
    <3> QED BY <3>1 DEF Frame
  <2>2. CASE w[1] = a
    <3>1. \A i, j \in Row(r, {Frame("block", w)}) : i = j
      BY <1>1, <1>2, <2>1
    <3>2. RowCount(r, {Frame("block", w)}) <= 1
      BY <1>6, <3>1, RowAtMostOne
    <3> QED BY <2>2, <3>2 DEF One
  <2>3. CASE w[1] # a
    <3>1. Row(r, {Frame("block", w)}) = {}
      BY <2>1, <2>3
    <3>2. RowCount(r, {Frame("block", w)}) = 0
      BY <3>1, FS_EmptySet DEF RowCount
    <3> QED BY <2>3, <3>2 DEF One
  <2> QED BY <2>2, <2>3
<1>9. \A i \in DOMAIN r : r[i].op = op
  BY <1>7 DEF Frame
<1> QED BY <1>6, <1>8, <1>9 DEF r

LEMMA HandleAddObjectStep ==
  ASSUME IInv, HandleAddObject
  PROVE  IInv'
<1> DEFINE a == Head(inbox)
<1>1. /\ stack[Main] = <<>> /\ inbox # <<>> /\ inbox' = Tail(inbox)
      /\ UNCHANGED <<source, requests, replies, completions, shm, tables, modules>>
  BY DEF HandleAddObject
<1>2. PICK op \in {"send", "block"}, pre \in {<<>>, <<Frame("notify", a)>>} :
        stack' = [stack EXCEPT ![Main] = pre \o ForPorts(a, op)]
  BY DEF HandleAddObject, ForPorts
<1> DEFINE r == ForPorts(a, op)
           u == pre \o r
<1>3. a \in Adds /\ inbox \in Seq(Adds) /\ Main \in Threads
  BY <1>1, HeadTailProperties DEF IInv, TypeOK, Threads
<1>4. /\ inbox' \in Seq(Adds)
      /\ \A S : RowCount(inbox', S) + One(a \in S) = RowCount(inbox, S)
  BY <1>1, <1>3, RowTail
<1> HIDE DEF a
<1>5. /\ r \in Seq(MainFrames) /\ \A i \in DOMAIN r : r[i].op = op
      /\ \A w : RowCount(r, {Frame("block", w)}) <= One(w[1] = a)
  BY <1>3, PortFrames
<1>6. stack' = [stack EXCEPT ![Main] = u]
  BY <1>2
<1>7. pre \in Seq(MainFrames) /\ \A i \in DOMAIN pre : pre[i].op = "notify"
  <2>1. Frame("notify", a) \in Frames /\ Frame("notify", a).op = "notify"
    BY <1>3, FrameMade DEF Frame
  <2>2. Frame("notify", a) \in MainFrames
    BY <2>1 DEF MainFrames, MainOps
  <2> DEFINE g == Frame("notify", a)
  <2>3. g \in MainFrames /\ g.op = "notify" /\ (pre = <<>> \/ pre = <<g>>)
    BY <2>1, <2>2
  <2> HIDE DEF g
  <2>4. <<>> \in Seq(MainFrames) /\ <<g>> \in Seq(MainFrames)
    BY <2>3
  <2>5. \A i \in DOMAIN pre : pre[i].op = "notify"
    BY <2>3
  <2> QED BY <2>3, <2>4, <2>5
<1> HIDE DEF r
<1>8. u \in Seq(MainFrames) /\ u \in Seq(Frames)
  <2>1. u \in Seq(MainFrames)
    BY <1>5, <1>7, ConcatProperties
  <2>2. MainFrames \subseteq Frames
    BY DEF MainFrames
  <2> QED BY <2>1, <2>2, SeqMonotonic
<1>9. \A S : RowCount(u, S) = RowCount(pre, S) + RowCount(r, S)
  BY <1>5, <1>7, RowConcat
<1> HIDE DEF u
<1>10. /\ StackOK'
       /\ \A S : /\ FrameCount(S) \in Nat /\ RowCount(u, S) \in Nat
                 /\ FrameCount(S)' = FrameCount(S) + RowCount(u, S)
  BY <1>1, <1>3, <1>6, <1>8, Started DEF IInv
<1>11. ASSUME NEW w
       PROVE  RowCount(u, {Frame("block", w)}) <= One(w[1] = a)
  <2>1. \A i \in DOMAIN pre : pre[i] \notin {Frame("block", w)}
    BY <1>7 DEF Frame
  <2>2. RowCount(pre, {Frame("block", w)}) = 0
    BY <2>1, RowNone
  <2>3. RowCount(r, {Frame("block", w)}) \in Nat
    BY <1>5, RowFinite
  <2>4. RowCount(u, {Frame("block", w)}) = RowCount(r, {Frame("block", w)})
    BY <1>9, <2>2, <2>3
  <2> QED BY <1>5, <2>4
<1>12. ASSUME NEW S, \A f \in S : f.op \in {"want", "enlist", "call", "fetch"}
       PROVE  FrameCount(S)' = FrameCount(S)
  <2>1. RowCount(pre, S) = 0
    BY <1>7, <1>12, RowNone
  <2>2. RowCount(r, S) = 0
    BY <1>5, <1>12, RowNone
  <2>3. RowCount(u, S) = 0
    BY <1>9, <2>1, <2>2
  <2> QED BY <1>10, <2>3
<1>13. BlockedOnce'
  <2>1. ASSUME NEW w \in Waits
        PROVE  RowCount(inbox', {w[1]}) + FrameCount({Frame("block", w)})' + One(w \in blocked)
                 <= One(w[1] \in announced)
    <3> DEFINE i == RowCount(inbox, {w[1]})
               f == FrameCount({Frame("block", w)})
               b == One(w \in blocked)
               d == One(w[1] \in announced)
               j == RowCount(inbox', {w[1]})
               k == RowCount(u, {Frame("block", w)})
               g == FrameCount({Frame("block", w)})'
    <3>1. i + f + b <= d
      BY DEF IInv, BlockedOnce
    <3>2. i \in Nat /\ j \in Nat /\ f \in Nat /\ b \in Nat /\ d \in Nat /\ k \in Nat
      BY <1>3, <1>4, <1>10, RowFinite DEF One
    <3>3. One(a \in {w[1]}) = One(w[1] = a) /\ One(w[1] = a) \in Nat
      BY DEF One
    <3>4. j + One(w[1] = a) = i
      BY <1>4, <3>3
    <3>5. g = f + k
      BY <1>10
    <3>6. k <= One(w[1] = a)
      BY <1>11
    <3> HIDE DEF i, f, b, d, j, k, g
    <3>7. j + g + b <= d
      BY <3>1, <3>2, <3>3, <3>4, <3>5, <3>6
    <3> QED BY <3>7 DEF j, g, b, d
  <2>2. UNCHANGED <<blocked, announced>>
    BY <1>1 DEF modules, source
  <2> QED BY <2>1, <2>2 DEF BlockedOnce
<1>14. \A S : EntryCount(S)' = EntryCount(S)
  BY <1>1 DEF EntryCount, tables
<1>15. OneUnblocker' /\ ResolversCounted'
  <2>1. /\ \A H, f : f \in Handling(H) => f.op \in {"want", "enlist", "call", "fetch"}
        /\ \A o, f : f \in Resolving(o) => f.op \in {"want", "enlist", "call", "fetch"}
    BY DEF Handling, Resolving
  <2>2. /\ \A w \in Waits : FrameCount(Handling({Unblocker(w[1], w[2])}))'
                              = FrameCount(Handling({Unblocker(w[1], w[2])}))
        /\ \A o \in Objects : FrameCount(Resolving(o))' = FrameCount(Resolving(o))
    BY <1>12, <2>1
  <2> QED BY <1>1, <1>14, <2>2 DEF IInv, OneUnblocker, ResolversCounted, modules, shm
<1>16. HandlersOK' /\ AddsFinite'
  BY <1>1 DEF IInv, HandlersOK, AddsFinite, tables
<1>17. TypeOK'
  BY <1>1, <1>4, <1>10 DEF IInv, TypeOK, StackOK, source, shm, tables, modules
<1> QED BY <1>10, <1>13, <1>15, <1>16, <1>17 DEF IInv
-----------------------------------------------------------------------------
(* The invariant, and what it says.                                        *)

LEMMA InitIInv ==
  ASSUME Init
  PROVE  IInv
<1>1. TypeOK
  BY DEF Init, TypeOK
<1>2. \A S : Spots(stack, Threads, S) = {} /\ Spots(handlers, Names, S) = {}
  BY DEF Init, Spots, Row
<1>3. \A S : FrameCount(S) = 0 /\ EntryCount(S) = 0
  BY <1>2, FS_EmptySet DEF FrameCount, EntryCount
<1>4. StackOK /\ HandlersOK
  <2>1. IsFiniteSet(Spots(stack, Threads, Frames)) /\ IsFiniteSet(Spots(handlers, Names, Handlers))
    BY <1>2, FS_EmptySet
  <2>2. stack[Main] = <<>> /\ <<>> \in Seq(MainFrames)
    BY DEF Init, Threads
  <2> QED BY <1>1, <2>1, <2>2 DEF TypeOK, StackOK, HandlersOK
<1>5. AddsFinite
  BY FS_EmptySet DEF Init, AddsFinite
<1>6. \A S : RowCount(inbox, S) = 0
  BY RowEmpty DEF Init
<1>7. BlockedOnce /\ OneUnblocker /\ ResolversCounted
  BY <1>3, <1>6 DEF Init, BlockedOnce, OneUnblocker, ResolversCounted, One
<1> QED BY <1>1, <1>4, <1>5, <1>7 DEF IInv

LEMMA NextIInv ==
  ASSUME IInv, [Next]_vars
  PROVE  IInv'
<1>1. CASE UNCHANGED vars
  <2>1. UNCHANGED <<announced, inbox, handlers, blocked, unresolved, stack, outstandingAdds>>
    BY <1>1 DEF vars, source, network, shm, tables, modules
  <2>2. StackOK' /\ AddsFinite'
    BY <2>1 DEF IInv, StackOK, AddsFinite
  <2>3. \A S : FrameCount(S)' = FrameCount(S)
    BY <2>1 DEF FrameCount
  <2>4. HandlersOK' /\ BlockedOnce' /\ OneUnblocker' /\ ResolversCounted'
    BY <2>1, <2>3, Neutral
  <2>5. TypeOK'
    BY <1>1 DEF IInv, TypeOK, vars, source, network, shm, tables, modules
  <2> QED BY <2>2, <2>4, <2>5 DEF IInv
<1>2. CASE \E a \in Adds : Announce(a)
  BY <1>2, AnnounceStep
<1>3. CASE (\E a \in Adds : CompleteTransfer(a)) \/ (\E n \in Names : ServeRequest(n))
  BY <1>3, SourceStep
<1>4. CASE HandleAddObject
  BY <1>4, HandleAddObjectStep
<1>5. CASE \E t \in Tasks, n \in Names : ReceiveReply(t, n)
  BY <1>5, ReceiveReplyStep
<1>6. ASSUME NEW t \in Threads, Step(t)
      PROVE  IInv'
  <2>1. CASE SendAddObject(t) \/ BlockModule(t) \/ NotifyTransferComplete(t) \/ Want(t) \/ Enlist(t)
    BY <2>1, SendAddObjectStep, BlockModuleStep, NotifyTransferCompleteStep, WantStep, EnlistStep
  <2>2. CASE Unblock(t) \/ Resolve(t) \/ LastResolved(t) \/ Complete(t)
    BY <2>2, UnblockStep, ResolveStep, LastResolvedStep, CompleteStep
  <2>3. CASE LoadObject(t) \/ Restore(t) \/ LoadReference(t) \/ GetObject(t) \/ FinishRestore(t)
    BY <2>3, LoadObjectStep, RestoreStep, LoadReferenceStep, GetObjectStep, FinishRestoreStep
  <2>4. CASE CheckComplete(t) \/ KeepObject(t) \/ LoadArray(t) \/ FillArray(t) \/ ArrayDone(t)
    BY <2>4, CheckCompleteStep, KeepObjectStep, LoadArrayStep, FillArrayStep, ArrayDoneStep
  <2> QED BY <1>6, <2>1, <2>2, <2>3, <2>4 DEF Step
<1> QED BY <1>1, <1>2, <1>3, <1>4, <1>5, <1>6 DEF Next

(* The inductive invariant holds in every state.                           *)
THEOREM Invariant == Spec => []IInv
<1>1. Init => IInv
  BY InitIInv
<1>2. IInv /\ [Next]_vars => IInv'
  BY NextIInv
<1> QED BY <1>1, <1>2, PTL DEF Spec

(* Every frame on a stack and every handler of a request is of its type,   *)
(* and no counter goes below zero: TypeOK in every state.                  *)
THEOREM TypeCorrect == Spec => []TypeOK
<1>1. IInv => TypeOK
  BY DEF IInv
<1> QED BY <1>1, Invariant, PTL

(* The places of the properties are those that the invariant counts.       *)
LEMMA PlacesCounted ==
  ASSUME IInv, NEW w \in Waits
  PROVE  LET h == Unblocker(w[1], w[2])
         IN  Places(h) = Spots(stack, Threads, Handling({h})) \cup Spots(handlers, Names, {h})
<1> DEFINE h == Unblocker(w[1], w[2])
<1>1. \A f \in Frames : (IsHandling(f) /\ f.arg = h) <=> f \in Handling({h})
  BY DEF Frames, IsHandling, Handling
<1>2. \A t \in Threads : \A i \in DOMAIN stack[t] : stack[t][i] \in Frames
  BY LenProperties, ElementOfSeq DEF IInv, StackOK
<1> HIDE DEF h
<1>3. Spots(stack, Threads, Handling({h}))
        = UNION {{<<t, i>> : i \in {j \in DOMAIN stack[t] :
                    IsHandling(stack[t][j]) /\ stack[t][j].arg = h}} : t \in Threads}
  <2>1. ASSUME NEW t \in Threads
        PROVE  Row(stack[t], Handling({h}))
                 = {j \in DOMAIN stack[t] : IsHandling(stack[t][j]) /\ stack[t][j].arg = h}
    BY <1>1, <1>2 DEF Row
  <2> QED BY <2>1 DEF Spots
<1>4. Spots(handlers, Names, {h})
        = UNION {{<<n, i>> : i \in {j \in DOMAIN handlers[n] : handlers[n][j] = h}} : n \in Names}
  BY DEF Spots, Row
<1>5. Places(h) = Spots(stack, Threads, Handling({h})) \cup Spots(handlers, Names, {h})
  BY <1>3, <1>4 DEF Places, FramePlaces, HandlerPlaces
<1> QED BY <1>5 DEF h

LEMMA UnionCount ==
  ASSUME NEW A, IsFiniteSet(A), NEW B, IsFiniteSet(B)
  PROVE  /\ Cardinality(A \cup B) \in Nat
         /\ Cardinality(A \cup B) <= Cardinality(A) + Cardinality(B)
         /\ Cardinality(A \cup B) >= Cardinality(A) /\ Cardinality(A \cup B) >= Cardinality(B)
<1>1. /\ IsFiniteSet(A \cup B) /\ IsFiniteSet(A \cap B)
      /\ Cardinality(A \cup B) = Cardinality(A) + Cardinality(B) - Cardinality(A \cap B)
  BY FS_Union, FS_Subset
<1>2. /\ Cardinality(A) \in Nat /\ Cardinality(B) \in Nat
      /\ Cardinality(A \cap B) \in Nat /\ Cardinality(A \cup B) \in Nat
  BY <1>1, FS_CardinalityType
<1>3. Cardinality(A \cap B) <= Cardinality(A) /\ Cardinality(A \cap B) <= Cardinality(B)
  BY FS_Subset
<1> QED BY <1>1, <1>2, <1>3

LEMMA SpotsTyped ==
  ASSUME IInv, NEW S, NEW H
  PROVE  /\ IsFiniteSet(Spots(stack, Threads, S)) /\ IsFiniteSet(Spots(handlers, Names, H))
         /\ FrameCount(S) \in Nat /\ EntryCount(H) \in Nat
BY SpotsFinite DEF IInv, StackOK, HandlersOK, FrameCount, EntryCount

(* A module is blocked exactly while one handler is going to unblock it:   *)
(* BlockedHasHandler in every state, for all objects, ports and tasks.     *)
THEOREM BlockedModulesHaveHandlers == Spec => []BlockedHasHandler
<1>1. IInv => BlockedHasHandler
  <2> SUFFICES ASSUME IInv, NEW w \in Waits
               PROVE  Cardinality(Places(Unblocker(w[1], w[2]))) = One(w \in blocked)
    BY DEF BlockedHasHandler, One
  <2> DEFINE h == Unblocker(w[1], w[2])
             A == Spots(stack, Threads, Handling({h}))
             B == Spots(handlers, Names, {h})
  <2>1. Places(h) = A \cup B
    BY PlacesCounted
  <2>2. FrameCount(Handling({h})) + EntryCount({h}) = One(w \in blocked)
    BY DEF IInv, OneUnblocker
  <2>3. IsFiniteSet(A) /\ IsFiniteSet(B) /\ Cardinality(A) \in Nat /\ Cardinality(B) \in Nat
    BY SpotsTyped DEF FrameCount, EntryCount
  <2>4. Cardinality(A) + Cardinality(B) = One(w \in blocked)
    BY <2>2 DEF FrameCount, EntryCount
  <2>5. One(w \in blocked) \in {0, 1}
    BY DEF One
  <2> HIDE DEF A, B, h
  <2>6. /\ Cardinality(A \cup B) \in Nat
        /\ Cardinality(A \cup B) <= Cardinality(A) + Cardinality(B)
        /\ Cardinality(A \cup B) >= Cardinality(A) /\ Cardinality(A \cup B) >= Cardinality(B)
    BY <2>3, UnionCount
  <2>7. Cardinality(A \cup B) = One(w \in blocked)
    BY <2>3, <2>4, <2>5, <2>6
  <2> QED BY <2>1, <2>7 DEF h
<1> QED BY <1>1, Invariant, PTL

LEMMA ReferencePlacesCounted ==
  ASSUME IInv, NEW o \in Objects
  PROVE  ReferencePlaces(o) = Spots(stack, Threads, Resolving(o)) \cup Spots(handlers, Names, Resolvers(o))
<1>1. \A h \in Handlers : (h[1] = "resolve" /\ h[2] = o) <=> h \in Resolvers(o)
  BY HandlerTyped DEF Resolvers, Resolver, Unblocker
<1> DEFINE holds(f) == \/ IsHandling(f) /\ f.arg[1] = "resolve" /\ f.arg[2] = o
                       \/ f.op = "fetch" /\ f.arg[1] = o
<1>2. ASSUME NEW f \in Frames
      PROVE  holds(f) <=> f \in Resolving(o)
  <2>1. f = Frame(f.op, f.arg)
    BY FrameTyped
  <2>2. CASE IsHandling(f)
    <3>1. f.arg \in Handlers /\ f.op # "fetch" /\ f.op \in {"want", "enlist", "call"}
      BY <2>2, FrameTyped DEF IsHandling
    <3>2. f \in Resolving(o) <=> f.arg \in Resolvers(o)
      BY <2>1, <3>1 DEF Resolving, Handling, Frame
    <3> QED BY <1>1, <2>2, <3>1, <3>2
  <2>3. CASE f.op = "fetch"
    <3>1. f.arg \in Objects \X Names /\ ~IsHandling(f)
      BY <2>3, FrameTyped DEF IsHandling
    <3>2. f \in Resolving(o) <=> f.arg \in {o} \X Names
      BY <2>1, <2>3 DEF Resolving, Handling, Frame
    <3> QED BY <2>3, <3>1, <3>2
  <2>4. CASE ~IsHandling(f) /\ f.op # "fetch"
    BY <2>4 DEF Resolving, Handling, IsHandling
  <2> QED BY <2>2, <2>3, <2>4
<1>3. \A t \in Threads : \A i \in DOMAIN stack[t] : stack[t][i] \in Frames
  BY LenProperties, ElementOfSeq DEF IInv, StackOK
<1>4. \A n \in Names : \A i \in DOMAIN handlers[n] : handlers[n][i] \in Handlers
  BY LenProperties, ElementOfSeq DEF IInv, HandlersOK
<1>5. Spots(stack, Threads, Resolving(o))
        = UNION {{<<t, i>> : i \in {j \in DOMAIN stack[t] : holds(stack[t][j])}} : t \in Threads}
  <2>1. ASSUME NEW t \in Threads
        PROVE  Row(stack[t], Resolving(o)) = {j \in DOMAIN stack[t] : holds(stack[t][j])}
    <3> HIDE DEF holds
    <3> QED BY <1>2, <1>3 DEF Row
  <2> HIDE DEF holds
  <2> QED BY <2>1 DEF Spots
<1>6. Spots(handlers, Names, Resolvers(o))
        = UNION {{<<n, i>> : i \in {j \in DOMAIN handlers[n] :
                    handlers[n][j][1] = "resolve" /\ handlers[n][j][2] = o}} : n \in Names}
  <2>1. ASSUME NEW n \in Names
        PROVE  Row(handlers[n], Resolvers(o))
                 = {j \in DOMAIN handlers[n] : handlers[n][j][1] = "resolve" /\ handlers[n][j][2] = o}
    BY <1>1, <1>4 DEF Row
  <2> QED BY <2>1 DEF Spots
<1> QED BY <1>5, <1>6 DEF ReferencePlaces, FramePlaces, HandlerPlaces

(* There are never more resolvers of an object's references than are       *)
(* counted as unresolved, so referenceResolved does not count below zero:  *)
(* NoResolverTooMany in every state.                                       *)
THEOREM ResolversAreCounted == Spec => []NoResolverTooMany
<1>1. IInv => NoResolverTooMany
  <2> SUFFICES ASSUME IInv, NEW o \in Objects
               PROVE  Cardinality(ReferencePlaces(o)) <= unresolved[o]
    BY DEF NoResolverTooMany
  <2> DEFINE A == Spots(stack, Threads, Resolving(o))
             B == Spots(handlers, Names, Resolvers(o))
  <2>1. ReferencePlaces(o) = A \cup B
    BY ReferencePlacesCounted
  <2>2. Cardinality(A) + Cardinality(B) <= unresolved[o]
    BY DEF IInv, ResolversCounted, FrameCount, EntryCount
  <2>3. /\ IsFiniteSet(A) /\ IsFiniteSet(B) /\ Cardinality(A) \in Nat /\ Cardinality(B) \in Nat
        /\ unresolved[o] \in Nat
    BY SpotsTyped DEF FrameCount, EntryCount, IInv, TypeOK
  <2> HIDE DEF A, B
  <2>4. Cardinality(A \cup B) \in Nat /\ Cardinality(A \cup B) <= Cardinality(A) + Cardinality(B)
    BY <2>3, UnionCount
  <2>5. Cardinality(A \cup B) <= unresolved[o]
    BY <2>2, <2>3, <2>4
  <2> QED BY <2>1, <2>5
<1> QED BY <1>1, Invariant, PTL
=============================================================================
