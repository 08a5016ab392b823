------------------------ MODULE ResultCache_proofs ------------------------
(***************************************************************************)
(* Nobody uses an entry that was purged (EntriesAlive), borrows are counted *)
(* (BorrowsCounted), one thread computes an entry (OneComputes) and results *)
(* are current (ResultCurrent), for any threads, keys and number of clears. *)
(*                                                                         *)
(* An action first changes maps, counters and calls and then purges, so    *)
(* the invariant is stated of any maps and counts, with p generations      *)
(* purged, g the current one, n clears, calls, and left the entries that   *)
(* were abandoned: purging preserves it (PurgeConsistent), and each action *)
(* establishes it before.  Its core is that every slot is a generation,    *)
(* and that all calls and results of slot s are those after s + n - g      *)
(* clears.                                                                 *)
(***************************************************************************)
EXTENDS ResultCache, SequenceTheorems, FiniteSetTheorems, WellFoundedInduction, TLAPS

Maps == UNION {[K -> Entries] : K \in SUBSET Keys}

Borrowing(calls, s) == {t \in Threads : InCache(calls[t]) /\ calls[t].generation = s}
LeftAt(left, s) == {e \in left : e[1] = s}
Borrows(calls, left, s) == Cardinality(Borrowing(calls, s)) + Cardinality(LeftAt(left, s))

Has(maps, p, s, k) ==
  /\ s - p + 1 \in 1..Len(maps)
  /\ k \in DOMAIN maps[s - p + 1]

Computes(c, s, k) == c.pc = "computing" /\ c.slot = s /\ c.key = k
Held(calls, left, s, k) == <<s, k>> \in left \/ \E t \in Threads : Computes(calls[t], s, k)

Typed(maps, counts, p, g, n, calls, left) ==
  /\ maps \in Seq(Maps) /\ counts \in Seq(Nat)
  /\ p \in Nat /\ g \in Nat /\ n \in 0..MaxClears
  /\ calls \in [Threads -> Calls]
  /\ left \subseteq Generations \X Keys /\ IsFiniteSet(left)

Numbered(maps, counts, p, g, n) ==
  /\ Len(counts) = Len(maps)
  /\ g <= n
  /\ Len(maps) = 0 => p = 0 /\ g = 0
  /\ Len(maps) > 0 => g = p + Len(maps) - 1

CountsRight(counts, p, calls, left) ==
  \A i \in 1..Len(counts) : counts[i] = Borrows(calls, left, p + i - 1)

CallRight(maps, p, g, n, c) ==
  /\ c.generation = c.slot
  /\ Has(maps, p, c.slot, c.key)
  /\ c.since = c.slot + n - g
  /\ c.pc = "returning" => c.result = Result(c.key, c.since)

CallsRight(maps, p, g, n, calls) ==
  \A t \in Threads : InCache(calls[t]) => CallRight(maps, p, g, n, calls[t])

LeftRight(maps, p, left) == \A e \in left : Has(maps, p, e[1], e[2])

EntryRight(e, s, k, g, n, calls, left) ==
  /\ e.generation = s
  /\ e.locked <=> Held(calls, left, s, k)
  /\ ~e.locked => e.data = Result(k, s + n - g)

EntriesRight(maps, p, g, n, calls, left) ==
  \A i \in 1..Len(maps) : \A k \in DOMAIN maps[i] :
    EntryRight(maps[i][k], p + i - 1, k, g, n, calls, left)

OneHolder(calls, left) ==
  \A t \in Threads : calls[t].pc = "computing" =>
    /\ <<calls[t].slot, calls[t].key>> \notin left
    /\ \A u \in Threads : Computes(calls[u], calls[t].slot, calls[t].key) => u = t

Consistent(maps, counts, p, g, n, calls, left) ==
  /\ Typed(maps, counts, p, g, n, calls, left)
  /\ Numbered(maps, counts, p, g, n)
  /\ CountsRight(counts, p, calls, left)
  /\ CallsRight(maps, p, g, n, calls)
  /\ LeftRight(maps, p, left)
  /\ EntriesRight(maps, p, g, n, calls, left)
  /\ OneHolder(calls, left)

FirstBorrowed(counts) == Len(counts) > 1 => counts[1] > 0

IInv ==
  /\ Consistent(m_cache, m_borrowCount, m_purgedGenerations, m_generation, clears, call, abandoned)
  /\ FirstBorrowed(m_borrowCount)
  /\ m_enabled \in BOOLEAN
-----------------------------------------------------------------------------
LEMMA LeastNatural ==
  ASSUME NEW S, S \subseteq Nat, S # {}
  PROVE  \E x \in S : \A y \in S : x <= y
<1> DEFINE R == OpToRel(<, Nat)
<1>1. IsWellFoundedOn(R, Nat)
  BY NatLessThanWellFounded
<1>2. \A x, y \in Nat : x < y => <<x, y>> \in R
  BY DEF OpToRel
<1> HIDE DEF R
<1>3. PICK x \in S : \A y \in S : ~ (<<y, x>> \in R)
  BY <1>1, WFMin
<1>4. ASSUME NEW y \in S
      PROVE  x <= y
  <2>1. x \in Nat /\ y \in Nat /\ ~ (<<y, x>> \in R)
    BY <1>3, <1>4, S \subseteq Nat
  <2> QED
    BY <1>2, <2>1
<1> QED
  BY <1>4

LEMMA PurgeableFacts ==
  ASSUME NEW counts \in Seq(Nat)
  PROVE  LET k == Purgeable(counts)
         IN  /\ k \in 0..Len(counts)
             /\ \A i \in 1..k : counts[i] = 0
             /\ k + 1 >= Len(counts) \/ counts[k + 1] > 0
             /\ k = 0 \/ k < Len(counts)
<1> DEFINE n == Len(counts)
           Ok(k) == /\ \A i \in 1..k : counts[i] = 0
                    /\ k + 1 >= n \/ counts[k + 1] > 0
                    /\ k = 0 \/ k < n
<1>1. \E k \in 0..n : Ok(k)
  <2>1. CASE n = 0
    BY <2>1
  <2>2. CASE n # 0
    <3> DEFINE S == {k \in Nat : k + 1 >= n \/ counts[k + 1] > 0}
    <3>1. n - 1 \in S
      BY <2>2
    <3>2. PICK k \in S : \A j \in S : k <= j
      BY <3>1, LeastNatural
    <3>3. k \in Nat /\ k <= n - 1
      BY <3>1, <3>2
    <3>4. ASSUME NEW i \in 1..k
          PROVE  counts[i] = 0
      <4>1. i - 1 \in Nat /\ i - 1 \notin S
        BY <3>2, <3>3
      <4>2. i \in 1..n /\ ~(counts[i] > 0)
        BY <4>1, <3>3
      <4> QED
        BY <4>2, ElementOfSeq
    <3>5. k + 1 >= n \/ counts[k + 1] > 0
      BY <3>2
    <3>6. Ok(k) /\ k \in 0..n
      BY <3>3, <3>4, <3>5, <2>2
    <3> QED
      BY <3>6
  <2> QED
    BY <2>1, <2>2
<1> QED
  BY <1>1 DEF Purgeable
-----------------------------------------------------------------------------
(* What is left of a sequence from which the first k are dropped.          *)
LEMMA Dropped ==
  ASSUME NEW S, NEW seq \in Seq(S), NEW k \in 0..Len(seq)
  PROVE  /\ Drop(seq, k) \in Seq(S)
         /\ Len(Drop(seq, k)) = Len(seq) - k
         /\ \A i \in 1..Len(seq) - k : Drop(seq, k)[i] = seq[k + i]
<1>1. k + 1 \in Int /\ Len(seq) \in Int
  BY LenProperties
<1>2. \A i \in k + 1 .. Len(seq) : seq[i] \in S
  BY ElementOfSeq, <1>1
<1>3. /\ SubSeq(seq, k + 1, Len(seq)) \in Seq(S)
      /\ Len(SubSeq(seq, k + 1, Len(seq))) = IF k + 1 <= Len(seq) THEN Len(seq) - (k + 1) + 1 ELSE 0
      /\ \A i \in 1 .. Len(seq) - (k + 1) + 1 : SubSeq(seq, k + 1, Len(seq))[i] = seq[k + 1 + i - 1]
  BY <1>1, <1>2, SubSeqProperties
<1>4. \A i \in 1..Len(seq) - k : k + 1 + i - 1 = k + i
  BY <1>1
<1> QED
  BY <1>1, <1>3, <1>4 DEF Drop

(* Whoever borrows is counted.                                             *)
LEMMA BorrowsFinite ==
  ASSUME NEW calls, NEW left, IsFiniteSet(left), NEW s
  PROVE  /\ IsFiniteSet(Borrowing(calls, s)) /\ Cardinality(Borrowing(calls, s)) \in Nat
         /\ IsFiniteSet(LeftAt(left, s)) /\ Cardinality(LeftAt(left, s)) \in Nat
         /\ Borrows(calls, left, s) \in Nat
         /\ Borrows(calls, left, s) = 0 => Borrowing(calls, s) = {} /\ LeftAt(left, s) = {}
<1>1. IsFiniteSet(Borrowing(calls, s)) /\ Cardinality(Borrowing(calls, s)) \in Nat
  <2>1. Borrowing(calls, s) \in SUBSET Threads
    BY DEF Borrowing
  <2> QED
    BY <2>1, CacheAssumption, FS_Subset, FS_CardinalityType
<1>2. IsFiniteSet(LeftAt(left, s)) /\ Cardinality(LeftAt(left, s)) \in Nat
  <2>1. LeftAt(left, s) \in SUBSET left
    BY DEF LeftAt
  <2> QED
    BY <2>1, FS_Subset, FS_CardinalityType
<1>3. /\ Cardinality(Borrowing(calls, s)) = 0 => Borrowing(calls, s) = {}
      /\ Cardinality(LeftAt(left, s)) = 0 => LeftAt(left, s) = {}
  BY <1>1, <1>2, FS_EmptySet
<1> QED
  BY <1>1, <1>2, <1>3 DEF Borrows

LEMMA NoBorrows ==
  ASSUME NEW calls, NEW left, NEW s, Borrowing(calls, s) = {}, LeftAt(left, s) = {}
  PROVE  Borrows(calls, left, s) = 0
<1>1. Cardinality(Borrowing(calls, s)) = 0 /\ Cardinality(LeftAt(left, s)) = 0
  BY FS_EmptySet
<1> QED
  BY <1>1 DEF Borrows

(* A call that borrows adds one to the count of its generation only.       *)
LEMMA BorrowAdded ==
  ASSUME NEW calls, NEW after, NEW left, IsFiniteSet(left), NEW t \in Threads,
         \A u \in Threads \ {t} : after[u] = calls[u],
         ~InCache(calls[t]), InCache(after[t]), NEW s
  PROVE  Borrows(after, left, s)
           = IF s = after[t].generation THEN Borrows(calls, left, s) + 1 ELSE Borrows(calls, left, s)
<1>1. CASE s = after[t].generation
  <2>1. Borrowing(after, s) = Borrowing(calls, s) \cup {t} /\ t \notin Borrowing(calls, s)
    BY <1>1 DEF Borrowing
  <2>2. Cardinality(Borrowing(after, s)) = Cardinality(Borrowing(calls, s)) + 1
    BY <2>1, BorrowsFinite, FS_AddElement
  <2> QED
    BY <2>2, <1>1, BorrowsFinite DEF Borrows
<1>2. CASE s # after[t].generation
  <2>1. Borrowing(after, s) = Borrowing(calls, s)
    BY <1>2 DEF Borrowing
  <2> QED
    BY <2>1, <1>2 DEF Borrows
<1> QED
  BY <1>1, <1>2

LEMMA BorrowReturned ==
  ASSUME NEW calls, NEW after, NEW left, IsFiniteSet(left), NEW t \in Threads,
         \A u \in Threads \ {t} : after[u] = calls[u],
         InCache(calls[t]), ~InCache(after[t]), NEW s
  PROVE  Borrows(after, left, s)
           = IF s = calls[t].generation THEN Borrows(calls, left, s) - 1 ELSE Borrows(calls, left, s)
<1>1. CASE s = calls[t].generation
  <2>1. Borrowing(after, s) = Borrowing(calls, s) \ {t} /\ t \in Borrowing(calls, s)
    BY <1>1 DEF Borrowing
  <2>2. Cardinality(Borrowing(after, s)) = Cardinality(Borrowing(calls, s)) - 1
    BY <2>1, BorrowsFinite, FS_RemoveElement
  <2> QED
    BY <2>2, <1>1, BorrowsFinite DEF Borrows
<1>2. CASE s # calls[t].generation
  <2>1. Borrowing(after, s) = Borrowing(calls, s)
    BY <1>2 DEF Borrowing
  <2> QED
    BY <2>1, <1>2 DEF Borrows
<1> QED
  BY <1>1, <1>2

LEMMA BorrowKept ==
  ASSUME NEW calls, NEW after, NEW left,
         \A u \in Threads : /\ InCache(after[u]) <=> InCache(calls[u])
                            /\ InCache(after[u]) => after[u].generation = calls[u].generation,
         NEW s
  PROVE  Borrows(after, left, s) = Borrows(calls, left, s)
<1>1. Borrowing(after, s) = Borrowing(calls, s)
  BY DEF Borrowing
<1> QED
  BY <1>1 DEF Borrows
-----------------------------------------------------------------------------
(* purgeOldGenerations: whoever uses an entry borrows from its generation, *)
(* so what has no borrows can be removed.                                  *)
LEMMA PurgeConsistent ==
  ASSUME NEW maps, NEW counts, NEW p, NEW g, NEW n, NEW calls, NEW left,
         Consistent(maps, counts, p, g, n, calls, left),
         NEW k \in 0..Len(counts),
         \A i \in 1..k : counts[i] = 0,
         k = 0 \/ k < Len(counts)
  PROVE  Consistent(Drop(maps, k), Drop(counts, k), p + k, g, n, calls, left)
<1>1. Typed(maps, counts, p, g, n, calls, left)
  BY DEF Consistent
<1>2. /\ Numbered(maps, counts, p, g, n) /\ CountsRight(counts, p, calls, left)
      /\ CallsRight(maps, p, g, n, calls) /\ LeftRight(maps, p, left)
      /\ EntriesRight(maps, p, g, n, calls, left) /\ OneHolder(calls, left)
  BY DEF Consistent
<1>3. Len(maps) \in Nat /\ Len(counts) = Len(maps) /\ p \in Nat /\ k \in Nat /\ g \in Nat /\ n \in Nat
  BY <1>1, <1>2, LenProperties, CacheAssumption DEF Typed, Numbered
<1>4. /\ Drop(maps, k) \in Seq(Maps) /\ Len(Drop(maps, k)) = Len(maps) - k
      /\ \A i \in 1..Len(maps) - k : Drop(maps, k)[i] = maps[k + i]
      /\ Drop(counts, k) \in Seq(Nat) /\ Len(Drop(counts, k)) = Len(maps) - k
      /\ \A i \in 1..Len(maps) - k : Drop(counts, k)[i] = counts[k + i]
  BY <1>1, <1>3, Dropped DEF Typed
<1>5. \A i \in 1..k : Borrowing(calls, p + i - 1) = {} /\ LeftAt(left, p + i - 1) = {}
  <2> SUFFICES ASSUME NEW i \in 1..k
               PROVE  Borrowing(calls, p + i - 1) = {} /\ LeftAt(left, p + i - 1) = {}
    OBVIOUS
  <2>1. counts[i] = 0 /\ i \in 1..Len(counts)
    BY <1>3
  <2>2. Borrows(calls, left, p + i - 1) = 0
    BY <1>2, <2>1 DEF CountsRight
  <2> QED
    BY <2>2, <1>1, BorrowsFinite DEF Typed
<1>6. ASSUME NEW s \in Nat, NEW x, Has(maps, p, s, x),
             Borrowing(calls, s) # {} \/ LeftAt(left, s) # {}
      PROVE  Has(Drop(maps, k), p + k, s, x)
  <2>1. s - p + 1 \notin 1..k
    <3> SUFFICES ASSUME s - p + 1 \in 1..k PROVE FALSE
      OBVIOUS
    <3>1. p + (s - p + 1) - 1 = s
      BY <1>3
    <3> QED
      BY <3>1, <1>5, <1>6
  <2> DEFINE j == s - (p + k) + 1
  <2>2. j \in 1..Len(maps) - k /\ k + j = s - p + 1
    BY <2>1, <1>3, <1>6 DEF Has
  <2> HIDE DEF j
  <2>3. Drop(maps, k)[j] = maps[s - p + 1] /\ j \in 1..Len(Drop(maps, k))
    BY <2>2, <1>4
  <2>4. x \in DOMAIN Drop(maps, k)[j]
    BY <2>3, <1>6 DEF Has
  <2> QED
    BY <2>3, <2>4 DEF Has, j
<1>7. Typed(Drop(maps, k), Drop(counts, k), p + k, g, n, calls, left)
  BY <1>1, <1>3, <1>4 DEF Typed
<1>8. Numbered(Drop(maps, k), Drop(counts, k), p + k, g, n)
  <2>1. /\ g <= n
        /\ Len(maps) = 0 => p = 0 /\ g = 0
        /\ Len(maps) > 0 => g = p + Len(maps) - 1
    BY <1>2 DEF Numbered
  <2>2. /\ Len(maps) - k = 0 => p + k = 0 /\ g = 0
        /\ Len(maps) - k > 0 => g = p + k + (Len(maps) - k) - 1
    BY <2>1, <1>3
  <2> QED
    BY <2>1, <2>2, <1>4 DEF Numbered
<1>9. CountsRight(Drop(counts, k), p + k, calls, left)
  <2> SUFFICES ASSUME NEW i \in 1..Len(maps) - k
               PROVE  Drop(counts, k)[i] = Borrows(calls, left, p + k + i - 1)
    BY <1>4 DEF CountsRight
  <2>1. k + i \in 1..Len(counts) /\ p + (k + i) - 1 = p + k + i - 1
    BY <1>3
  <2> QED
    BY <2>1, <1>2, <1>4 DEF CountsRight
<1>10. CallsRight(Drop(maps, k), p + k, g, n, calls)
  <2> SUFFICES ASSUME NEW t \in Threads, InCache(calls[t])
               PROVE  CallRight(Drop(maps, k), p + k, g, n, calls[t])
    BY DEF CallsRight
  <2>1. CallRight(maps, p, g, n, calls[t])
    BY <1>2 DEF CallsRight
  <2>2. calls[t].slot \in Nat
    BY <1>1, CacheAssumption DEF Typed, Calls, InCache, Generations
  <2>3. t \in Borrowing(calls, calls[t].slot)
    BY <2>1 DEF Borrowing, CallRight
  <2>4. Has(Drop(maps, k), p + k, calls[t].slot, calls[t].key)
    BY <1>6, <2>1, <2>2, <2>3 DEF CallRight
  <2> QED
    BY <2>1, <2>4 DEF CallRight
<1>11. LeftRight(Drop(maps, k), p + k, left)
  <2> SUFFICES ASSUME NEW e \in left
               PROVE  Has(Drop(maps, k), p + k, e[1], e[2])
    BY DEF LeftRight
  <2>1. Has(maps, p, e[1], e[2]) /\ e[1] \in Nat
    BY <1>1, <1>2, CacheAssumption DEF LeftRight, Typed, Generations
  <2>2. e \in LeftAt(left, e[1])
    BY DEF LeftAt
  <2> QED
    BY <1>6, <2>1, <2>2
<1>12. EntriesRight(Drop(maps, k), p + k, g, n, calls, left)
  <2> SUFFICES ASSUME NEW i \in 1..Len(maps) - k, NEW x \in DOMAIN Drop(maps, k)[i]
               PROVE  EntryRight(Drop(maps, k)[i][x], p + k + i - 1, x, g, n, calls, left)
    BY <1>4 DEF EntriesRight
  <2>1. k + i \in 1..Len(maps) /\ p + (k + i) - 1 = p + k + i - 1 /\ Drop(maps, k)[i] = maps[k + i]
    BY <1>3, <1>4
  <2> QED
    BY <2>1, <1>2 DEF EntriesRight
<1> QED
  BY <1>2, <1>7, <1>8, <1>9, <1>10, <1>11, <1>12 DEF Consistent

(* As modifyBorrowCount and clear call it.                                 *)
LEMMA PurgeIInv ==
  ASSUME NEW maps, NEW counts,
         Consistent(maps, counts, m_purgedGenerations, m_generation', clears', call', abandoned'),
         purgeOldGenerations(counts, maps), m_enabled' \in BOOLEAN
  PROVE  IInv'
<1> DEFINE k == Purgeable(counts)
<1>1. maps \in Seq(Maps) /\ counts \in Seq(Nat)
  BY DEF Consistent, Typed
<1>2. /\ k \in 0..Len(counts) /\ \A i \in 1..k : counts[i] = 0
      /\ k + 1 >= Len(counts) \/ counts[k + 1] > 0
      /\ k = 0 \/ k < Len(counts)
  BY <1>1, PurgeableFacts
<1>3. m_purgedGenerations' = m_purgedGenerations + k /\ m_borrowCount' = Drop(counts, k) /\ m_cache' = Drop(maps, k)
  BY DEF purgeOldGenerations
<1> HIDE DEF k
<1>4. Consistent(m_cache', m_borrowCount', m_purgedGenerations', m_generation', clears', call', abandoned')
  BY <1>2, <1>3, PurgeConsistent
<1>5. FirstBorrowed(m_borrowCount')
  <2>1. Len(counts) \in Nat /\ Len(Drop(counts, k)) = Len(counts) - k
        /\ \A i \in 1..Len(counts) - k : Drop(counts, k)[i] = counts[k + i]
    BY <1>1, <1>2, Dropped, LenProperties
  <2> SUFFICES ASSUME Len(counts) - k > 1
               PROVE  Drop(counts, k)[1] > 0
    BY <1>3, <2>1 DEF FirstBorrowed
  <2>2. Drop(counts, k)[1] = counts[k + 1]
    BY <1>2, <2>1
  <2> QED
    BY <1>2, <2>1, <2>2
<1> QED
  BY <1>4, <1>5 DEF IInv
-----------------------------------------------------------------------------
LEMMA InitIInv == Init => IInv
<1> SUFFICES ASSUME Init PROVE IInv
  OBVIOUS
<1>1. <<>> \in Seq(Maps) /\ <<>> \in Seq(Nat) /\ Len(<<>>) = 0
  BY EmptySeq
<1>2. Typed(m_cache, m_borrowCount, m_purgedGenerations, m_generation, clears, call, abandoned)
  BY <1>1, FS_EmptySet, CacheAssumption DEF Init, Typed, Calls, Idle
<1>3. \A t \in Threads : ~InCache(call[t]) /\ call[t].pc # "computing"
  BY DEF Init, Idle, InCache
<1> QED
  BY <1>1, <1>2, <1>3 DEF Init, IInv, Consistent, Numbered, CountsRight, CallsRight, LeftRight,
    EntriesRight, OneHolder, FirstBorrowed

(* Fields of a call that uses an entry.                                    *)
LEMMA CallFields ==
  ASSUME NEW c \in Calls, InCache(c)
  PROVE  c \in [pc : {"computing", "reading", "returning"}, slot : Generations, key : Keys,
                generation : Generations, since : 0..MaxClears, result : Results]
BY DEF Calls, InCache

(* GetEmpty and StoreEmpty: the calls that use an entry are the same.      *)
LEMMA OutsideIInv ==
  ASSUME IInv, call' \in [Threads -> Calls],
         \A u \in Threads : InCache(call[u]) \/ InCache(call'[u]) => call'[u] = call[u],
         UNCHANGED <<m_enabled, m_generation, deques, clears, abandoned>>
  PROVE  IInv'
<1>1. Consistent(m_cache, m_borrowCount, m_purgedGenerations, m_generation, clears, call, abandoned)
  BY DEF IInv
<1>2. \A u \in Threads : InCache(call[u]) \/ InCache(call'[u]) => call'[u] = call[u]
  OBVIOUS
<1>3. \A s : Borrows(call', abandoned, s) = Borrows(call, abandoned, s)
  <2>1. \A u \in Threads : /\ InCache(call'[u]) <=> InCache(call[u])
                           /\ InCache(call'[u]) => call'[u].generation = call[u].generation
    BY <1>2
  <2> QED
    BY <2>1, BorrowKept
<1>4. \A s, k : \A u \in Threads : Computes(call'[u], s, k) <=> Computes(call[u], s, k)
  BY <1>2 DEF Computes, InCache
<1>5. CallsRight(m_cache, m_purgedGenerations, m_generation, clears, call')
  BY <1>1, <1>2 DEF Consistent, CallsRight
<1>6. EntriesRight(m_cache, m_purgedGenerations, m_generation, clears, call', abandoned)
  BY <1>1, <1>4 DEF Consistent, EntriesRight, EntryRight, Held
<1>7. OneHolder(call', abandoned)
  <2> SUFFICES ASSUME NEW u \in Threads, call'[u].pc = "computing"
               PROVE  /\ <<call'[u].slot, call'[u].key>> \notin abandoned
                      /\ \A v \in Threads : Computes(call'[v], call'[u].slot, call'[u].key) => v = u
    BY DEF OneHolder
  <2>1. call'[u] = call[u]
    BY <1>2 DEF InCache
  <2> QED
    BY <2>1, <1>1, <1>4 DEF Consistent, OneHolder
<1>8. CountsRight(m_borrowCount, m_purgedGenerations, call', abandoned)
  BY <1>1, <1>3 DEF Consistent, CountsRight
<1> QED
  BY <1>1, <1>5, <1>6, <1>7, <1>8 DEF IInv, Consistent, Typed, deques, FirstBorrowed

(* Read: the entry is unlocked, so its result is that of its slot.         *)
LEMMA ReadIInv == \A t \in Threads : IInv /\ Read(t) => IInv'
<1> SUFFICES ASSUME NEW t \in Threads, IInv, Read(t)
             PROVE  IInv'
  OBVIOUS
<1> DEFINE e == EntryOf(call[t])
           c == [call[t] EXCEPT !.pc = "returning", !.result = e.data]
<1>1. Consistent(m_cache, m_borrowCount, m_purgedGenerations, m_generation, clears, call, abandoned)
  BY DEF IInv
<1>2. call \in [Threads -> Calls] /\ call[t].pc = "reading" /\ InCache(call[t])
  BY <1>1 DEF Consistent, Typed, Read, InCache
<1>3. CallRight(m_cache, m_purgedGenerations, m_generation, clears, call[t])
  BY <1>1, <1>2 DEF Consistent, CallsRight
<1>4. call[t] \in [pc : {"computing", "reading", "returning"}, slot : Generations, key : Keys,
                   generation : Generations, since : 0..MaxClears, result : Results]
  BY <1>2, CallFields
<1>5. e.data = Result(call[t].key, call[t].since)
  <2> DEFINE i == call[t].slot - m_purgedGenerations + 1
  <2>1. i \in 1..Len(m_cache) /\ call[t].key \in DOMAIN m_cache[i] /\ e = m_cache[i][call[t].key]
    BY <1>3 DEF CallRight, Has, EntryOf, Pos
  <2>2. m_purgedGenerations + i - 1 = call[t].slot
    BY <1>1, <1>4, CacheAssumption DEF Consistent, Typed, Generations
  <2>3. EntryRight(e, call[t].slot, call[t].key, m_generation, clears, call, abandoned)
    <3> HIDE DEF i, e
    <3> QED
      BY <1>1, <2>1, <2>2 DEF Consistent, EntriesRight
  <2> QED
    BY <2>3, <1>3 DEF EntryRight, CallRight, Read
<1>6. Result(call[t].key, call[t].since) \in Results
  BY <1>4 DEF Result, Results
<1>7. /\ call' = [call EXCEPT ![t] = c]
      /\ UNCHANGED <<m_enabled, m_generation, m_cache, m_borrowCount, m_purgedGenerations, clears, abandoned>>
  BY DEF Read, deques
<1>8. /\ c \in Calls /\ InCache(c) /\ c.pc = "returning" /\ c.slot = call[t].slot /\ c.key = call[t].key
      /\ c.generation = call[t].generation /\ c.since = call[t].since
      /\ c.result = Result(c.key, c.since)
  BY <1>4, <1>5, <1>6 DEF Calls, InCache
<1> HIDE DEF c, e
<1>9. \A u \in Threads : call'[u] = IF u = t THEN c ELSE call[u]
  BY <1>2, <1>7
<1>10. \A s : Borrows(call', abandoned, s) = Borrows(call, abandoned, s)
  <2>1. \A u \in Threads : /\ InCache(call'[u]) <=> InCache(call[u])
                           /\ InCache(call'[u]) => call'[u].generation = call[u].generation
    BY <1>2, <1>8, <1>9
  <2> QED
    BY <2>1, BorrowKept
<1>11. \A s, k : \A u \in Threads : Computes(call'[u], s, k) <=> Computes(call[u], s, k)
  BY <1>2, <1>8, <1>9 DEF Computes
<1>12. CallRight(m_cache, m_purgedGenerations, m_generation, clears, c)
  BY <1>3, <1>8 DEF CallRight
<1>13. CallsRight(m_cache, m_purgedGenerations, m_generation, clears, call')
  BY <1>1, <1>9, <1>12 DEF Consistent, CallsRight
<1>14. EntriesRight(m_cache, m_purgedGenerations, m_generation, clears, call', abandoned)
  BY <1>1, <1>11 DEF Consistent, EntriesRight, EntryRight, Held
<1>15. OneHolder(call', abandoned)
  <2> SUFFICES ASSUME NEW u \in Threads, call'[u].pc = "computing"
               PROVE  /\ <<call'[u].slot, call'[u].key>> \notin abandoned
                      /\ \A v \in Threads : Computes(call'[v], call'[u].slot, call'[u].key) => v = u
    BY DEF OneHolder
  <2>1. call'[u] = call[u]
    BY <1>8, <1>9
  <2> QED
    BY <2>1, <1>1, <1>11 DEF Consistent, OneHolder
<1>16. CountsRight(m_borrowCount, m_purgedGenerations, call', abandoned)
  BY <1>1, <1>10 DEF Consistent, CountsRight
<1>17. call' \in [Threads -> Calls]
  BY <1>2, <1>7, <1>8
<1> QED
  BY <1>1, <1>7, <1>13, <1>14, <1>15, <1>16, <1>17 DEF IInv, Consistent, Typed, FirstBorrowed
-----------------------------------------------------------------------------
(* An abandoned entry takes over the borrow of its call.                   *)
LEMMA LeftAdded ==
  ASSUME NEW calls, NEW left, IsFiniteSet(left), NEW slot, NEW k, <<slot, k>> \notin left, NEW s
  PROVE  Borrows(calls, left \cup {<<slot, k>>}, s)
           = IF s = slot THEN Borrows(calls, left, s) + 1 ELSE Borrows(calls, left, s)
<1> DEFINE after == left \cup {<<slot, k>>}
<1>1. CASE s = slot
  <2>1. LeftAt(after, s) = LeftAt(left, s) \cup {<<slot, k>>} /\ <<slot, k>> \notin LeftAt(left, s)
    BY <1>1 DEF LeftAt
  <2>2. Cardinality(LeftAt(after, s)) = Cardinality(LeftAt(left, s)) + 1
    BY <2>1, BorrowsFinite, FS_AddElement
  <2> HIDE DEF after
  <2>3. Borrows(calls, after, s) = Borrows(calls, left, s) + 1
    BY <2>2, BorrowsFinite DEF Borrows
  <2> QED
    BY <1>1, <2>3 DEF after
<1>2. CASE s # slot
  <2>1. LeftAt(after, s) = LeftAt(left, s)
    BY <1>2 DEF LeftAt
  <2> QED
    BY <1>2, <2>1 DEF Borrows
<1> QED
  BY <1>1, <1>2

LEMMA AbandonIInv == \A t \in Threads : IInv /\ Abandon(t) => IInv'
<1> SUFFICES ASSUME NEW t \in Threads, IInv, Abandon(t)
             PROVE  IInv'
  OBVIOUS
<1> DEFINE slot == call[t].slot
           key == call[t].key
<1>1. Consistent(m_cache, m_borrowCount, m_purgedGenerations, m_generation, clears, call, abandoned)
  BY DEF IInv
<1>2. call \in [Threads -> Calls] /\ call[t].pc = "computing" /\ InCache(call[t]) /\ IsFiniteSet(abandoned)
  BY <1>1 DEF Consistent, Typed, Abandon, InCache
<1>3. slot \in Generations /\ key \in Keys
  BY <1>2, CallFields
<1>4. CallRight(m_cache, m_purgedGenerations, m_generation, clears, call[t])
  BY <1>1, <1>2 DEF Consistent, CallsRight
<1>5. /\ <<slot, key>> \notin abandoned
      /\ \A u \in Threads : Computes(call[u], slot, key) <=> u = t
  BY <1>1, <1>2 DEF Consistent, OneHolder, Computes
<1>6. /\ call' = [call EXCEPT ![t] = Idle] /\ abandoned' = abandoned \cup {<<slot, key>>}
      /\ UNCHANGED <<m_enabled, m_generation, m_cache, m_borrowCount, m_purgedGenerations, clears>>
  BY DEF Abandon, deques
<1>7. Idle \in Calls /\ ~InCache(Idle) /\ Idle.pc # "computing"
  BY DEF Idle, Calls, InCache
<1>8. /\ \A u \in Threads \ {t} : call'[u] = call[u]
      /\ call'[t] = Idle /\ call' \in [Threads -> Calls]
  BY <1>2, <1>6, <1>7
<1>9. \A s, k : Held(call', abandoned', s, k) <=> Held(call, abandoned, s, k)
  <2>1. ASSUME NEW s, NEW k
        PROVE  Held(call', abandoned', s, k) <=> Held(call, abandoned, s, k)
    <3>1. CASE s = slot /\ k = key
      <4>1. <<s, k>> \in abandoned' /\ Computes(call[t], s, k)
        BY <1>5, <1>6, <3>1
      <4> QED
        BY <4>1 DEF Held
    <3>2. CASE ~(s = slot /\ k = key)
      <4>1. <<s, k>> \in abandoned' <=> <<s, k>> \in abandoned
        BY <1>6, <3>2
      <4>2. \A u \in Threads : Computes(call'[u], s, k) <=> Computes(call[u], s, k)
        BY <1>7, <1>8, <3>2 DEF Computes
      <4> QED
        BY <4>1, <4>2 DEF Held
    <3> QED
      BY <3>1, <3>2
  <2> QED
    BY <2>1
<1> HIDE DEF slot, key
<1>10. Typed(m_cache, m_borrowCount, m_purgedGenerations, m_generation, clears, call', abandoned')
  <2>1. abandoned' \subseteq Generations \X Keys
    BY <1>1, <1>3, <1>6 DEF Consistent, Typed
  <2>2. IsFiniteSet(abandoned \cup {<<slot, key>>})
    BY <1>2, FS_AddElement
  <2> QED
    BY <2>1, <2>2, <1>1, <1>6, <1>8 DEF Consistent, Typed
<1>11. CountsRight(m_borrowCount, m_purgedGenerations, call', abandoned')
  <2>1. ASSUME NEW s
        PROVE  Borrows(call', abandoned', s) = Borrows(call, abandoned, s)
    <3>1. Borrows(call', abandoned, s)
            = IF s = call[t].generation THEN Borrows(call, abandoned, s) - 1 ELSE Borrows(call, abandoned, s)
      BY <1>2, <1>7, <1>8, BorrowReturned
    <3>2. Borrows(call', abandoned', s)
            = IF s = slot THEN Borrows(call', abandoned, s) + 1 ELSE Borrows(call', abandoned, s)
      BY <1>2, <1>5, <1>6, LeftAdded
    <3>3. call[t].generation = slot /\ Borrows(call, abandoned, s) \in Nat
      BY <1>2, <1>4, BorrowsFinite DEF CallRight, slot
    <3> QED
      BY <3>1, <3>2, <3>3
  <2> QED
    BY <2>1, <1>1 DEF Consistent, CountsRight
<1>12. CallsRight(m_cache, m_purgedGenerations, m_generation, clears, call')
  BY <1>1, <1>7, <1>8 DEF Consistent, CallsRight
<1>13. LeftRight(m_cache, m_purgedGenerations, abandoned')
  <2>1. Has(m_cache, m_purgedGenerations, slot, key)
    BY <1>4 DEF CallRight, slot, key
  <2> QED
    BY <2>1, <1>1, <1>6 DEF Consistent, LeftRight
<1>14. EntriesRight(m_cache, m_purgedGenerations, m_generation, clears, call', abandoned')
  BY <1>1, <1>9 DEF Consistent, EntriesRight, EntryRight
<1>15. OneHolder(call', abandoned')
  <2> SUFFICES ASSUME NEW u \in Threads, call'[u].pc = "computing"
               PROVE  /\ <<call'[u].slot, call'[u].key>> \notin abandoned'
                      /\ \A v \in Threads : Computes(call'[v], call'[u].slot, call'[u].key) => v = u
    BY DEF OneHolder
  <2>1. u # t /\ call'[u] = call[u]
    BY <1>7, <1>8
  <2>2. <<call[u].slot, call[u].key>> # <<slot, key>>
    BY <1>5, <2>1 DEF Computes
  <2>3. \A v \in Threads : Computes(call'[v], call[u].slot, call[u].key) => v # t /\ call'[v] = call[v]
    BY <1>7, <1>8 DEF Computes
  <2> QED
    BY <2>1, <2>2, <2>3, <1>1, <1>6 DEF Consistent, OneHolder
<1> QED
  BY <1>1, <1>6, <1>10, <1>11, <1>12, <1>13, <1>14, <1>15 DEF IInv, Consistent
-----------------------------------------------------------------------------
(* modifyBorrowCount, once the counter is right for the calls afterwards.  *)
LEMMA ModifyIInv ==
  ASSUME NEW maps, NEW counts \in Seq(Nat), NEW s, NEW delta, NEW changed,
         changed = [counts EXCEPT ![Pos(s)] = @ + delta],
         Pos(s) \in 1..Len(counts), FirstBorrowed(counts),
         Consistent(maps, changed, m_purgedGenerations, m_generation', clears', call', abandoned'),
         modifyBorrowCount(s, delta, counts, maps), m_enabled' \in BOOLEAN
  PROVE  IInv'
<1>1. CASE changed[Pos(s)] = 0
  <2>1. purgeOldGenerations(changed, maps)
    BY <1>1 DEF modifyBorrowCount
  <2> QED
    BY <2>1, PurgeIInv
<1>2. CASE changed[Pos(s)] # 0
  <2>1. m_borrowCount' = changed /\ m_cache' = maps /\ m_purgedGenerations' = m_purgedGenerations
    BY <1>2 DEF modifyBorrowCount
  <2>2. changed \in Seq(Nat)
    BY DEF Consistent, Typed
  <2>3. FirstBorrowed(changed)
    <3>1. DOMAIN counts = 1..Len(counts) /\ DOMAIN changed = 1..Len(changed) /\ Len(counts) \in Nat /\ Len(changed) \in Nat
      BY <2>2, LenProperties
    <3>2. Len(changed) = Len(counts)
      BY <3>1
    <3>3. CASE Pos(s) = 1
      <4>1. changed[1] \in Nat \ {0}
        BY <1>2, <2>2, <3>2, <3>3, ElementOfSeq
      <4> QED
        BY <4>1 DEF FirstBorrowed
    <3>4. CASE Pos(s) # 1
      <4>1. Len(counts) > 1 => changed[1] = counts[1]
        BY <3>1, <3>4
      <4> QED
        BY <4>1, <3>2 DEF FirstBorrowed
    <3> QED
      BY <3>3, <3>4
  <2> QED
    BY <2>1, <2>3 DEF IInv
<1> QED
  BY <1>1, <1>2

(* Return: the call stops borrowing from its generation.                   *)
LEMMA ReturnIInv == \A t \in Threads : IInv /\ Return(t) => IInv'
<1> SUFFICES ASSUME NEW t \in Threads, IInv, Return(t)
             PROVE  IInv'
  OBVIOUS
<1> DEFINE g == call[t].generation
           changed == [m_borrowCount EXCEPT ![Pos(g)] = @ + -1]
<1>1. Consistent(m_cache, m_borrowCount, m_purgedGenerations, m_generation, clears, call, abandoned)
  BY DEF IInv
<1>2. call \in [Threads -> Calls] /\ call[t].pc = "returning" /\ InCache(call[t]) /\ IsFiniteSet(abandoned)
  BY <1>1 DEF Consistent, Typed, Return, InCache
<1>3. g \in Generations /\ g \in Nat
  BY <1>2, CallFields, CacheAssumption DEF Generations
<1>4. /\ call' = [call EXCEPT ![t] = Idle]
      /\ UNCHANGED <<m_enabled, m_generation, clears, abandoned>>
      /\ modifyBorrowCount(g, -1, m_borrowCount, m_cache)
  BY DEF Return
<1>5. Idle \in Calls /\ ~InCache(Idle) /\ Idle.pc # "computing"
  BY DEF Idle, Calls, InCache
<1>6. /\ \A u \in Threads \ {t} : call'[u] = call[u]
      /\ call'[t] = Idle /\ call' \in [Threads -> Calls]
  BY <1>2, <1>4, <1>5
<1>7. /\ m_borrowCount \in Seq(Nat) /\ m_purgedGenerations \in Nat
      /\ Len(m_borrowCount) = Len(m_cache) /\ Len(m_borrowCount) \in Nat
  BY <1>1, LenProperties DEF Consistent, Typed, Numbered
<1>8. Pos(g) \in 1..Len(m_borrowCount) /\ m_purgedGenerations + Pos(g) - 1 = g
  <2>1. CallRight(m_cache, m_purgedGenerations, m_generation, clears, call[t])
    BY <1>1, <1>2 DEF Consistent, CallsRight
  <2> QED
    BY <2>1, <1>3, <1>7 DEF CallRight, Has, Pos
<1> HIDE DEF g
<1>9. \A s : Borrows(call', abandoned, s) = IF s = g THEN Borrows(call, abandoned, s) - 1 ELSE Borrows(call, abandoned, s)
  BY <1>2, <1>5, <1>6, BorrowReturned DEF g
<1>10. m_borrowCount[Pos(g)] - 1 \in Nat
  <2>1. m_borrowCount[Pos(g)] = Borrows(call, abandoned, g)
    BY <1>1, <1>8 DEF Consistent, CountsRight
  <2>2. Borrows(call', abandoned, g) \in Nat
    BY <1>2, BorrowsFinite
  <2> QED
    BY <2>1, <2>2, <1>9
<1>11. /\ changed \in Seq(Nat) /\ Len(changed) = Len(m_borrowCount)
       /\ \A i \in 1..Len(m_borrowCount) :
            changed[i] = IF i = Pos(g) THEN m_borrowCount[i] - 1 ELSE m_borrowCount[i]
  <2>1. changed = [m_borrowCount EXCEPT ![Pos(g)] = m_borrowCount[Pos(g)] - 1]
    BY <1>7, <1>8, ElementOfSeq
  <2> HIDE DEF changed
  <2> QED
    BY <2>1, <1>7, <1>8, <1>10, ExceptSeq
<1>12. CountsRight(changed, m_purgedGenerations, call', abandoned)
  <2> SUFFICES ASSUME NEW i \in 1..Len(m_borrowCount)
               PROVE  changed[i] = Borrows(call', abandoned, m_purgedGenerations + i - 1)
    BY <1>11 DEF CountsRight
  <2>1. m_borrowCount[i] = Borrows(call, abandoned, m_purgedGenerations + i - 1)
    BY <1>1 DEF Consistent, CountsRight
  <2>2. i = Pos(g) <=> m_purgedGenerations + i - 1 = g
    BY <1>3, <1>7, <1>8 DEF Pos
  <2> HIDE DEF changed
  <2> QED
    BY <2>1, <2>2, <1>9, <1>11
<1>13. CallsRight(m_cache, m_purgedGenerations, m_generation, clears, call')
  BY <1>1, <1>5, <1>6 DEF Consistent, CallsRight
<1>14. \A s, k : \A u \in Threads : Computes(call'[u], s, k) <=> Computes(call[u], s, k)
  BY <1>2, <1>5, <1>6 DEF Computes
<1>15. EntriesRight(m_cache, m_purgedGenerations, m_generation, clears, call', abandoned)
  BY <1>1, <1>14 DEF Consistent, EntriesRight, EntryRight, Held
<1>16. OneHolder(call', abandoned)
  <2> SUFFICES ASSUME NEW u \in Threads, call'[u].pc = "computing"
               PROVE  /\ <<call'[u].slot, call'[u].key>> \notin abandoned
                      /\ \A v \in Threads : Computes(call'[v], call'[u].slot, call'[u].key) => v = u
    BY DEF OneHolder
  <2>1. call'[u] = call[u]
    BY <1>5, <1>6
  <2> QED
    BY <2>1, <1>1, <1>14 DEF Consistent, OneHolder
<1> HIDE DEF changed
<1>17. Consistent(m_cache, changed, m_purgedGenerations, m_generation', clears', call', abandoned')
  BY <1>1, <1>4, <1>6, <1>11, <1>12, <1>13, <1>15, <1>16 DEF Consistent, Typed, Numbered
<1> QED
  BY <1>4, <1>7, <1>8, <1>17, ModifyIInv DEF changed, IInv

(* A map is changed at a key.                                              *)
LEMMA MapFacts ==
  ASSUME NEW map \in Maps
  PROVE  DOMAIN map \in SUBSET Keys /\ map \in [DOMAIN map -> Entries]
<1>1. PICK K \in SUBSET Keys : map \in [K -> Entries]
  BY DEF Maps
<1> QED
  BY <1>1

LEMMA AddEntryFacts ==
  \A map \in Maps, k \in Keys, e \in Entries :
    /\ AddEntry(map, k, e) \in Maps
    /\ DOMAIN AddEntry(map, k, e) = DOMAIN map \cup {k}
    /\ AddEntry(map, k, e)[k] = e
    /\ \A x \in DOMAIN map : x # k => AddEntry(map, k, e)[x] = map[x]
<1> SUFFICES ASSUME NEW map \in Maps, NEW k \in Keys, NEW e \in Entries
             PROVE  /\ AddEntry(map, k, e) \in Maps
                    /\ DOMAIN AddEntry(map, k, e) = DOMAIN map \cup {k}
                    /\ AddEntry(map, k, e)[k] = e
                    /\ \A x \in DOMAIN map : x # k => AddEntry(map, k, e)[x] = map[x]
  OBVIOUS
<1>1. AddEntry(map, k, e) \in [DOMAIN map \cup {k} -> Entries]
  BY MapFacts DEF AddEntry
<1>2. [DOMAIN map \cup {k} -> Entries] \in {[K -> Entries] : K \in SUBSET Keys}
  BY MapFacts
<1> QED
  BY <1>1, <1>2 DEF Maps, AddEntry

(* An entry is added to the current map, the last one.                     *)
LEMMA TopChanged ==
  ASSUME NEW maps \in Seq(Maps), Len(maps) > 0, NEW k \in Keys, NEW e \in Entries,
         NEW after, after = [maps EXCEPT ![Len(maps)] = AddEntry(maps[Len(maps)], k, e)]
  PROVE  /\ after \in Seq(Maps) /\ Len(after) = Len(maps)
         /\ \A i \in 1..Len(maps) : i # Len(maps) => after[i] = maps[i]
         /\ DOMAIN after[Len(maps)] = DOMAIN maps[Len(maps)] \cup {k}
         /\ after[Len(maps)][k] = e
         /\ \A x \in DOMAIN maps[Len(maps)] : x # k => after[Len(maps)][x] = maps[Len(maps)][x]
<1>1. Len(maps) \in 1..Len(maps) /\ maps[Len(maps)] \in Maps
  BY LenProperties, ElementOfSeq
<1> DEFINE map == AddEntry(maps[Len(maps)], k, e)
<1>2. /\ map \in Maps
      /\ DOMAIN map = DOMAIN maps[Len(maps)] \cup {k}
      /\ map[k] = e
      /\ \A x \in DOMAIN maps[Len(maps)] : x # k => map[x] = maps[Len(maps)][x]
  BY <1>1, AddEntryFacts
<1>3. after = [maps EXCEPT ![Len(maps)] = map]
  OBVIOUS
<1> HIDE DEF map
<1>4. /\ [maps EXCEPT ![Len(maps)] = map] \in Seq(Maps)
      /\ Len([maps EXCEPT ![Len(maps)] = map]) = Len(maps)
      /\ \A i \in 1..Len(maps) :
           [maps EXCEPT ![Len(maps)] = map][i] = IF i = Len(maps) THEN map ELSE maps[i]
  BY <1>1, <1>2, ExceptSeq
<1> QED
  BY <1>1, <1>2, <1>3, <1>4

(* Store: the entry gets the result of its slot and is unlocked.           *)
LEMMA StoreIInv == \A t \in Threads : IInv /\ Store(t) => IInv'
<1> SUFFICES ASSUME NEW t \in Threads, IInv, Store(t)
             PROVE  IInv'
  OBVIOUS
<1> DEFINE slot == call[t].slot
           key == call[t].key
           i == Pos(slot)
           r == Result(key, call[t].since)
           e == [EntryOf(call[t]) EXCEPT !.data = r, !.locked = FALSE]
           c == [call[t] EXCEPT !.pc = "returning", !.result = r, !.generation = EntryOf(call[t]).generation]
<1>1. Consistent(m_cache, m_borrowCount, m_purgedGenerations, m_generation, clears, call, abandoned)
  BY DEF IInv
<1>2. call \in [Threads -> Calls] /\ call[t].pc = "computing" /\ InCache(call[t])
  BY <1>1 DEF Consistent, Typed, Store, InCache
<1>3. call[t] \in [pc : {"computing", "reading", "returning"}, slot : Generations, key : Keys,
                   generation : Generations, since : 0..MaxClears, result : Results]
  BY <1>2, CallFields
<1>4. CallRight(m_cache, m_purgedGenerations, m_generation, clears, call[t])
  BY <1>1, <1>2 DEF Consistent, CallsRight
<1>5. m_cache \in Seq(Maps) /\ Len(m_cache) \in Nat /\ m_purgedGenerations \in Nat /\ slot \in Nat /\ key \in Keys
  BY <1>1, <1>3, LenProperties, CacheAssumption DEF Consistent, Typed, Generations
<1>6. i \in 1..Len(m_cache) /\ key \in DOMAIN m_cache[i] /\ m_purgedGenerations + i - 1 = slot
  BY <1>4, <1>5 DEF CallRight, Has, Pos
<1>7. EntryOf(call[t]) = m_cache[i][key] /\ m_cache[i] \in Maps
  BY <1>5, <1>6, ElementOfSeq DEF EntryOf
<1>8. EntryOf(call[t]) \in Entries /\ EntryOf(call[t]).generation = slot
  <2>1. m_cache[i][key] \in Entries
    BY <1>6, <1>7, MapFacts
  <2>2. EntryRight(m_cache[i][key], slot, key, m_generation, clears, call, abandoned)
    <3> HIDE DEF i
    <3> QED
      BY <1>1, <1>6 DEF Consistent, EntriesRight
  <2> QED
    BY <2>1, <2>2, <1>7 DEF EntryRight
<1>9. r \in Results
  BY <1>3 DEF Result, Results
<1>10. e \in Entries /\ e.generation = slot /\ ~e.locked /\ e.data = r
  BY <1>8, <1>9 DEF Entries
<1>11. /\ c \in Calls /\ InCache(c) /\ c.pc = "returning" /\ c.slot = slot /\ c.key = key
       /\ c.generation = slot /\ c.since = call[t].since /\ c.result = r
  BY <1>3, <1>8, <1>9 DEF Calls, InCache, Entries
<1>12. /\ m_cache' = [m_cache EXCEPT ![i] = [m_cache[i] EXCEPT ![key] = e]]
       /\ call' = [call EXCEPT ![t] = c]
       /\ UNCHANGED <<m_enabled, m_generation, m_borrowCount, m_purgedGenerations, clears, abandoned>>
  BY DEF Store, SetEntry
<1> HIDE DEF e, c
<1>13. /\ call'[t] = c /\ call' \in [Threads -> Calls]
       /\ \A u \in Threads \ {t} : call'[u] = call[u]
  BY <1>2, <1>11, <1>12
<1>14. /\ [m_cache[i] EXCEPT ![key] = e] \in Maps
       /\ DOMAIN [m_cache[i] EXCEPT ![key] = e] = DOMAIN m_cache[i]
  <2>1. PICK K \in SUBSET Keys : m_cache[i] \in [K -> Entries]
    BY <1>7 DEF Maps
  <2>2. [m_cache[i] EXCEPT ![key] = e] \in [K -> Entries]
    BY <2>1, <1>6, <1>10
  <2>3. [K -> Entries] \in {[L -> Entries] : L \in SUBSET Keys}
    BY <2>1
  <2> QED
    BY <2>2, <2>3 DEF Maps
<1>15. /\ m_cache' \in Seq(Maps) /\ Len(m_cache') = Len(m_cache)
       /\ \A j \in 1..Len(m_cache) :
            m_cache'[j] = IF j = i THEN [m_cache[i] EXCEPT ![key] = e] ELSE m_cache[j]
  <2> HIDE DEF i
  <2> QED
    BY <1>5, <1>6, <1>12, <1>14, ExceptSeq
<1>16. \A j \in 1..Len(m_cache) :
         /\ DOMAIN m_cache'[j] = DOMAIN m_cache[j]
         /\ \A k \in DOMAIN m_cache[j] : m_cache'[j][k] = IF j = i /\ k = key THEN e ELSE m_cache[j][k]
  <2> HIDE DEF i
  <2> QED
    BY <1>14, <1>15
<1>17. \A s, k : Has(m_cache', m_purgedGenerations, s, k) <=> Has(m_cache, m_purgedGenerations, s, k)
  BY <1>15, <1>16 DEF Has
<1>18. /\ \A u \in Threads : Computes(call[u], slot, key) <=> u = t
       /\ <<slot, key>> \notin abandoned
  BY <1>1, <1>2 DEF Consistent, OneHolder, Computes
<1> HIDE DEF i
<1>19. ASSUME NEW s, NEW k
       PROVE  Held(call', abandoned, s, k) <=> Held(call, abandoned, s, k) /\ ~(s = slot /\ k = key)
  BY <1>2, <1>11, <1>13, <1>18 DEF Held, Computes
<1> HIDE DEF slot, key
<1>20. CountsRight(m_borrowCount, m_purgedGenerations, call', abandoned)
  <2>1. \A u \in Threads : /\ InCache(call'[u]) <=> InCache(call[u])
                           /\ InCache(call'[u]) => call'[u].generation = call[u].generation
    BY <1>2, <1>4, <1>11, <1>13 DEF CallRight, slot
  <2>2. \A s : Borrows(call', abandoned, s) = Borrows(call, abandoned, s)
    BY <2>1, BorrowKept
  <2> QED
    BY <2>2, <1>1 DEF Consistent, CountsRight
<1>21. CallsRight(m_cache', m_purgedGenerations, m_generation, clears, call')
  <2>1. CallRight(m_cache', m_purgedGenerations, m_generation, clears, c)
    BY <1>4, <1>11, <1>17 DEF CallRight, slot, key
  <2>2. ASSUME NEW u \in Threads \ {t}, InCache(call[u])
        PROVE  CallRight(m_cache', m_purgedGenerations, m_generation, clears, call[u])
    BY <1>1, <1>17, <2>2 DEF Consistent, CallsRight, CallRight
  <2> QED
    BY <2>1, <2>2, <1>13 DEF CallsRight
<1>22. LeftRight(m_cache', m_purgedGenerations, abandoned)
  BY <1>1, <1>17 DEF Consistent, LeftRight
<1>23. EntriesRight(m_cache', m_purgedGenerations, m_generation, clears, call', abandoned)
  <2> SUFFICES ASSUME NEW j \in 1..Len(m_cache), NEW k \in DOMAIN m_cache[j]
               PROVE  EntryRight(m_cache'[j][k], m_purgedGenerations + j - 1, k, m_generation, clears, call', abandoned)
    BY <1>15, <1>16 DEF EntriesRight
  <2>1. EntryRight(m_cache[j][k], m_purgedGenerations + j - 1, k, m_generation, clears, call, abandoned)
    BY <1>1 DEF Consistent, EntriesRight
  <2>2. j = i <=> m_purgedGenerations + j - 1 = slot
    BY <1>5, <1>6 DEF i, Pos
  <2>3. CASE j = i /\ k = key
    <3>1. ~Held(call', abandoned, slot, key)
      BY <1>19
    <3>2. r = Result(key, slot + clears - m_generation)
      BY <1>4 DEF CallRight, slot, key
    <3> QED
      BY <3>1, <3>2, <2>2, <2>3, <1>10, <1>16 DEF EntryRight
  <2>4. CASE ~(j = i /\ k = key)
    BY <2>1, <2>2, <2>4, <1>16, <1>19 DEF EntryRight
  <2> QED
    BY <2>3, <2>4
<1>24. OneHolder(call', abandoned)
  <2> SUFFICES ASSUME NEW u \in Threads, call'[u].pc = "computing"
               PROVE  /\ <<call'[u].slot, call'[u].key>> \notin abandoned
                      /\ \A v \in Threads : Computes(call'[v], call'[u].slot, call'[u].key) => v = u
    BY DEF OneHolder
  <2>1. u # t /\ call'[u] = call[u]
    BY <1>11, <1>13
  <2>2. \A v \in Threads : Computes(call'[v], call[u].slot, call[u].key) => v # t /\ call'[v] = call[v]
    BY <1>11, <1>13 DEF Computes
  <2> QED
    BY <2>1, <2>2, <1>1 DEF Consistent, OneHolder
<1>25. Numbered(m_cache', m_borrowCount, m_purgedGenerations, m_generation, clears)
  BY <1>1, <1>15 DEF Consistent, Numbered
<1> QED
  BY <1>1, <1>12, <1>13, <1>15, <1>20, <1>21, <1>22, <1>23, <1>24, <1>25 DEF IInv, Consistent, Typed
-----------------------------------------------------------------------------
(* An empty map is added for generation h: the first one of getOrLock, or  *)
(* the next one of clear.  Nothing uses its slot.                          *)
LEMMA GenerationAdded ==
  ASSUME NEW maps, NEW counts, NEW p, NEW g, NEW n, NEW calls, NEW left,
         Consistent(maps, counts, p, g, n, calls, left),
         NEW h, h = p + Len(maps), NEW m \in 0..MaxClears, m - h = n - g
  PROVE  Consistent(Append(maps, NoEntries), Append(counts, 0), p, h, m, calls, left)
<1>1. /\ Typed(maps, counts, p, g, n, calls, left) /\ Numbered(maps, counts, p, g, n)
      /\ CountsRight(counts, p, calls, left)
      /\ CallsRight(maps, p, g, n, calls) /\ LeftRight(maps, p, left)
      /\ EntriesRight(maps, p, g, n, calls, left) /\ OneHolder(calls, left)
  BY DEF Consistent
<1>2. /\ Len(maps) \in Nat /\ Len(counts) = Len(maps) /\ p \in Nat /\ g \in Nat /\ n \in Nat
      /\ h \in Nat /\ m \in Nat /\ g <= n
  BY <1>1, LenProperties, CacheAssumption DEF Typed, Numbered
<1>3. NoEntries \in Maps /\ DOMAIN NoEntries = {}
  <2>1. NoEntries \in [{} -> Entries]
    BY DEF NoEntries
  <2>2. [{} -> Entries] \in {[K -> Entries] : K \in SUBSET Keys}
    OBVIOUS
  <2> QED
    BY <2>1, <2>2 DEF Maps
<1> DEFINE maps2 == Append(maps, NoEntries)
           counts2 == Append(counts, 0)
<1>4. /\ maps2 \in Seq(Maps) /\ Len(maps2) = Len(maps) + 1
      /\ \A i \in 1..Len(maps) : maps2[i] = maps[i]
      /\ maps2[Len(maps) + 1] = NoEntries
  BY <1>1, <1>3, AppendProperties DEF Typed
<1>5. /\ counts2 \in Seq(Nat) /\ Len(counts2) = Len(maps) + 1
      /\ \A i \in 1..Len(maps) : counts2[i] = counts[i]
      /\ counts2[Len(maps) + 1] = 0
  <2>1. counts \in Seq(Nat) /\ 0 \in Nat
    BY <1>1 DEF Typed
  <2>2. /\ counts2 \in Seq(Nat) /\ Len(counts2) = Len(counts) + 1
        /\ \A i \in 1..Len(counts) : counts2[i] = counts[i]
        /\ counts2[Len(counts) + 1] = 0
    BY <2>1, AppendProperties
  <2> QED
    BY <2>2, <1>2
<1> HIDE DEF maps2, counts2
<1>6. \A s, k : Has(maps, p, s, k) => Has(maps2, p, s, k) /\ s # h
  BY <1>2, <1>4 DEF Has
<1>7. Borrows(calls, left, h) = 0
  <2>1. Borrowing(calls, h) = {}
    BY <1>1, <1>6 DEF Borrowing, CallsRight, CallRight
  <2>2. LeftAt(left, h) = {}
    BY <1>1, <1>6 DEF LeftAt, LeftRight
  <2> QED
    BY <2>1, <2>2, NoBorrows
<1>8. CountsRight(counts2, p, calls, left)
  <2> SUFFICES ASSUME NEW i \in 1..Len(maps) + 1
               PROVE  counts2[i] = Borrows(calls, left, p + i - 1)
    BY <1>5 DEF CountsRight
  <2>1. CASE i \in 1..Len(maps)
    BY <2>1, <1>1, <1>2, <1>5 DEF CountsRight
  <2>2. CASE i = Len(maps) + 1
    <3>1. p + i - 1 = h
      BY <2>2, <1>2
    <3> QED
      BY <2>2, <3>1, <1>5, <1>7
  <2> QED
    BY <1>2, <2>1, <2>2
<1>9. CallsRight(maps2, p, h, m, calls)
  <2> SUFFICES ASSUME NEW t \in Threads, InCache(calls[t])
               PROVE  CallRight(maps2, p, h, m, calls[t])
    BY DEF CallsRight
  <2>1. CallRight(maps, p, g, n, calls[t]) /\ calls[t].slot \in Nat
    BY <1>1, CallFields, CacheAssumption DEF CallsRight, Typed, Generations
  <2>2. calls[t].slot + m - h = calls[t].slot + n - g
    BY <1>2, <2>1
  <2> QED
    BY <2>1, <2>2, <1>6 DEF CallRight
<1>10. LeftRight(maps2, p, left)
  BY <1>1, <1>6 DEF LeftRight
<1>11. EntriesRight(maps2, p, h, m, calls, left)
  <2> SUFFICES ASSUME NEW i \in 1..Len(maps) + 1, NEW k \in DOMAIN maps2[i]
               PROVE  EntryRight(maps2[i][k], p + i - 1, k, h, m, calls, left)
    BY <1>4 DEF EntriesRight
  <2>1. i \in 1..Len(maps) /\ maps2[i] = maps[i]
    BY <1>2, <1>3, <1>4
  <2>2. EntryRight(maps[i][k], p + i - 1, k, g, n, calls, left)
    BY <1>1, <2>1 DEF EntriesRight
  <2>3. p + i - 1 + m - h = p + i - 1 + n - g
    BY <1>2, <2>1
  <2> QED
    BY <2>1, <2>2, <2>3 DEF EntryRight
<1>12. Numbered(maps2, counts2, p, h, m)
  BY <1>2, <1>4, <1>5 DEF Numbered
<1>13. Typed(maps2, counts2, p, h, m, calls, left)
  BY <1>1, <1>2, <1>4, <1>5 DEF Typed
<1> QED
  BY <1>1, <1>8, <1>9, <1>10, <1>11, <1>12, <1>13 DEF Consistent, maps2, counts2

LEMMA ClearIInv == IInv /\ clear => IInv'
<1> SUFFICES ASSUME IInv, clear PROVE IInv'
  OBVIOUS
<1>1. Consistent(m_cache, m_borrowCount, m_purgedGenerations, m_generation, clears, call, abandoned)
  BY DEF IInv
<1>2. /\ clears' = clears + 1 /\ clears' \in 0..MaxClears /\ clears \in Nat
      /\ UNCHANGED <<m_enabled, call, abandoned>>
  BY <1>1, CacheAssumption DEF clear, Consistent, Typed
<1>3. /\ m_cache \in Seq(Maps) /\ Len(m_cache) \in Nat /\ m_purgedGenerations \in Nat
      /\ m_generation \in Nat /\ (Len(m_cache) = 0 => m_generation = 0 /\ m_purgedGenerations = 0)
      /\ (Len(m_cache) > 0 => m_generation = m_purgedGenerations + Len(m_cache) - 1)
  BY <1>1, LenProperties DEF Consistent, Typed, Numbered
<1>4. CASE m_cache = <<>>
  <2>1. Len(m_cache) = 0
    BY <1>4, EmptySeq
  <2>2. UNCHANGED <<m_generation, m_cache, m_borrowCount, m_purgedGenerations>>
    BY <1>4 DEF clear, deques
  <2>3. \A s, k : ~Has(m_cache, m_purgedGenerations, s, k)
    BY <2>1 DEF Has
  <2>4. \A t \in Threads : ~InCache(call[t])
    BY <1>1, <2>3 DEF Consistent, CallsRight, CallRight
  <2>5. CallsRight(m_cache, m_purgedGenerations, m_generation, clears', call)
    BY <2>4 DEF CallsRight
  <2>6. EntriesRight(m_cache, m_purgedGenerations, m_generation, clears', call, abandoned)
    BY <2>1 DEF EntriesRight
  <2>7. /\ Typed(m_cache, m_borrowCount, m_purgedGenerations, m_generation, clears', call, abandoned)
        /\ Numbered(m_cache, m_borrowCount, m_purgedGenerations, m_generation, clears')
    BY <1>1, <1>2, <1>3 DEF Consistent, Typed, Numbered
  <2> QED
    BY <1>1, <1>2, <2>2, <2>5, <2>6, <2>7 DEF IInv, Consistent
<1>5. CASE m_cache # <<>>
  <2>1. Len(m_cache) > 0
    BY <1>3, <1>5, EmptySeq
  <2>2. /\ m_generation' = m_generation + 1
        /\ purgeOldGenerations(Append(m_borrowCount, 0), Append(m_cache, NoEntries))
    BY <1>5 DEF clear
  <2>3. /\ m_generation' = m_purgedGenerations + Len(m_cache)
        /\ clears' - m_generation' = clears - m_generation
    BY <1>2, <1>3, <2>1, <2>2
  <2>4. Consistent(Append(m_cache, NoEntries), Append(m_borrowCount, 0), m_purgedGenerations,
                   m_generation', clears', call, abandoned)
    BY <1>1, <1>2, <2>3, GenerationAdded
  <2> QED
    BY <1>2, <2>2, <2>4, PurgeIInv DEF IInv
<1> QED
  BY <1>4, <1>5
-----------------------------------------------------------------------------
(* The counter of the current generation after getOrLock of thread t.      *)
LEMMA BorrowCounts ==
  ASSUME NEW maps, NEW counts,
         Consistent(maps, counts, m_purgedGenerations, m_generation, clears, call, abandoned),
         Len(maps) > 0, NEW t \in Threads, \A u \in Threads \ {t} : call'[u] = call[u],
         ~InCache(call[t]), InCache(call'[t]), call'[t].generation = m_generation,
         NEW changed, changed = [counts EXCEPT ![Pos(m_generation)] = @ + 1]
  PROVE  /\ changed \in Seq(Nat) /\ Len(changed) = Len(counts)
         /\ Pos(m_generation) \in 1..Len(counts)
         /\ CountsRight(changed, m_purgedGenerations, call', abandoned)
<1>1. /\ counts \in Seq(Nat) /\ Len(counts) = Len(maps) /\ Len(counts) \in Nat
      /\ m_purgedGenerations \in Nat /\ m_generation \in Nat
      /\ m_generation = m_purgedGenerations + Len(counts) - 1 /\ IsFiniteSet(abandoned)
      /\ CountsRight(counts, m_purgedGenerations, call, abandoned)
  BY LenProperties DEF Consistent, Typed, Numbered
<1>2. Pos(m_generation) = Len(counts)
  BY <1>1 DEF Pos
<1>3. counts[Len(counts)] \in Nat
  BY <1>1, ElementOfSeq
<1>4. changed = [counts EXCEPT ![Len(counts)] = counts[Len(counts)] + 1]
  BY <1>2
<1>5. /\ changed \in Seq(Nat) /\ Len(changed) = Len(counts)
      /\ \A i \in 1..Len(counts) : changed[i] = IF i = Len(counts) THEN counts[Len(counts)] + 1 ELSE counts[i]
  <2>1. Len(counts) \in 1..Len(counts) /\ counts[Len(counts)] + 1 \in Nat
    BY <1>1, <1>3
  <2> QED
    BY <2>1, <1>1, <1>4, ExceptSeq
<1>6. \A s : Borrows(call', abandoned, s)
               = IF s = m_generation THEN Borrows(call, abandoned, s) + 1 ELSE Borrows(call, abandoned, s)
  BY <1>1, BorrowAdded
<1>7. CountsRight(changed, m_purgedGenerations, call', abandoned)
  <2> SUFFICES ASSUME NEW i \in 1..Len(counts)
               PROVE  changed[i] = Borrows(call', abandoned, m_purgedGenerations + i - 1)
    BY <1>5 DEF CountsRight
  <2>1. counts[i] = Borrows(call, abandoned, m_purgedGenerations + i - 1)
    BY <1>1 DEF CountsRight
  <2>2. i = Len(counts) <=> m_purgedGenerations + i - 1 = m_generation
    BY <1>1
  <2> QED
    BY <2>1, <2>2, <1>5, <1>6
<1> QED
  BY <1>1, <1>2, <1>5, <1>7

(* getOrLock finds no entry: a locked one is added to the current map.     *)
LEMMA MissConsistent ==
  ASSUME NEW maps, NEW counts,
         Consistent(maps, counts, m_purgedGenerations, m_generation, clears, call, abandoned),
         Len(maps) > 0, NEW t \in Threads, NEW k \in Keys, k \notin DOMAIN maps[Len(maps)],
         ~InCache(call[t]), Begin(t, "computing", m_generation, k, m_generation),
         NEW changed \in Seq(Nat), Len(changed) = Len(counts),
         CountsRight(changed, m_purgedGenerations, call', abandoned),
         NEW maps2 \in Seq(Maps), Len(maps2) = Len(maps),
         \A i \in 1..Len(maps) : i # Len(maps) => maps2[i] = maps[i],
         DOMAIN maps2[Len(maps)] = DOMAIN maps[Len(maps)] \cup {k},
         maps2[Len(maps)][k] = Entry(m_generation, TRUE, NoResult),
         \A x \in DOMAIN maps[Len(maps)] : x # k => maps2[Len(maps)][x] = maps[Len(maps)][x]
  PROVE  Consistent(maps2, changed, m_purgedGenerations, m_generation, clears, call', abandoned)
<1> DEFINE top == Len(maps)
           g == m_generation
           e == Entry(g, TRUE, NoResult)
           c == [pc |-> "computing", slot |-> g, key |-> k, generation |-> g,
                 since |-> clears, result |-> NoResult]
<1>1. /\ Typed(maps, counts, m_purgedGenerations, g, clears, call, abandoned)
      /\ Numbered(maps, counts, m_purgedGenerations, g, clears)
      /\ CallsRight(maps, m_purgedGenerations, g, clears, call) /\ LeftRight(maps, m_purgedGenerations, abandoned)
      /\ EntriesRight(maps, m_purgedGenerations, g, clears, call, abandoned) /\ OneHolder(call, abandoned)
  BY DEF Consistent
<1>2. /\ maps \in Seq(Maps) /\ top \in Nat /\ top \in 1..top /\ maps[top] \in Maps
      /\ m_purgedGenerations \in Nat /\ g \in Nat /\ clears \in Nat /\ clears \in 0..MaxClears
      /\ g = m_purgedGenerations + top - 1 /\ g <= clears
  BY <1>1, LenProperties, ElementOfSeq, CacheAssumption DEF Typed, Numbered
<1>3. g \in Generations /\ NoResult \in Results
  BY <1>2, CacheAssumption DEF Generations, NoResult, Result, Results
<1>4. /\ e \in Entries /\ e.generation = g /\ e.locked
  BY <1>3 DEF Entry, Entries
<1>5. c \in Calls /\ InCache(c) /\ c.pc = "computing"
  BY <1>2, <1>3 DEF Calls, InCache
<1>6. /\ call'[t] = c /\ call' \in [Threads -> Calls]
      /\ \A u \in Threads \ {t} : call'[u] = call[u]
  BY <1>1, <1>5 DEF Begin, Typed
<1> HIDE DEF e, c
<1>7. /\ DOMAIN maps2[top] = DOMAIN maps[top] \cup {k} /\ maps2[top][k] = e
      /\ \A x \in DOMAIN maps[top] : x # k => maps2[top][x] = maps[top][x]
  BY DEF e
<1>8. \A i \in 1..Len(maps) : i # top => maps2[i] = maps[i]
  OBVIOUS
<1>9. \A s, x : Has(maps, m_purgedGenerations, s, x) => Has(maps2, m_purgedGenerations, s, x) /\ ~(s = g /\ x = k)
  BY <1>2, <1>7, <1>8 DEF Has
<1>10. Has(maps2, m_purgedGenerations, g, k)
  BY <1>2, <1>7, <1>8 DEF Has
<1>11. /\ <<g, k>> \notin abandoned
       /\ \A u \in Threads : ~Computes(call[u], g, k)
  <2>1. \A u \in Threads : InCache(call[u]) => ~(call[u].slot = g /\ call[u].key = k)
    BY <1>1, <1>9 DEF CallsRight, CallRight
  <2>2. \A u \in Threads : ~Computes(call[u], g, k)
    BY <2>1 DEF Computes, InCache
  <2> QED
    BY <2>2, <1>1, <1>9 DEF LeftRight
<1>12. Computes(c, g, k) /\ \A s, x : Computes(c, s, x) => s = g /\ x = k
  BY DEF Computes, c
<1>13. \A s, x : \A u \in Threads : Computes(call'[u], s, x) <=> Computes(call[u], s, x) \/ (u = t /\ s = g /\ x = k)
  <2>1. \A s, x : ~Computes(call[t], s, x)
    BY DEF Computes, InCache
  <2> QED
    BY <2>1, <1>6, <1>12
<1>14. CallsRight(maps2, m_purgedGenerations, g, clears, call')
  <2>1. CallRight(maps2, m_purgedGenerations, g, clears, c)
    <3>1. clears = g + clears - g
      BY <1>2
    <3> QED
      BY <3>1, <1>10 DEF CallRight, c
  <2>2. ASSUME NEW u \in Threads \ {t}, InCache(call[u])
        PROVE  CallRight(maps2, m_purgedGenerations, g, clears, call[u])
    BY <1>1, <1>9, <2>2 DEF CallsRight, CallRight
  <2> QED
    BY <2>1, <2>2, <1>6 DEF CallsRight
<1>15. LeftRight(maps2, m_purgedGenerations, abandoned)
  BY <1>1, <1>9 DEF LeftRight
<1>16. EntriesRight(maps2, m_purgedGenerations, g, clears, call', abandoned)
  <2> SUFFICES ASSUME NEW i \in 1..Len(maps), NEW x \in DOMAIN maps2[i]
               PROVE  EntryRight(maps2[i][x], m_purgedGenerations + i - 1, x, g, clears, call', abandoned)
    BY <1>8 DEF EntriesRight
  <2>1. i = top <=> m_purgedGenerations + i - 1 = g
    BY <1>2
  <2>2. CASE i = top /\ x = k
    <3>1. Held(call', abandoned, g, k)
      BY <1>13 DEF Held
    <3> QED
      BY <3>1, <2>1, <2>2, <1>4, <1>7, <1>8 DEF EntryRight
  <2>3. CASE ~(i = top /\ x = k)
    <3>1. x \in DOMAIN maps[i] /\ maps2[i][x] = maps[i][x]
      BY <2>3, <1>7, <1>8
    <3>2. EntryRight(maps[i][x], m_purgedGenerations + i - 1, x, g, clears, call, abandoned)
      BY <3>1, <1>1 DEF EntriesRight
    <3>3. Held(call', abandoned, m_purgedGenerations + i - 1, x) <=> Held(call, abandoned, m_purgedGenerations + i - 1, x)
      BY <2>1, <2>3, <1>13 DEF Held
    <3> QED
      BY <3>1, <3>2, <3>3 DEF EntryRight
  <2> QED
    BY <2>2, <2>3
<1>17. OneHolder(call', abandoned)
  <2> SUFFICES ASSUME NEW u \in Threads, call'[u].pc = "computing"
               PROVE  /\ <<call'[u].slot, call'[u].key>> \notin abandoned
                      /\ \A v \in Threads : Computes(call'[v], call'[u].slot, call'[u].key) => v = u
    BY DEF OneHolder
  <2>1. CASE u = t
    <3>1. call'[u].slot = g /\ call'[u].key = k
      BY <2>1, <1>6 DEF c
    <3> QED
      BY <3>1, <2>1, <1>11, <1>13
  <2>2. CASE u # t
    <3>1. call'[u] = call[u] /\ ~(call[u].slot = g /\ call[u].key = k)
      BY <2>2, <1>6, <1>11 DEF Computes
    <3> QED
      BY <3>1, <1>1, <1>13 DEF OneHolder
  <2> QED
    BY <2>1, <2>2
<1> QED
  BY <1>1, <1>6, <1>14, <1>15, <1>16, <1>17 DEF Consistent, Typed, Numbered

(* getOrLock finds an entry: the call waits for it, and computes nothing.  *)
LEMMA HitConsistent ==
  ASSUME NEW maps, NEW counts,
         Consistent(maps, counts, m_purgedGenerations, m_generation, clears, call, abandoned),
         Len(maps) > 0, NEW t \in Threads, NEW k \in Keys, k \in DOMAIN maps[Len(maps)],
         ~InCache(call[t]), Begin(t, "reading", m_generation, k, m_generation),
         NEW changed \in Seq(Nat), Len(changed) = Len(counts),
         CountsRight(changed, m_purgedGenerations, call', abandoned)
  PROVE  Consistent(maps, changed, m_purgedGenerations, m_generation, clears, call', abandoned)
<1> DEFINE g == m_generation
           c == [pc |-> "reading", slot |-> g, key |-> k, generation |-> g,
                 since |-> clears, result |-> NoResult]
<1>1. /\ Typed(maps, counts, m_purgedGenerations, g, clears, call, abandoned)
      /\ Numbered(maps, counts, m_purgedGenerations, g, clears)
      /\ CallsRight(maps, m_purgedGenerations, g, clears, call) /\ LeftRight(maps, m_purgedGenerations, abandoned)
      /\ EntriesRight(maps, m_purgedGenerations, g, clears, call, abandoned) /\ OneHolder(call, abandoned)
  BY DEF Consistent
<1>2. /\ Len(maps) \in Nat /\ m_purgedGenerations \in Nat /\ g \in Nat
      /\ clears \in Nat /\ clears \in 0..MaxClears
      /\ g = m_purgedGenerations + Len(maps) - 1 /\ g <= clears
  BY <1>1, LenProperties, CacheAssumption DEF Typed, Numbered
<1>3. g \in Generations /\ NoResult \in Results
  BY <1>2, CacheAssumption DEF Generations, NoResult, Result, Results
<1>4. c \in Calls /\ InCache(c) /\ c.pc = "reading"
  BY <1>2, <1>3 DEF Calls, InCache
<1>5. /\ call'[t] = c /\ call' \in [Threads -> Calls]
      /\ \A u \in Threads \ {t} : call'[u] = call[u]
  BY <1>1, <1>4 DEF Begin, Typed
<1> HIDE DEF c
<1>6. \A s, x : \A u \in Threads : Computes(call'[u], s, x) <=> Computes(call[u], s, x)
  BY <1>4, <1>5 DEF Computes, InCache
<1>7. CallRight(maps, m_purgedGenerations, g, clears, c)
  <2>1. Has(maps, m_purgedGenerations, g, k) /\ clears = g + clears - g
    BY <1>2 DEF Has
  <2> QED
    BY <2>1 DEF CallRight, c
<1>8. CallsRight(maps, m_purgedGenerations, g, clears, call')
  BY <1>1, <1>5, <1>7 DEF CallsRight
<1>9. EntriesRight(maps, m_purgedGenerations, g, clears, call', abandoned)
  BY <1>1, <1>6 DEF EntriesRight, EntryRight, Held
<1>10. OneHolder(call', abandoned)
  <2> SUFFICES ASSUME NEW u \in Threads, call'[u].pc = "computing"
               PROVE  /\ <<call'[u].slot, call'[u].key>> \notin abandoned
                      /\ \A v \in Threads : Computes(call'[v], call'[u].slot, call'[u].key) => v = u
    BY DEF OneHolder
  <2>1. call'[u] = call[u]
    BY <1>4, <1>5
  <2> QED
    BY <2>1, <1>1, <1>6 DEF OneHolder
<1> QED
  BY <1>1, <1>5, <1>8, <1>9, <1>10 DEF Consistent, Typed, Numbered

(* getOrLock, with the first map already there.                            *)
LEMMA FoundIInv ==
  ASSUME NEW maps, NEW counts,
         Consistent(maps, counts, m_purgedGenerations, m_generation, clears, call, abandoned),
         FirstBorrowed(counts), m_enabled' \in BOOLEAN,
         Len(maps) > 0, NEW t \in Threads, NEW k \in Keys, ~InCache(call[t]),
         UNCHANGED <<m_generation, clears, abandoned>>,
         \/ /\ k \notin DOMAIN maps[Len(maps)]
            /\ modifyBorrowCount(m_generation, 1, counts,
                 [maps EXCEPT ![Len(maps)] = AddEntry(@, k, Entry(m_generation, TRUE, NoResult))])
            /\ Begin(t, "computing", m_generation, k, m_generation)
         \/ /\ k \in DOMAIN maps[Len(maps)]
            /\ modifyBorrowCount(maps[Len(maps)][k].generation, 1, counts, maps)
            /\ Begin(t, "reading", m_generation, k, maps[Len(maps)][k].generation)
  PROVE  IInv'
<1> DEFINE top == Len(maps)
           changed == [counts EXCEPT ![Pos(m_generation)] = @ + 1]
<1>1. /\ Typed(maps, counts, m_purgedGenerations, m_generation, clears, call, abandoned)
      /\ Numbered(maps, counts, m_purgedGenerations, m_generation, clears)
      /\ EntriesRight(maps, m_purgedGenerations, m_generation, clears, call, abandoned)
  BY DEF Consistent
<1>2. /\ maps \in Seq(Maps) /\ counts \in Seq(Nat) /\ call \in [Threads -> Calls]
      /\ top \in Nat /\ top \in 1..top /\ maps[top] \in Maps
      /\ m_purgedGenerations \in Nat /\ m_generation \in Nat /\ clears \in Nat
      /\ m_generation = m_purgedGenerations + top - 1 /\ m_generation <= clears
      /\ m_generation \in Generations
  BY <1>1, LenProperties, ElementOfSeq, CacheAssumption DEF Typed, Numbered, Generations
<1>3. ASSUME NEW pc \in {"computing", "reading"}, Begin(t, pc, m_generation, k, m_generation)
      PROVE  /\ changed \in Seq(Nat) /\ Len(changed) = Len(counts)
             /\ Pos(m_generation) \in 1..Len(counts)
             /\ CountsRight(changed, m_purgedGenerations, call', abandoned)
  <2>1. /\ call'[t].generation = m_generation /\ InCache(call'[t])
        /\ \A u \in Threads \ {t} : call'[u] = call[u]
    BY <1>2, <1>3 DEF Begin, InCache
  <2> HIDE DEF changed
  <2> QED
    BY <2>1, BorrowCounts DEF changed
<1>4. CASE k \notin DOMAIN maps[top]
  <2> DEFINE e == Entry(m_generation, TRUE, NoResult)
             maps2 == [maps EXCEPT ![top] = AddEntry(@, k, e)]
  <2>1. /\ modifyBorrowCount(m_generation, 1, counts, maps2)
        /\ Begin(t, "computing", m_generation, k, m_generation)
    BY <1>4
  <2>2. e \in Entries
    BY <1>2, CacheAssumption DEF Entry, Entries, NoResult, Result, Results
  <2>3. maps2 = [maps EXCEPT ![top] = AddEntry(maps[top], k, e)]
    BY <1>2
  <2> HIDE DEF maps2, e
  <2>4. /\ maps2 \in Seq(Maps) /\ Len(maps2) = Len(maps)
        /\ \A i \in 1..Len(maps) : i # Len(maps) => maps2[i] = maps[i]
        /\ DOMAIN maps2[Len(maps)] = DOMAIN maps[Len(maps)] \cup {k}
        /\ maps2[Len(maps)][k] = e
        /\ \A x \in DOMAIN maps[Len(maps)] : x # k => maps2[Len(maps)][x] = maps[Len(maps)][x]
    BY <1>2, <2>2, <2>3, TopChanged
  <2>5. /\ changed \in Seq(Nat) /\ Len(changed) = Len(counts)
        /\ Pos(m_generation) \in 1..Len(counts)
        /\ CountsRight(changed, m_purgedGenerations, call', abandoned)
    BY <1>3, <2>1
  <2> HIDE DEF changed
  <2>6. Consistent(maps2, changed, m_purgedGenerations, m_generation, clears, call', abandoned)
    BY <1>4, <2>1, <2>4, <2>5, MissConsistent DEF e
  <2>7. Consistent(maps2, changed, m_purgedGenerations, m_generation', clears', call', abandoned')
    BY <2>6
  <2> QED
    BY <1>2, <2>1, <2>5, <2>7, ModifyIInv DEF changed
<1>5. CASE k \in DOMAIN maps[top]
  <2>1. maps[top][k].generation = m_generation
    BY <1>1, <1>2, <1>5 DEF EntriesRight, EntryRight
  <2>2. /\ modifyBorrowCount(m_generation, 1, counts, maps)
        /\ Begin(t, "reading", m_generation, k, m_generation)
    BY <1>5, <2>1
  <2>3. /\ changed \in Seq(Nat) /\ Len(changed) = Len(counts)
        /\ Pos(m_generation) \in 1..Len(counts)
        /\ CountsRight(changed, m_purgedGenerations, call', abandoned)
    BY <1>3, <2>2
  <2> HIDE DEF changed
  <2>4. Consistent(maps, changed, m_purgedGenerations, m_generation, clears, call', abandoned)
    BY <1>5, <2>2, <2>3, HitConsistent
  <2>5. Consistent(maps, changed, m_purgedGenerations, m_generation', clears', call', abandoned')
    BY <2>4
  <2> QED
    BY <1>2, <2>2, <2>3, <2>5, ModifyIInv DEF changed
<1> QED
  BY <1>4, <1>5

LEMMA GetIInv == \A t \in Threads, k \in Keys : IInv /\ getOrLock(t, k) => IInv'
<1> SUFFICES ASSUME NEW t \in Threads, NEW k \in Keys, IInv, getOrLock(t, k)
             PROVE  IInv'
  OBVIOUS
<1> DEFINE first  == m_cache = <<>>
           maps   == IF first THEN <<NoEntries>> ELSE m_cache
           counts == IF first THEN <<0>> ELSE m_borrowCount
<1>1. /\ Consistent(m_cache, m_borrowCount, m_purgedGenerations, m_generation, clears, call, abandoned)
      /\ FirstBorrowed(m_borrowCount) /\ m_enabled \in BOOLEAN
  BY DEF IInv
<1>2. /\ m_cache \in Seq(Maps) /\ Len(m_cache) \in Nat /\ m_borrowCount \in Seq(Nat)
      /\ Len(m_borrowCount) = Len(m_cache)
      /\ m_purgedGenerations \in Nat /\ m_generation \in Nat /\ clears \in 0..MaxClears
      /\ Len(m_cache) = 0 => m_purgedGenerations = 0 /\ m_generation = 0
  BY <1>1, LenProperties DEF Consistent, Typed, Numbered
<1>3. /\ Consistent(maps, counts, m_purgedGenerations, m_generation, clears, call, abandoned)
      /\ FirstBorrowed(counts) /\ Len(maps) > 0
  <2>1. CASE first
    <3>1. Len(m_cache) = 0 /\ Len(m_borrowCount) = 0
      BY <2>1, <1>2, EmptySeq
    <3>2. m_borrowCount = <<>>
      BY <3>1, <1>2, EmptySeq
    <3>3. m_generation = m_purgedGenerations + Len(m_cache)
      BY <3>1, <1>2
    <3>4. Consistent(Append(m_cache, NoEntries), Append(m_borrowCount, 0), m_purgedGenerations,
                     m_generation, clears, call, abandoned)
      BY <1>1, <1>2, <3>3, GenerationAdded
    <3>5. Append(m_cache, NoEntries) = <<NoEntries>> /\ Append(m_borrowCount, 0) = <<0>>
      BY <2>1, <3>2
    <3>6. Len(<<NoEntries>>) = 1 /\ Len(<<0>>) = 1
      OBVIOUS
    <3>7. maps = <<NoEntries>> /\ counts = <<0>>
      BY <2>1
    <3> HIDE DEF maps, counts
    <3>8. Consistent(maps, counts, m_purgedGenerations, m_generation, clears, call, abandoned)
      BY <3>4, <3>5, <3>7
    <3>9. Len(maps) = 1 /\ Len(counts) = 1
      BY <3>6, <3>7
    <3> QED
      BY <3>8, <3>9 DEF FirstBorrowed
  <2>2. CASE ~first
    BY <2>2, <1>1, <1>2, EmptySeq
  <2> QED
    BY <2>1, <2>2
<1>4. m_generation = m_purgedGenerations + Len(maps) - 1
  BY <1>3 DEF Consistent, Numbered
<1>5. /\ ~InCache(call[t]) /\ m_enabled' \in BOOLEAN
      /\ UNCHANGED <<m_generation, clears, abandoned>>
  BY <1>1 DEF getOrLock, InCache
<1>6. \/ /\ k \notin DOMAIN maps[Len(maps)]
         /\ modifyBorrowCount(m_generation, 1, counts,
              [maps EXCEPT ![Len(maps)] = AddEntry(@, k, Entry(m_generation, TRUE, NoResult))])
         /\ Begin(t, "computing", m_generation, k, m_generation)
      \/ /\ k \in DOMAIN maps[Len(maps)]
         /\ modifyBorrowCount(maps[Len(maps)][k].generation, 1, counts, maps)
         /\ Begin(t, "reading", m_generation, k, maps[Len(maps)][k].generation)
  <2> DEFINE slot == m_purgedGenerations + Len(maps) - 1
  <2>1. \/ /\ k \notin DOMAIN maps[Len(maps)]
           /\ modifyBorrowCount(m_generation, 1, counts,
                [maps EXCEPT ![Len(maps)] = AddEntry(@, k, Entry(m_generation, TRUE, NoResult))])
           /\ Begin(t, "computing", slot, k, m_generation)
        \/ /\ k \in DOMAIN maps[Len(maps)]
           /\ modifyBorrowCount(maps[Len(maps)][k].generation, 1, counts, maps)
           /\ Begin(t, "reading", slot, k, maps[Len(maps)][k].generation)
    BY DEF getOrLock
  <2> HIDE DEF maps, counts
  <2> QED
    BY <2>1, <1>4
<1> HIDE DEF maps, counts
<1> QED
  BY <1>3, <1>5, <1>6, FoundIInv
-----------------------------------------------------------------------------
LEMMA EnableIInv == \A on \in BOOLEAN : IInv /\ enable(on) => IInv'
BY DEF enable, IInv, Consistent, Typed, Numbered, CountsRight, CallsRight, LeftRight, EntriesRight,
  OneHolder, FirstBorrowed, deques

LEMMA GetEmptyIInv == \A t \in Threads : IInv /\ GetEmpty(t) => IInv'
<1> SUFFICES ASSUME NEW t \in Threads, IInv, GetEmpty(t)
             PROVE  IInv'
  OBVIOUS
<1>1. call \in [Threads -> Calls]
  BY DEF IInv, Consistent, Typed
<1>2. [pc |-> "empty"] \in Calls /\ ~InCache([pc |-> "empty"])
  BY DEF Calls, InCache
<1>3. call[t].pc = "idle" /\ call' = [call EXCEPT ![t] = [pc |-> "empty"]]
  BY DEF GetEmpty
<1>4. /\ call' \in [Threads -> Calls]
      /\ \A u \in Threads : InCache(call[u]) \/ InCache(call'[u]) => call'[u] = call[u]
  BY <1>1, <1>2, <1>3 DEF InCache
<1> QED
  BY <1>4, OutsideIInv DEF GetEmpty

LEMMA StoreEmptyIInv == \A t \in Threads : IInv /\ StoreEmpty(t) => IInv'
<1> SUFFICES ASSUME NEW t \in Threads, IInv, StoreEmpty(t)
             PROVE  IInv'
  OBVIOUS
<1>1. call \in [Threads -> Calls]
  BY DEF IInv, Consistent, Typed
<1>2. Idle \in Calls /\ ~InCache(Idle)
  BY DEF Idle, Calls, InCache
<1>3. call[t].pc = "empty" /\ call' = [call EXCEPT ![t] = Idle]
  BY DEF StoreEmpty
<1>4. /\ call' \in [Threads -> Calls]
      /\ \A u \in Threads : InCache(call[u]) \/ InCache(call'[u]) => call'[u] = call[u]
  BY <1>1, <1>2, <1>3 DEF InCache
<1> QED
  BY <1>4, OutsideIInv DEF StoreEmpty

(* Every step of the cache preserves the inductive invariant.              *)
THEOREM Invariance == Spec => []IInv
<1>1. IInv /\ [Next]_vars => IInv'
  <2> SUFFICES ASSUME IInv, [Next]_vars PROVE IInv'
    OBVIOUS
  <2>1. CASE UNCHANGED vars
    BY <2>1 DEF vars, deques, IInv, Consistent, Typed, Numbered, CountsRight, CallsRight, LeftRight,
      EntriesRight, OneHolder, FirstBorrowed
  <2>2. CASE \E on \in BOOLEAN : enable(on)
    BY <2>2, EnableIInv
  <2>3. CASE \E t \in Threads : GetEmpty(t)
    BY <2>3, GetEmptyIInv
  <2>4. CASE \E t \in Threads : Work(t)
    BY <2>4, ReadIInv, StoreIInv, StoreEmptyIInv, ReturnIInv DEF Work
  <2>5. CASE \E t \in Threads : Abandon(t)
    BY <2>5, AbandonIInv
  <2>6. CASE \E t \in Threads, k \in Keys : getOrLock(t, k)
    BY <2>6, GetIInv
  <2>7. CASE clear
    BY <2>7, ClearIInv
  <2> QED
    BY <2>1, <2>2, <2>3, <2>4, <2>5, <2>6, <2>7 DEF Next
<1> QED
  BY <1>1, InitIInv, PTL DEF Spec
-----------------------------------------------------------------------------
(* Everything the cache and its callers keep has its type: in particular,  *)
(* counters are never negative, as modifyBorrowCount asserts.              *)
THEOREM TypeCorrect == Spec => []TypeOK
<1>1. IInv => TypeOK
  <2> SUFFICES ASSUME IInv PROVE TypeOK
    OBVIOUS
  <2>1. /\ Typed(m_cache, m_borrowCount, m_purgedGenerations, m_generation, clears, call, abandoned)
        /\ Numbered(m_cache, m_borrowCount, m_purgedGenerations, m_generation, clears)
        /\ m_enabled \in BOOLEAN
    BY DEF IInv, Consistent
  <2>2. m_generation \in Nat /\ m_purgedGenerations \in Nat /\ clears \in Nat /\ clears <= MaxClears
        /\ Len(m_cache) \in Nat /\ MaxClears \in Nat
    BY <2>1, LenProperties, CacheAssumption DEF Typed
  <2>3. m_generation <= MaxClears /\ m_purgedGenerations <= m_generation
    BY <2>1, <2>2 DEF Numbered
  <2>4. m_generation \in Generations /\ m_purgedGenerations \in Generations
    BY <2>2, <2>3 DEF Generations
  <2> QED
    BY <2>1, <2>4 DEF TypeOK, Typed, Maps
<1> QED
  BY <1>1, Invariance, PTL

(* m_borrowCount says how many calls and abandoned entries borrow from     *)
(* each generation.                                                        *)
THEOREM BorrowsAlwaysCounted == Spec => []BorrowsCounted
<1>1. IInv => BorrowsCounted
  <2> SUFFICES ASSUME IInv PROVE BorrowsCounted
    OBVIOUS
  <2>1. /\ CountsRight(m_borrowCount, m_purgedGenerations, call, abandoned)
        /\ Len(m_borrowCount) = Len(m_cache) /\ m_borrowCount \in Seq(Nat)
    BY DEF IInv, Consistent, Numbered, Typed
  <2>2. DOMAIN m_borrowCount = 1..Len(m_borrowCount)
    BY <2>1, LenProperties
  <2>3. \A s : Borrows(call, abandoned, s) = Cardinality(Borrowers(s)) + Cardinality(LeftIn(s))
    BY DEF Borrows, Borrowing, Borrowers, LeftAt, LeftIn
  <2> QED
    BY <2>1, <2>2, <2>3 DEF BorrowsCounted, CountsRight
<1> QED
  BY <1>1, Invariance, PTL

(* purgeOldGenerations never takes away the entry that a thread waits for  *)
(* or computes, nor the counter that it will decrement.                    *)
THEOREM EntriesStayAlive == Spec => []EntriesAlive
<1>1. IInv => EntriesAlive
  <2> SUFFICES ASSUME IInv, NEW t \in Threads, InCache(call[t])
               PROVE  /\ Live(call[t].slot, call[t].key)
                      /\ Pos(call[t].generation) \in DOMAIN m_borrowCount
    BY DEF EntriesAlive
  <2>1. CallRight(m_cache, m_purgedGenerations, m_generation, clears, call[t])
    BY DEF IInv, Consistent, CallsRight
  <2>2. DOMAIN m_cache = 1..Len(m_cache) /\ DOMAIN m_borrowCount = 1..Len(m_cache)
    BY LenProperties DEF IInv, Consistent, Typed, Numbered
  <2> QED
    BY <2>1, <2>2 DEF CallRight, Has, Live, Pos
<1> QED
  BY <1>1, Invariance, PTL

(* storeAndUnlock and a hit of getOrLock return the result for their key   *)
(* as of the last clear() before the call.                                 *)
THEOREM ResultsCurrent == Spec => []ResultCurrent
<1>1. IInv => ResultCurrent
  <2> SUFFICES ASSUME IInv, NEW t \in Threads, call[t].pc = "returning"
               PROVE  call[t].result.of = call[t].key /\ call[t].result.since >= call[t].since
    BY DEF ResultCurrent
  <2>1. InCache(call[t]) /\ call[t] \in Calls
    BY DEF InCache, IInv, Consistent, Typed
  <2>2. call[t].result = Result(call[t].key, call[t].since)
    BY <2>1 DEF IInv, Consistent, CallsRight, CallRight
  <2>3. call[t].since \in Nat
    BY <2>1, CallFields, CacheAssumption
  <2> QED
    BY <2>2, <2>3 DEF Result
<1> QED
  BY <1>1, Invariance, PTL

(* clear() and the last storeAndUnlock leave no generation behind that     *)
(* nothing keeps.                                                          *)
THEOREM OldGenerationsArePurged == Spec => []OldGenerationsPurged
<1>1. IInv => OldGenerationsPurged
  BY DEF IInv, FirstBorrowed, OldGenerationsPurged
<1> QED
  BY <1>1, Invariance, PTL

(* An entry's mutex is held by exactly one thread while it computes, or by *)
(* the one that abandoned the entry, and otherwise by nobody.              *)
THEOREM OneThreadComputes == Spec => []OneComputes
<1>1. IInv => OneComputes
  <2> SUFFICES ASSUME IInv, NEW i \in DOMAIN m_cache, NEW k \in DOMAIN m_cache[i],
                      NEW slot, slot = m_purgedGenerations + i - 1,
                      NEW holders, holders = {t \in Threads : /\ call[t].pc = "computing"
                                                              /\ call[t].slot = slot /\ call[t].key = k}
               PROVE  Cardinality(holders) + Cardinality(abandoned \cap {<<slot, k>>})
                        = IF m_cache[i][k].locked THEN 1 ELSE 0
    BY DEF OneComputes
  <2>1. /\ EntriesRight(m_cache, m_purgedGenerations, m_generation, clears, call, abandoned)
        /\ OneHolder(call, abandoned) /\ m_cache \in Seq(Maps)
    BY DEF IInv, Consistent, Typed
  <2>2. i \in 1..Len(m_cache)
    BY <2>1, LenProperties
  <2>3. m_cache[i][k].locked <=> Held(call, abandoned, slot, k)
    BY <2>1, <2>2 DEF EntriesRight, EntryRight
  <2>4. holders = {t \in Threads : Computes(call[t], slot, k)}
    BY DEF Computes
  <2>5. Cardinality({}) = 0 /\ \A x : Cardinality({x}) = 1
    BY FS_EmptySet, FS_Singleton
  <2>6. CASE <<slot, k>> \in abandoned
    <3>1. holders = {}
      BY <2>1, <2>4, <2>6 DEF OneHolder, Computes
    <3>2. abandoned \cap {<<slot, k>>} = {<<slot, k>>}
      BY <2>6
    <3>3. m_cache[i][k].locked
      BY <2>3, <2>6 DEF Held
    <3>4. Cardinality(holders) = 0 /\ Cardinality(abandoned \cap {<<slot, k>>}) = 1
      BY <2>5, <3>1, <3>2
    <3> QED
      BY <3>3, <3>4
  <2>7. CASE <<slot, k>> \notin abandoned
    <3>1. abandoned \cap {<<slot, k>>} = {}
      BY <2>7
    <3>2. CASE holders = {}
      <4>1. ~m_cache[i][k].locked
        BY <2>3, <2>4, <2>7, <3>2 DEF Held
      <4>2. Cardinality(holders) = 0 /\ Cardinality(abandoned \cap {<<slot, k>>}) = 0
        BY <2>5, <3>1, <3>2
      <4> QED
        BY <4>1, <4>2
    <3>3. CASE holders # {}
      <4>1. PICK t \in Threads : Computes(call[t], slot, k)
        BY <2>4, <3>3
      <4>2. \A u \in Threads : Computes(call[u], slot, k) => u = t
        BY <2>1, <4>1 DEF OneHolder, Computes
      <4>3. holders = {t}
        BY <2>4, <4>1, <4>2
      <4>4. m_cache[i][k].locked
        BY <2>3, <4>1 DEF Held
      <4>5. Cardinality(holders) = 1 /\ Cardinality(abandoned \cap {<<slot, k>>}) = 0
        BY <2>5, <3>1, <4>3
      <4> QED
        BY <4>4, <4>5
    <3> QED
      BY <3>2, <3>3
  <2> QED
    BY <2>6, <2>7
<1> QED
  BY <1>1, Invariance, PTL
===========================================================================
