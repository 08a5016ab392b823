----------------------------- MODULE ResultCache -----------------------------
(***************************************************************************)
(* The cache in which the compute threads of a module share results        *)
(* between timesteps (lib/vistle/module/resultcache_impl.h).  The first    *)
(* thread to ask for a key gets the entry locked and computes the result;  *)
(* the others wait for the entry's mutex and copy the result.  clear()     *)
(* starts a new generation; the entries of an old one stay in memory until *)
(* nobody borrows from it.                                                 *)
(*                                                                         *)
(* What the code does while it holds m_mutex is one step.  An entry is     *)
(* addressed by its slot, the position its map would have in a deque that  *)
(* nothing is popped from, and its key.                                    *)
(***************************************************************************)
EXTENDS Integers, Sequences, FiniteSets

CONSTANTS
  Threads,      \* compute threads of the module
  Keys,         \* names of the input objects
  Abandoners,   \* threads that may return without storing a result
  MaxClears     \* bound: number of calls of clear()

ASSUME CacheAssumption ==
  /\ IsFiniteSet(Threads) /\ IsFiniteSet(Keys)
  /\ Abandoners \subseteq Threads
  /\ MaxClears \in Nat

VARIABLES
  m_enabled, m_generation, m_purgedGenerations,
  m_cache,         \* sequence of maps from keys to entries
  m_borrowCount,   \* sequence of counters
  clears,          \* calls of clear() so far, what results are current for
  call,            \* what a thread is doing
  abandoned        \* <<slot, key>> of entries that were left locked

deques == <<m_cache, m_borrowCount, m_purgedGenerations>>
vars   == <<m_enabled, m_generation, deques, clears, call, abandoned>>

(* A result: the key it belongs to, and the clear() it was computed after. *)
Result(k, n) == [of |-> k, since |-> n]
NoResult == Result("none", 0)

(* Fault: ent.mutex.lock() is missing.                                     *)
EntryUnlocked(g, locked, data) == [generation |-> g, locked |-> FALSE, data |-> data]
Entry(g, locked, data) == [generation |-> g, locked |-> locked, data |-> data]
NoEntries == [k \in {} |-> 0]
AddEntry(map, k, e) == [x \in DOMAIN map \cup {k} |-> IF x = k THEN e ELSE map[x]]

Idle == [pc |-> "idle"]
InCache(c) == c.pc \in {"computing", "reading", "returning"}

(* Position in the deques of an absolute number, and the entry of a call.  *)
Pos(n) == n - m_purgedGenerations + 1
EntryOf(c) == m_cache[Pos(c.slot)][c.key]
(* Fault: entry->mutex.unlock() is missing.                                *)
SetLocked(c, e) == m_cache' = [m_cache EXCEPT ![Pos(c.slot)][c.key] = [e EXCEPT !.locked = TRUE]]
SetEntry(c, e) == m_cache' = [m_cache EXCEPT ![Pos(c.slot)][c.key] = e]
-----------------------------------------------------------------------------
(* Fault: borrows are not looked at.                                       *)
PurgeableOld(counts) == IF counts = <<>> THEN 0 ELSE Len(counts) - 1

(* How many of the oldest generations purgeOldGenerations removes.         *)
Purgeable(counts) ==
  CHOOSE k \in 0..Len(counts) :
    /\ \A i \in 1..k : counts[i] = 0
    /\ k + 1 >= Len(counts) \/ counts[k + 1] > 0
    /\ k = 0 \/ k < Len(counts)

Drop(s, k) == SubSeq(s, k + 1, Len(s))

purgeOldGenerations(counts, maps) ==
  LET k == Purgeable(counts)
  IN  /\ m_purgedGenerations' = m_purgedGenerations + k
      /\ m_borrowCount' = Drop(counts, k)
      /\ m_cache' = Drop(maps, k)

(* Fault: nothing is purged when the last borrow is returned.              *)
modifyOnly(g, delta, counts, maps) ==
  /\ m_borrowCount' = [counts EXCEPT ![Pos(g)] = @ + delta]
  /\ m_cache' = maps /\ UNCHANGED m_purgedGenerations

modifyBorrowCount(g, delta, counts, maps) ==
  LET changed == [counts EXCEPT ![Pos(g)] = @ + delta]
  IN  IF changed[Pos(g)] = 0
      THEN purgeOldGenerations(changed, maps)
      ELSE m_borrowCount' = changed /\ m_cache' = maps /\ UNCHANGED m_purgedGenerations

Begin(t, pc, slot, k, g) ==
  call' = [call EXCEPT ![t] = [pc |-> pc, slot |-> slot, key |-> k, generation |-> g,
                               since |-> clears, result |-> NoResult]]
-----------------------------------------------------------------------------
enable(on) ==
  /\ m_enabled' = on
  /\ UNCHANGED <<m_generation, deques, clears, call, abandoned>>

(* getOrLock while disabled: m_empty is handed out, nothing is shared.     *)
GetEmpty(t) ==
  /\ call[t].pc = "idle" /\ ~m_enabled
  /\ call' = [call EXCEPT ![t] = [pc |-> "empty"]]
  /\ UNCHANGED <<m_enabled, m_generation, deques, clears, abandoned>>

(* getOrLock up to its return of a new entry, or up to guard.unlock().     *)
getOrLock(t, k) ==
  /\ call[t].pc = "idle" /\ m_enabled
  /\ LET first  == m_cache = <<>>
         maps   == IF first THEN <<NoEntries>> ELSE m_cache
         counts == IF first THEN <<0>> ELSE m_borrowCount
         top    == Len(maps)
         slot   == m_purgedGenerations + top - 1
     IN  \/ /\ k \notin DOMAIN maps[top]
            /\ modifyBorrowCount(m_generation, 1, counts,
                 [maps EXCEPT ![top] = AddEntry(@, k, Entry(m_generation, TRUE, NoResult))])
            /\ Begin(t, "computing", slot, k, m_generation)
         \/ /\ k \in DOMAIN maps[top]
            /\ LET g == maps[top][k].generation
               IN  modifyBorrowCount(g, 1, counts, maps) /\ Begin(t, "reading", slot, k, g)
  /\ UNCHANGED <<m_enabled, m_generation, clears, abandoned>>

(* getOrLock, under the entry's mutex: the result is copied.               *)
Read(t) ==
  /\ call[t].pc = "reading"
  /\ ~EntryOf(call[t]).locked
  /\ call' = [call EXCEPT ![t].pc = "returning", ![t].result = EntryOf(call[t]).data]
  /\ UNCHANGED <<m_enabled, m_generation, deques, clears, abandoned>>

(* storeAndUnlock up to entry->mutex.unlock().                             *)
Store(t) ==
  /\ call[t].pc = "computing"
  /\ LET r == Result(call[t].key, call[t].since)
     IN  /\ SetEntry(call[t], [EntryOf(call[t]) EXCEPT !.data = r, !.locked = FALSE])
         /\ call' = [call EXCEPT ![t].pc = "returning", ![t].result = r,
                                 ![t].generation = EntryOf(call[t]).generation]
  /\ UNCHANGED <<m_enabled, m_generation, m_borrowCount, m_purgedGenerations, clears, abandoned>>

StoreEmpty(t) ==
  /\ call[t].pc = "empty"
  /\ call' = [call EXCEPT ![t] = Idle]
  /\ UNCHANGED <<m_enabled, m_generation, deques, clears, abandoned>>

(* Fault: the borrow is returned to the current generation.                *)
ReturnToCurrent(t) ==
  /\ call[t].pc = "returning"
  /\ modifyBorrowCount(m_generation, -1, m_borrowCount, m_cache)
  /\ call' = [call EXCEPT ![t] = Idle]
  /\ UNCHANGED <<m_enabled, m_generation, clears, abandoned>>

(* The end of getOrLock after a hit, and of storeAndUnlock.                *)
Return(t) ==
  /\ call[t].pc = "returning"
  /\ modifyBorrowCount(call[t].generation, -1, m_borrowCount, m_cache)
  /\ call' = [call EXCEPT ![t] = Idle]
  /\ UNCHANGED <<m_enabled, m_generation, clears, abandoned>>

(* A module that returns between getOrLock and storeAndUnlock.             *)
Abandon(t) ==
  /\ t \in Abandoners
  /\ call[t].pc = "computing"
  /\ abandoned' = abandoned \cup {<<call[t].slot, call[t].key>>}
  /\ call' = [call EXCEPT ![t] = Idle]
  /\ UNCHANGED <<m_enabled, m_generation, deques, clears>>

(* Fault: the map of the old generation remains the current one.           *)
clearCounting ==
  /\ clears < MaxClears
  /\ clears' = clears + 1
  /\ UNCHANGED <<m_enabled, m_generation, deques, call, abandoned>>

clear ==
  /\ clears < MaxClears
  /\ clears' = clears + 1
  /\ IF m_cache = <<>>
     THEN UNCHANGED <<m_generation, deques>>
     ELSE /\ m_generation' = m_generation + 1
          /\ purgeOldGenerations(Append(m_borrowCount, 0), Append(m_cache, NoEntries))
  /\ UNCHANGED <<m_enabled, call, abandoned>>
-----------------------------------------------------------------------------
Init ==
  /\ m_enabled = TRUE
  /\ m_generation = 0 /\ m_purgedGenerations = 0
  /\ m_cache = <<>> /\ m_borrowCount = <<>>
  /\ clears = 0
  /\ call = [t \in Threads |-> Idle]
  /\ abandoned = {}

Work(t) == Read(t) \/ Store(t) \/ StoreEmpty(t) \/ Return(t)

Next ==
  \/ \E on \in BOOLEAN : enable(on)
  \/ \E t \in Threads : GetEmpty(t) \/ Work(t) \/ Abandon(t)
  \/ \E t \in Threads, k \in Keys : getOrLock(t, k)
  \/ clear

Spec == Init /\ [][Next]_vars

(* A thread computes its result in finite time and takes a free mutex.  An *)
(* entry is locked only once, so it stays free.                            *)
FairSpec == Spec /\ \A t \in Threads : WF_vars(Work(t))
-----------------------------------------------------------------------------
Generations == 0..MaxClears
Results == [of : Keys \cup {"none"}, since : 0..MaxClears]
Entries == [generation : Generations, locked : BOOLEAN, data : Results]
Calls ==
  [pc : {"idle", "empty"}]
    \cup [pc : {"computing", "reading", "returning"}, slot : Generations, key : Keys,
          generation : Generations, since : 0..MaxClears, result : Results]

TypeOK ==
  /\ m_enabled \in BOOLEAN
  /\ m_generation \in Generations /\ m_purgedGenerations \in Generations
  /\ m_cache \in Seq(UNION {[K -> Entries] : K \in SUBSET Keys})
  /\ m_borrowCount \in Seq(Nat)
  /\ clears \in 0..MaxClears
  /\ call \in [Threads -> Calls]
  /\ abandoned \subseteq Generations \X Keys

(* Those who borrow from generation g: calls, and entries left locked.     *)
Borrowers(g) == {t \in Threads : InCache(call[t]) /\ call[t].generation = g}
LeftIn(g) == {e \in abandoned : e[1] = g}

(* Every counter says how many borrow from its generation: no call returns *)
(* a borrow twice or to another generation, although generations are added *)
(* and purged between its two uses of m_mutex.                             *)
BorrowsCounted ==
  /\ Len(m_borrowCount) = Len(m_cache)
  /\ \A i \in DOMAIN m_borrowCount :
       LET g == m_purgedGenerations + i - 1
       IN  m_borrowCount[i] = Cardinality(Borrowers(g)) + Cardinality(LeftIn(g))

Live(slot, k) ==
  /\ Pos(slot) \in DOMAIN m_cache
  /\ k \in DOMAIN m_cache[Pos(slot)]

(* A thread that is outside m_mutex still has its entry in memory, and the *)
(* assertions of modifyBorrowCount hold when it gets back to it.           *)
EntriesAlive ==
  \A t \in Threads : InCache(call[t]) =>
    /\ Live(call[t].slot, call[t].key)
    /\ Pos(call[t].generation) \in DOMAIN m_borrowCount

(* An entry is locked by the one thread that computes it, or was abandoned. *)
OneComputes ==
  \A i \in DOMAIN m_cache : \A k \in DOMAIN m_cache[i] :
    LET slot == m_purgedGenerations + i - 1
        holders == {t \in Threads : /\ call[t].pc = "computing"
                                    /\ call[t].slot = slot /\ call[t].key = k}
    IN  Cardinality(holders) + Cardinality(abandoned \cap {<<slot, k>>})
          = IF m_cache[i][k].locked THEN 1 ELSE 0

(* A call ends with a result for its key that was computed after the last  *)
(* clear() before the call, never with an empty or an outdated one.        *)
ResultCurrent ==
  \A t \in Threads : call[t].pc = "returning" =>
    call[t].result.of = call[t].key /\ call[t].result.since >= call[t].since

(* A cleared generation is kept only for as long as it, or an older one,   *)
(* is borrowed from: clear() does not leak results.                        *)
OldGenerationsPurged == Len(m_borrowCount) > 1 => m_borrowCount[1] > 0

(* A thread that waits for the result of another one gets it, unless the   *)
(* one it waits for has returned without storing it.                       *)
ServedUnlessAbandoned ==
  \A t \in Threads : call[t].pc = "reading" ~>
    call[t].pc # "reading" \/ <<call[t].slot, call[t].key>> \in abandoned
=============================================================================
