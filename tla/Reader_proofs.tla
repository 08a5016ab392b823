---------------------------- MODULE Reader_proofs ----------------------------
(***************************************************************************)
(* The objects of a port are added in the order of the units that are read *)
(* (AddedInOrder), by one thread at a time (AddsAlone), and prepare waits  *)
(* for every read and reports failures (FinishComplete): for any number of *)
(* ports, timesteps, partitions, ranks and concurrent readers.             *)
(*                                                                         *)
(* The argument: the tokens the main thread has to wait for are the last   *)
(* ones of the chain, without gaps (ChainRight), and only they are being   *)
(* read (OnlyChainReads).  A token that may add to a port, or lets its     *)
(* successor add, finds that no token before it will (Ordered).            *)
(* That there are no more tokens than units, and no more units at a time   *)
(* than allowed (TypeCorrect), is counted by where the main thread is      *)
(* (WithinBudget).                                                         *)
(***************************************************************************)
EXTENDS Reader, SequenceTheorems, FiniteSetTheorems, TLAPS

Places == {"prepare", "timestep", "partition", "serial", "launch", "cancel", "end",
           "afterStatic", "last", "finishRead", "done"}
Activities == {"none", "reading", "wait", "lock", "adding", "returned"}

Tokens ==
  [step : Int, block : Int, previous : Nat, thread : Activities, port : Ports \cup {"none"},
   todo : SUBSET Ports, waited : BOOLEAN, ok : BOOLEAN, finished : BOOLEAN, result : BOOLEAN,
   ports : [Ports -> {"none", "asked", "ready"}]]

Typed ==
  /\ setup \in [mode : Modes, handling : Handlings, distribute : Distribute, style : Styles, rank : Ranks]
  /\ main \in [pc : Places, step : Nat \cup {-1}, block : Int, result : BOOLEAN]
  /\ m_tokens \in Seq(Nat) /\ prev \in Nat
  /\ tokens \in Seq(Tokens)
  /\ error \in BOOLEAN
  /\ added \in [Ports -> Nat]

(* What can be said of a token, the n-th one, by itself.                   *)
TokenRight(tok, n) ==
  /\ tok.previous \in {0, n - 1}
  /\ tok.finished => tok.thread = "returned"
  /\ tok.thread = "returned" => tok.todo = {}
  /\ tok.thread \in {"wait", "lock", "adding"} => tok.port \in tok.todo
  /\ tok.thread = "wait" => tok.previous # 0
  /\ tok.thread \in {"wait", "lock"} => setup.style = "Token"
  /\ tok.waited => setup.style = "Wait"
  /\ tok.thread = "adding" /\ setup.style = "Wait" => tok.waited
  /\ tok.thread = "none" => ~tok.waited
  /\ \A p \in Ports : tok.ports[p] = "ready" => tok.finished \/ p \notin tok.todo

TokensRight == \A t \in DOMAIN tokens : TokenRight(tokens[t], t)

(* A token waits for its predecessor, and if it has none, nobody reads.    *)
PredecessorsRight ==
  \A t \in DOMAIN tokens :
    /\ tokens[t].waited /\ tokens[t].previous # 0 => tokens[tokens[t].previous].finished
    /\ tokens[t].previous = 0 => \A u \in 1..t - 1 : ~Reading(u)

InChain(t) == prev - Len(m_tokens) < t /\ t <= prev

ChainRight ==
  /\ Len(m_tokens) <= prev
  /\ \A i \in 1..Len(m_tokens) : m_tokens[i] = prev - Len(m_tokens) + i
  /\ \/ prev = 0
     \/ prev = Len(tokens)
     \/ prev = Len(tokens) - 1 /\ (main.pc = "launch" \/ (main.pc = "end" /\ ~main.result /\ ~Serial))
  /\ main.pc = "launch" =>
       /\ Len(tokens) > 0 /\ tokens[Len(tokens)].thread = "none" /\ ~Serial
       /\ prev \in {0, Len(tokens) - 1}
  /\ main.pc = "serial" => Len(tokens) > 0
  /\ Serial => m_tokens = <<>> /\ prev = 0
  /\ main.pc \in {"prepare", "finishRead", "done"} => m_tokens = <<>>
  /\ main.pc = "timestep" /\ main.step = -1 => m_tokens = <<>>

OnlyChainReads ==
  \A t \in DOMAIN tokens : Reading(t) => InChain(t) \/ (main.pc = "serial" /\ t = Len(tokens))

(* Whoever is at fault when a read fails, it is noticed.                   *)
FailuresRight ==
  /\ \A t \in DOMAIN tokens :
       Returned(t) /\ ~tokens[t].ok =>
         InChain(t) \/ (main.pc = "serial" /\ t = Len(tokens)) \/ ~main.result \/ error
  /\ main.pc \in {"prepare", "timestep", "partition", "serial", "cancel"} => main.result
  /\ main.pc = "afterStatic" /\ setup.mode # "AfterStatic" => main.result
  /\ main.pc \in {"finishRead", "done"} => main.result \/ error

(* Token t has added to p, may add to it, or lets its successor do so.     *)
Passed(t, p) ==
  \/ tokens[t].finished \/ tokens[t].ports[p] = "ready" \/ added[p] = t
  \/ tokens[t].thread \in {"lock", "adding"} /\ tokens[t].port = p
Cleared(t, p) == tokens[t].thread = "none" \/ p \notin tokens[t].todo

Ordered ==
  NoneSkipped =>
    \A u \in DOMAIN tokens : \A p \in Ports : Passed(u, p) => \A t \in 1..u - 1 : Cleared(t, p)

(* In the style of ReadCovise, the mutex plays no part.                    *)
MutexRight ==
  setup.style = "Token" => \A t, u \in Adding : t = u

IInv ==
  /\ Typed /\ TokensRight /\ PredecessorsRight /\ ChainRight /\ OnlyChainReads
  /\ FailuresRight /\ Ordered /\ MutexRight
  /\ \A p \in Ports : added[p] <= Len(tokens)
-----------------------------------------------------------------------------
(* One token of a sequence changes.                                        *)
LEMMA TokenChanged ==
  ASSUME NEW toks \in Seq(Tokens), NEW t \in DOMAIN toks, NEW tok \in Tokens,
         NEW after, after = [toks EXCEPT ![t] = tok]
  PROVE  /\ after \in Seq(Tokens) /\ Len(after) = Len(toks) /\ DOMAIN after = DOMAIN toks
         /\ after[t] = tok
         /\ \A u \in DOMAIN toks : u # t => after[u] = toks[u]
<1>1. DOMAIN toks = 1..Len(toks) /\ t \in 1..Len(toks)
  BY LenProperties
<1>2. /\ after \in Seq(Tokens) /\ Len(after) = Len(toks)
      /\ \A u \in 1..Len(toks) : after[u] = IF u = t THEN tok ELSE toks[u]
  BY <1>1, ExceptSeq
<1>3. DOMAIN after = 1..Len(after)
  BY <1>2, LenProperties
<1> QED
  BY <1>1, <1>2, <1>3

LEMMA TokenFields ==
  ASSUME Typed, NEW t \in DOMAIN tokens
  PROVE  /\ DOMAIN tokens = 1..Len(tokens) /\ Len(tokens) \in Nat /\ t \in 1..Len(tokens)
         /\ tokens[t] \in Tokens
<1>1. tokens \in Seq(Tokens)
  BY DEF Typed
<1>2. DOMAIN tokens = 1..Len(tokens) /\ Len(tokens) \in Nat
  BY <1>1, LenProperties
<1> QED
  BY <1>1, <1>2, ElementOfSeq

(* What a token may add to a port, or let its successor add, when its      *)
(* predecessor lets it.                                                    *)
LEMMA AllCleared ==
  ASSUME IInv, NoneSkipped, NEW u \in DOMAIN tokens, NEW p \in Ports,
         \/ tokens[u].previous = 0
         \/ tokens[tokens[u].previous].finished
         \/ tokens[tokens[u].previous].ports[p] = "ready"
  PROVE  \A t \in 1..u - 1 : Cleared(t, p)
<1>1. /\ DOMAIN tokens = 1..Len(tokens) /\ Len(tokens) \in Nat /\ u \in 1..Len(tokens)
      /\ \A t \in DOMAIN tokens : tokens[t] \in Tokens /\ TokenRight(tokens[t], t)
  BY TokenFields DEF IInv, TokensRight
<1>2. CASE tokens[u].previous = 0
  <2> SUFFICES ASSUME NEW t \in 1..u - 1
               PROVE  Cleared(t, p)
    OBVIOUS
  <2>1. t \in DOMAIN tokens /\ ~Reading(t)
    BY <1>1, <1>2 DEF IInv, PredecessorsRight
  <2>2. TokenRight(tokens[t], t)
    BY <1>1, <2>1
  <2> QED
    BY <2>1, <2>2 DEF Reading, TokenRight, Cleared
<1>3. CASE tokens[u].previous # 0
  <2> DEFINE q == tokens[u].previous
  <2>1. q = u - 1 /\ q \in DOMAIN tokens /\ TokenRight(tokens[q], q)
    <3>1. q \in {0, u - 1}
      BY <1>1 DEF TokenRight
    <3> QED
      BY <3>1, <1>1, <1>3
  <2>2. Passed(q, p)
    BY <1>3 DEF Passed
  <2>3. \A t \in 1..q - 1 : Cleared(t, p)
    BY <2>1, <2>2 DEF IInv, Ordered
  <2>4. Cleared(q, p)
    BY <1>3, <2>1 DEF TokenRight, Cleared
  <2> QED
    BY <2>1, <2>3, <2>4, <1>1
<1> QED
  BY <1>2, <1>3
-----------------------------------------------------------------------------
(* What no step undoes.                                                    *)
Develops(a, b) ==
  /\ b.previous = a.previous
  /\ b.thread = "none" <=> a.thread = "none"
  /\ a.thread = "returned" => b.thread = "returned" /\ b.ok = a.ok /\ b.waited = a.waited
  /\ b.todo \subseteq a.todo
  /\ a.finished => b.finished
  /\ a.waited => b.waited

LEMMA Developed ==
  ASSUME IInv, tokens' \in Seq(Tokens), Len(tokens') = Len(tokens), UNCHANGED setup,
         \A t \in DOMAIN tokens : Develops(tokens[t], tokens'[t]),
         \A t \in DOMAIN tokens : tokens'[t].waited =>
           tokens[t].waited \/ tokens[t].previous = 0 \/ tokens'[tokens[t].previous].finished
  PROVE  /\ DOMAIN tokens' = DOMAIN tokens
         /\ PredecessorsRight'
         /\ NoneSkipped' => NoneSkipped
         /\ \A t \in DOMAIN tokens : Reading(t)' => Reading(t)
         /\ \A t \in DOMAIN tokens : \A p \in Ports : Cleared(t, p) => Cleared(t, p)'
<1>1. /\ DOMAIN tokens = 1..Len(tokens) /\ Len(tokens) \in Nat
      /\ \A t \in DOMAIN tokens : TokenRight(tokens[t], t)
  BY LenProperties DEF IInv, TokensRight, Typed
<1>2. DOMAIN tokens' = DOMAIN tokens
  BY <1>1, LenProperties
<1>3. \A t \in DOMAIN tokens : Reading(t)' => Reading(t)
  BY DEF Reading, Develops
<1>4. \A t \in DOMAIN tokens : \A p \in Ports : Cleared(t, p) => Cleared(t, p)'
  BY DEF Cleared, Develops
<1>5. NoneSkipped' => NoneSkipped
  BY <1>2 DEF NoneSkipped, Returned, Develops
<1>6. PredecessorsRight'
  <2> SUFFICES ASSUME NEW t \in DOMAIN tokens
               PROVE  /\ tokens'[t].waited /\ tokens'[t].previous # 0 => tokens'[tokens'[t].previous].finished
                      /\ tokens'[t].previous = 0 => \A u \in 1..t - 1 : ~Reading(u)'
    BY <1>2 DEF PredecessorsRight
  <2>1. /\ tokens'[t].previous = tokens[t].previous
        /\ tokens[t].previous \in {0, t - 1}
        /\ t \in 1..Len(tokens)
    BY <1>1 DEF Develops, TokenRight
  <2>2. ASSUME tokens'[t].waited, tokens[t].previous # 0
        PROVE  tokens'[tokens[t].previous].finished
    <3>1. tokens[t].previous \in DOMAIN tokens
      BY <1>1, <2>1, <2>2
    <3>2. CASE tokens[t].waited
      <4>1. tokens[tokens[t].previous].finished
        BY <2>2, <3>2 DEF IInv, PredecessorsRight
      <4> QED
        BY <3>1, <4>1 DEF Develops
    <3> QED
      BY <2>2, <3>2
  <2>3. ASSUME tokens[t].previous = 0, NEW u \in 1..t - 1
        PROVE  ~Reading(u)'
    <3>1. u \in DOMAIN tokens /\ ~Reading(u)
      BY <1>1, <2>1, <2>3 DEF IInv, PredecessorsRight
    <3> QED
      BY <3>1, <1>3
  <2> QED
    BY <2>1, <2>2, <2>3
<1> QED
  BY <1>2, <1>3, <1>4, <1>5, <1>6

LEMMA OrderedStep ==
  ASSUME IInv, tokens' \in Seq(Tokens), DOMAIN tokens' = DOMAIN tokens,
         NoneSkipped' => NoneSkipped,
         \A t \in DOMAIN tokens : \A p \in Ports : Cleared(t, p) => Cleared(t, p)',
         \A u \in DOMAIN tokens : \A p \in Ports :
           NoneSkipped /\ Passed(u, p)' => Passed(u, p) \/ \A t \in 1..u - 1 : Cleared(t, p)
  PROVE  Ordered'
<1> SUFFICES ASSUME NoneSkipped', NEW u \in DOMAIN tokens, NEW p \in Ports, Passed(u, p)',
                    NEW t \in 1..u - 1
             PROVE  Cleared(t, p)'
  BY DEF Ordered
<1>1. t \in DOMAIN tokens
  BY TokenFields DEF IInv
<1>2. Cleared(t, p)
  BY DEF IInv, Ordered
<1> QED
  BY <1>1, <1>2

(* A step of a thread leaves the main thread's variables alone.            *)
LEMMA ThreadStep ==
  ASSUME IInv, tokens' \in Seq(Tokens), DOMAIN tokens' = DOMAIN tokens, Len(tokens') = Len(tokens),
         UNCHANGED <<setup, main, m_tokens, prev, error>>,
         \A t \in DOMAIN tokens : Develops(tokens[t], tokens'[t]),
         PredecessorsRight', TokensRight', Ordered', MutexRight',
         added' \in [Ports -> Nat], \A p \in Ports : added'[p] <= Len(tokens)
  PROVE  IInv'
<1>1. /\ DOMAIN tokens = 1..Len(tokens) /\ Len(tokens) \in Nat
  BY LenProperties DEF IInv, Typed
<1>2. Typed'
  BY DEF IInv, Typed
<1>3. \A t \in DOMAIN tokens : InChain(t)' <=> InChain(t)
  BY DEF InChain
<1>4. \A t \in DOMAIN tokens : Reading(t)' => Reading(t)
  BY DEF Reading, Develops
<1>5. OnlyChainReads'
  BY <1>3, <1>4 DEF IInv, OnlyChainReads
<1>6. FailuresRight'
  <2>1. \A t \in DOMAIN tokens : Returned(t)' /\ ~tokens'[t].ok =>
          (Returned(t) /\ ~tokens[t].ok) \/ Reading(t)
    BY DEF Returned, Reading, Develops
  <2> QED
    BY <2>1, <1>3 DEF IInv, FailuresRight, OnlyChainReads
<1>7. Serial' <=> Serial
  BY DEF Serial
<1>8. main.pc = "launch" => Len(tokens) \in DOMAIN tokens
  BY <1>1 DEF IInv, ChainRight
<1>9. ChainRight'
  BY <1>7, <1>8 DEF IInv, ChainRight, Develops
<1> QED
  BY <1>2, <1>5, <1>6, <1>9 DEF IInv
-----------------------------------------------------------------------------
(* The step of thread t changes only its own token, to tok.                *)
LEMMA OwnTokenStep ==
  ASSUME IInv, NEW t \in DOMAIN tokens, NEW tok \in Tokens,
         tokens' = [tokens EXCEPT ![t] = tok],
         UNCHANGED <<setup, main, m_tokens, prev, error>>,
         Develops(tokens[t], tok), tok.waited = tokens[t].waited, TokenRight(tok, t),
         MutexRight', added' \in [Ports -> Nat], \A p \in Ports : added'[p] <= Len(tokens),
         \A u \in DOMAIN tokens : \A p \in Ports :
           added'[p] = u => added[p] = u \/ u = t,
         \A p \in Ports :
           NoneSkipped /\ Passed(t, p)' => Passed(t, p) \/ \A u \in 1..t - 1 : Cleared(u, p)
  PROVE  IInv'
<1>1. /\ tokens' \in Seq(Tokens) /\ Len(tokens') = Len(tokens) /\ DOMAIN tokens' = DOMAIN tokens
      /\ tokens'[t] = tok
      /\ \A u \in DOMAIN tokens : u # t => tokens'[u] = tokens[u]
  BY TokenChanged DEF IInv, Typed
<1>2. \A u \in DOMAIN tokens : Develops(tokens[u], tokens'[u])
  BY <1>1 DEF Develops
<1>3. \A u \in DOMAIN tokens : tokens'[u].waited => tokens[u].waited
  BY <1>1
<1>4. /\ PredecessorsRight' /\ (NoneSkipped' => NoneSkipped)
      /\ \A u \in DOMAIN tokens : \A p \in Ports : Cleared(u, p) => Cleared(u, p)'
  BY <1>1, <1>2, <1>3, Developed
<1>5. TokensRight'
  BY <1>1 DEF IInv, TokensRight, TokenRight
<1>6. \A u \in DOMAIN tokens : \A p \in Ports :
        NoneSkipped /\ Passed(u, p)' => Passed(u, p) \/ \A v \in 1..u - 1 : Cleared(v, p)
  <2> SUFFICES ASSUME NEW u \in DOMAIN tokens, NEW p \in Ports, NoneSkipped, Passed(u, p)', u # t
               PROVE  Passed(u, p)
    OBVIOUS
  <2> QED
    BY <1>1 DEF Passed
<1>7. Ordered'
  BY <1>1, <1>4, <1>6, OrderedStep
<1> QED
  BY <1>1, <1>2, <1>4, <1>5, <1>7, ThreadStep

(* The mutex is taken by no step but those to "adding".                    *)
LEMMA MutexKept ==
  ASSUME MutexRight, DOMAIN tokens' = DOMAIN tokens, UNCHANGED setup,
         \A u \in DOMAIN tokens : tokens'[u].thread = "adding" => tokens[u].thread = "adding"
  PROVE  MutexRight'
BY DEF MutexRight, Adding

LEMMA PortReadyIInv == \A t \in DOMAIN tokens : IInv /\ PortReady(t) => IInv'
<1> SUFFICES ASSUME NEW t \in DOMAIN tokens, IInv, PortReady(t)
             PROVE  IInv'
  OBVIOUS
<1> DEFINE tok == [tokens[t] EXCEPT !.thread = "lock"]
<1>1. tokens[t] \in Tokens /\ TokenRight(tokens[t], t)
  BY TokenFields DEF IInv, TokensRight
<1>2. /\ tokens[t].thread = "wait" /\ tokens' = [tokens EXCEPT ![t] = tok]
      /\ tokens[tokens[t].previous].ports[tokens[t].port] = "ready"
      /\ UNCHANGED <<setup, main, m_tokens, prev, error, added>>
  BY DEF PortReady
<1>3. /\ tok \in Tokens /\ tok.thread = "lock" /\ tok.port = tokens[t].port /\ tok.ports = tokens[t].ports
      /\ tok.finished = tokens[t].finished /\ tok.waited = tokens[t].waited
      /\ tok.todo = tokens[t].todo /\ tok.previous = tokens[t].previous
  BY <1>1 DEF Tokens, Activities
<1> HIDE DEF tok
<1>4. Develops(tokens[t], tok) /\ TokenRight(tok, t)
  BY <1>1, <1>2, <1>3 DEF Develops, TokenRight
<1>5. /\ DOMAIN tokens' = DOMAIN tokens /\ tokens'[t] = tok
      /\ \A u \in DOMAIN tokens : u # t => tokens'[u] = tokens[u]
  BY <1>2, <1>3, TokenChanged DEF IInv, Typed
<1>6. MutexRight'
  BY <1>2, <1>3, <1>5, MutexKept DEF IInv
<1>7. ASSUME NEW p \in Ports, NoneSkipped, Passed(t, p)', ~Passed(t, p)
      PROVE  \A u \in 1..t - 1 : Cleared(u, p)
  <2>1. p = tokens[t].port
    BY <1>2, <1>3, <1>5, <1>7 DEF Passed
  <2> QED
    BY <2>1, <1>2, <1>7, AllCleared
<1>8. /\ added' \in [Ports -> Nat] /\ \A p \in Ports : added'[p] <= Len(tokens)
      /\ \A u \in DOMAIN tokens : \A p \in Ports : added'[p] = u => added[p] = u
  BY <1>2 DEF IInv, Typed
<1>9. \A p \in Ports : NoneSkipped /\ Passed(t, p)' => Passed(t, p) \/ \A u \in 1..t - 1 : Cleared(u, p)
  BY <1>7
<1> QED
  BY <1>2, <1>3, <1>4, <1>6, <1>8, <1>9, OwnTokenStep

LEMMA AddsIInv ==
  ASSUME IInv, NEW t \in DOMAIN tokens, NEW p \in Ports, Adds(t, p), p \in tokens[t].todo,
         \/ tokens[t].thread = "lock" /\ tokens[t].port = p /\ MutexFree
         \/ tokens[t].thread = "reading" /\ tokens[t].waited
  PROVE  /\ IInv'
         /\ NoneSkipped => added'[p] >= added[p]
         /\ \A q \in Ports : q # p => added'[q] = added[q]
<1> DEFINE tok == [tokens[t] EXCEPT !.port = p, !.thread = "adding"]
<1>1. /\ tokens[t] \in Tokens /\ TokenRight(tokens[t], t) /\ t \in 1..Len(tokens)
      /\ DOMAIN tokens = 1..Len(tokens) /\ Len(tokens) \in Nat
  BY TokenFields DEF IInv, TokensRight
<1>2. /\ tokens' = [tokens EXCEPT ![t] = tok] /\ added' = [added EXCEPT ![p] = t]
      /\ UNCHANGED <<setup, main, m_tokens, prev, error>>
  BY DEF Adds
<1>3. /\ tok \in Tokens /\ tok.thread = "adding" /\ tok.port = p /\ tok.ports = tokens[t].ports
      /\ tok.finished = tokens[t].finished /\ tok.waited = tokens[t].waited
      /\ tok.todo = tokens[t].todo /\ tok.previous = tokens[t].previous
  BY <1>1 DEF Tokens, Activities
<1> HIDE DEF tok
<1>4. Develops(tokens[t], tok) /\ TokenRight(tok, t)
  BY <1>1, <1>3 DEF Develops, TokenRight
<1>5. /\ DOMAIN tokens' = DOMAIN tokens /\ tokens'[t] = tok
      /\ \A u \in DOMAIN tokens : u # t => tokens'[u] = tokens[u]
  BY <1>2, <1>3, TokenChanged DEF IInv, Typed
<1>6. /\ added \in [Ports -> Nat] /\ added' \in [Ports -> Nat] /\ added'[p] = t
      /\ \A q \in Ports : q # p => added'[q] = added[q]
      /\ \A q \in Ports : added'[q] <= Len(tokens)
  BY <1>1, <1>2 DEF IInv, Typed
<1>7. MutexRight'
  <2> SUFFICES ASSUME setup.style = "Token" PROVE \A u, v \in Adding' : u = v
    BY <1>2 DEF MutexRight
  <2>1. MutexFree
    BY <1>1 DEF TokenRight
  <2> QED
    BY <2>1, <1>5 DEF MutexFree, Adding
<1>8. NoneSkipped => Passed(t, p) \/ \A u \in 1..t - 1 : Cleared(u, p)
  <2> SUFFICES ASSUME NoneSkipped, tokens[t].thread = "reading", tokens[t].waited
               PROVE  \A u \in 1..t - 1 : Cleared(u, p)
    BY DEF Passed
  <2>1. tokens[t].previous = 0 \/ tokens[tokens[t].previous].finished
    BY DEF IInv, PredecessorsRight
  <2> QED
    BY <2>1, AllCleared
<1>9. \A q \in Ports : Passed(t, q)' => Passed(t, q) \/ q = p
  BY <1>3, <1>5, <1>6 DEF Passed
<1>10. IInv'
  <2>1. \A u \in DOMAIN tokens : \A q \in Ports : added'[q] = u => added[q] = u \/ u = t
    BY <1>6
  <2>2. \A q \in Ports :
          NoneSkipped /\ Passed(t, q)' => Passed(t, q) \/ \A u \in 1..t - 1 : Cleared(u, q)
    BY <1>8, <1>9
  <2>3. tokens' = [tokens EXCEPT ![t] = tok] /\ UNCHANGED <<setup, main, m_tokens, prev, error>>
    BY <1>2
  <2>4. tok \in Tokens /\ tok.waited = tokens[t].waited
    BY <1>3
  <2>5. added' \in [Ports -> Nat] /\ \A q \in Ports : added'[q] <= Len(tokens)
    BY <1>6
  <2> QED
    BY <2>1, <2>2, <2>3, <2>4, <2>5, <1>4, <1>7, OwnTokenStep
<1>11. ASSUME NoneSkipped PROVE added'[p] >= added[p]
  <2> SUFFICES ASSUME added[p] > t PROVE FALSE
    BY <1>1, <1>6
  <2>1. added[p] \in DOMAIN tokens /\ Passed(added[p], p) /\ t \in 1..added[p] - 1
    BY <1>1, <1>6 DEF IInv, Passed
  <2>2. Cleared(t, p)
    BY <2>1, <1>11 DEF IInv, Ordered
  <2> QED
    BY <2>2 DEF Cleared
<1> QED
  BY <1>6, <1>10, <1>11

LEMMA LockIInv == \A t \in DOMAIN tokens : IInv /\ Lock(t) =>
  IInv' /\ (NoneSkipped => \A p \in Ports : added'[p] >= added[p])
<1> SUFFICES ASSUME NEW t \in DOMAIN tokens, IInv, Lock(t)
             PROVE  IInv' /\ (NoneSkipped => \A p \in Ports : added'[p] >= added[p])
  OBVIOUS
<1>1. tokens[t].thread = "lock" /\ MutexFree /\ Adds(t, tokens[t].port)
  BY DEF Lock
<1>2. tokens[t] \in Tokens /\ TokenRight(tokens[t], t)
  BY TokenFields DEF IInv, TokensRight
<1>3. tokens[t].port \in tokens[t].todo /\ tokens[t].port \in Ports
  BY <1>1, <1>2 DEF TokenRight, Tokens
<1>4. \A p \in Ports : added[p] >= added[p]
  BY DEF IInv, Typed
<1> QED
  BY <1>1, <1>3, <1>4, AddsIInv

LEMMA AddDirectlyIInv == \A t \in DOMAIN tokens, p \in Ports : IInv /\ AddDirectly(t, p) =>
  IInv' /\ (NoneSkipped => \A q \in Ports : added'[q] >= added[q])
<1> SUFFICES ASSUME NEW t \in DOMAIN tokens, NEW p \in Ports, IInv, AddDirectly(t, p)
             PROVE  IInv' /\ (NoneSkipped => \A q \in Ports : added'[q] >= added[q])
  OBVIOUS
<1>1. tokens[t].thread = "reading" /\ tokens[t].waited /\ p \in tokens[t].todo /\ Adds(t, p)
  BY DEF AddDirectly
<1>2. \A q \in Ports : added[q] >= added[q]
  BY DEF IInv, Typed
<1> QED
  BY <1>1, <1>2, AddsIInv

LEMMA AddedIInv == \A t \in DOMAIN tokens : IInv /\ Added(t) => IInv'
<1> SUFFICES ASSUME NEW t \in DOMAIN tokens, IInv, Added(t)
             PROVE  IInv'
  OBVIOUS
<1> DEFINE p == tokens[t].port
           done == [tokens[t] EXCEPT !.thread = "reading", !.port = "none", !.todo = @ \ {p}]
           marked == [done EXCEPT !.ports = [tokens[t].ports EXCEPT ![p] = "ready"]]
           tok == IF setup.style = "Token" THEN marked ELSE done
<1>1. tokens[t] \in Tokens /\ TokenRight(tokens[t], t) /\ tokens[t].thread = "adding"
  BY TokenFields DEF IInv, TokensRight, Added
<1>2. p \in Ports /\ p \in tokens[t].todo
  BY <1>1 DEF TokenRight, Tokens
<1>3. UNCHANGED <<setup, main, m_tokens, prev, error, added>>
  BY DEF Added
<1>4. tokens' = [tokens EXCEPT ![t] = tok]
  <2> DEFINE plain == [tokens EXCEPT ![t].thread = "reading", ![t].port = "none", ![t].todo = @ \ {p}]
  <2>1. plain = [tokens EXCEPT ![t] = done]
    OBVIOUS
  <2>2. [plain EXCEPT ![t].ports[p] = "ready"] = [tokens EXCEPT ![t] = marked]
    BY <1>1 DEF Tokens
  <2>3. tokens' = IF setup.style = "Token" THEN [plain EXCEPT ![t].ports[p] = "ready"] ELSE plain
    BY DEF Added
  <2> QED
    BY <2>1, <2>2, <2>3
<1>5. /\ tok \in Tokens /\ tok.thread = "reading" /\ tok.todo = tokens[t].todo \ {p}
      /\ tok.finished = tokens[t].finished /\ tok.waited = tokens[t].waited
      /\ tok.previous = tokens[t].previous
      /\ \A q \in Ports : q # p => tok.ports[q] = tokens[t].ports[q]
  BY <1>1, <1>2 DEF Tokens, Activities
<1> HIDE DEF tok
<1>6. Develops(tokens[t], tok) /\ TokenRight(tok, t)
  BY <1>1, <1>2, <1>5 DEF Develops, TokenRight
<1>7. /\ DOMAIN tokens' = DOMAIN tokens /\ tokens'[t] = tok
      /\ \A u \in DOMAIN tokens : u # t => tokens'[u] = tokens[u]
  BY <1>4, <1>5, TokenChanged DEF IInv, Typed
<1>8. MutexRight'
  BY <1>3, <1>5, <1>7, MutexKept DEF IInv
<1>9. Passed(t, p)
  BY <1>1 DEF Passed
<1>10. \A q \in Ports : Passed(t, q)' => Passed(t, q) \/ q = p
  BY <1>3, <1>5, <1>7 DEF Passed
<1>11. /\ added' \in [Ports -> Nat] /\ \A q \in Ports : added'[q] <= Len(tokens)
       /\ \A u \in DOMAIN tokens : \A q \in Ports : added'[q] = u => added[q] = u
  BY <1>3 DEF IInv, Typed
<1> HIDE DEF p
<1>12. \A q \in Ports : Passed(t, q)' => Passed(t, q)
  BY <1>9, <1>10
<1> QED
  BY <1>3, <1>4, <1>5, <1>6, <1>8, <1>11, <1>12, OwnTokenStep

LEMMA ReadReturnsIInv == \A t \in DOMAIN tokens : IInv /\ ReadReturns(t) => IInv'
<1> SUFFICES ASSUME NEW t \in DOMAIN tokens, IInv, ReadReturns(t)
             PROVE  IInv'
  OBVIOUS
<1>1. PICK ok \in {TRUE, ~Failures} :
        tokens' = [tokens EXCEPT ![t].thread = "returned", ![t].todo = {}, ![t].ok = ok]
  BY DEF ReadReturns
<1> DEFINE tok == [tokens[t] EXCEPT !.thread = "returned", !.todo = {}, !.ok = ok]
<1>2. /\ tokens[t] \in Tokens /\ TokenRight(tokens[t], t) /\ tokens[t].thread = "reading"
      /\ tokens' = [tokens EXCEPT ![t] = tok]
      /\ UNCHANGED <<setup, main, m_tokens, prev, error, added>>
  BY <1>1, TokenFields DEF IInv, TokensRight, ReadReturns
<1>3. /\ tok \in Tokens /\ tok.thread = "returned" /\ tok.todo = {} /\ tok.ports = tokens[t].ports
      /\ tok.finished = tokens[t].finished /\ tok.waited = tokens[t].waited
      /\ tok.previous = tokens[t].previous
  BY <1>2, ReaderAssumption DEF Tokens, Activities
<1> HIDE DEF tok
<1>4. Develops(tokens[t], tok) /\ TokenRight(tok, t)
  BY <1>2, <1>3 DEF Develops, TokenRight
<1>5. /\ DOMAIN tokens' = DOMAIN tokens /\ tokens'[t] = tok
      /\ \A u \in DOMAIN tokens : u # t => tokens'[u] = tokens[u]
  BY <1>2, <1>3, TokenChanged DEF IInv, Typed
<1>6. MutexRight'
  BY <1>2, <1>3, <1>5, MutexKept DEF IInv
<1>7. \A q \in Ports : Passed(t, q)' => Passed(t, q)
  BY <1>2, <1>3, <1>5 DEF Passed
<1>8. /\ added' \in [Ports -> Nat] /\ \A q \in Ports : added'[q] <= Len(tokens)
      /\ \A u \in DOMAIN tokens : \A q \in Ports : added'[q] = u => added[q] = u
  BY <1>2 DEF IInv, Typed
<1> QED
  BY <1>2, <1>3, <1>4, <1>6, <1>7, <1>8, OwnTokenStep

LEMMA AddToPortIInv == \A t \in DOMAIN tokens, p \in Ports : IInv /\ AddToPort(t, p) => IInv'
<1> SUFFICES ASSUME NEW t \in DOMAIN tokens, NEW p \in Ports, IInv, AddToPort(t, p)
             PROVE  IInv'
  OBVIOUS
<1> DEFINE q == tokens[t].previous
<1>1. /\ DOMAIN tokens = 1..Len(tokens) /\ Len(tokens) \in Nat /\ t \in 1..Len(tokens)
      /\ tokens[t] \in Tokens /\ TokenRight(tokens[t], t) /\ tokens \in Seq(Tokens)
  BY TokenFields DEF IInv, TokensRight, Typed
<1>2. /\ tokens[t].thread = "reading" /\ setup.style = "Token" /\ p \in tokens[t].todo
      /\ UNCHANGED <<setup, main, m_tokens, prev, error, added>>
  BY DEF AddToPort
<1>3. /\ added' \in [Ports -> Nat] /\ \A r \in Ports : added'[r] <= Len(tokens)
      /\ \A u \in DOMAIN tokens : \A r \in Ports : added'[r] = u => added[r] = u
  BY <1>2 DEF IInv, Typed
<1>4. CASE PortOpen(q, p)
  <2> DEFINE tok == [tokens[t] EXCEPT !.port = p, !.thread = "lock"]
  <2>1. tokens' = [tokens EXCEPT ![t] = tok]
    BY <1>4 DEF AddToPort
  <2>2. /\ tok \in Tokens /\ tok.thread = "lock" /\ tok.port = p /\ tok.ports = tokens[t].ports
        /\ tok.finished = tokens[t].finished /\ tok.waited = tokens[t].waited
        /\ tok.todo = tokens[t].todo /\ tok.previous = tokens[t].previous
    BY <1>1 DEF Tokens, Activities
  <2> HIDE DEF tok
  <2>3. Develops(tokens[t], tok) /\ TokenRight(tok, t)
    BY <1>1, <1>2, <2>2 DEF Develops, TokenRight
  <2>4. /\ DOMAIN tokens' = DOMAIN tokens /\ tokens'[t] = tok
        /\ \A u \in DOMAIN tokens : u # t => tokens'[u] = tokens[u]
    BY <1>1, <2>1, <2>2, TokenChanged
  <2>5. MutexRight'
    BY <1>2, <2>2, <2>4, MutexKept DEF IInv
  <2>6. \A r \in Ports : Passed(t, r)' => Passed(t, r) \/ r = p
    BY <1>2, <2>2, <2>4 DEF Passed
  <2>7. NoneSkipped => \A u \in 1..t - 1 : Cleared(u, p)
    BY <1>4, AllCleared DEF PortOpen
  <2> HIDE DEF q
  <2>8. \A r \in Ports : NoneSkipped /\ Passed(t, r)' => Passed(t, r) \/ \A u \in 1..t - 1 : Cleared(u, r)
    BY <2>6, <2>7
  <2> QED
    BY <1>2, <1>3, <2>1, <2>2, <2>3, <2>5, <2>8, OwnTokenStep
<1>5. CASE ~PortOpen(q, p)
  <2> DEFINE tok == [tokens[t] EXCEPT !.port = p, !.thread = "wait"]
             toks == [tokens EXCEPT ![t] = tok]
             asked == [tokens[q] EXCEPT !.ports = [tokens[q].ports EXCEPT ![p] = "asked"]]
  <2>1. q # 0 /\ q = t - 1 /\ q \in DOMAIN tokens /\ q # t
    BY <1>1, <1>5 DEF PortOpen, TokenRight
  <2>2. tokens[q] \in Tokens /\ TokenRight(tokens[q], q) /\ tokens[q].ports[p] # "ready"
    BY <1>5, <2>1, TokenFields DEF PortOpen, IInv, TokensRight
  <2>3. /\ tok \in Tokens /\ tok.thread = "wait" /\ tok.port = p /\ tok.ports = tokens[t].ports
        /\ tok.finished = tokens[t].finished /\ tok.waited = tokens[t].waited
        /\ tok.todo = tokens[t].todo /\ tok.previous = tokens[t].previous
    BY <1>1 DEF Tokens, Activities
  <2>4. /\ asked \in Tokens /\ asked.thread = tokens[q].thread /\ asked.port = tokens[q].port
        /\ asked.finished = tokens[q].finished /\ asked.waited = tokens[q].waited
        /\ asked.todo = tokens[q].todo /\ asked.previous = tokens[q].previous /\ asked.ok = tokens[q].ok
        /\ asked.ports[p] = "asked" /\ \A r \in Ports : r # p => asked.ports[r] = tokens[q].ports[r]
    BY <2>2 DEF Tokens
  <2>5. /\ toks \in Seq(Tokens) /\ Len(toks) = Len(tokens) /\ DOMAIN toks = DOMAIN tokens /\ toks[t] = tok
        /\ \A u \in DOMAIN tokens : u # t => toks[u] = tokens[u]
    <3> HIDE DEF tok
    <3> QED
      BY <1>1, <2>3, TokenChanged
  <2>6. tokens' = [toks EXCEPT ![q] = asked]
    <3>1. tokens' = [tokens EXCEPT ![t].port = p, ![t].thread = "wait", ![q].ports[p] = "asked"]
      BY <1>5 DEF AddToPort
    <3>2. toks[q] = tokens[q]
      BY <2>1, <2>5
    <3>3. tokens' = [toks EXCEPT ![q].ports[p] = "asked"]
      BY <3>1
    <3> HIDE DEF toks, q
    <3> QED
      BY <3>2, <3>3 DEF q
  <2> HIDE DEF toks, tok, asked
  <2>7. /\ tokens' \in Seq(Tokens) /\ Len(tokens') = Len(tokens) /\ DOMAIN tokens' = DOMAIN tokens
        /\ tokens'[t] = tok /\ tokens'[q] = asked
        /\ \A u \in DOMAIN tokens : u # t /\ u # q => tokens'[u] = tokens[u]
    <3>1. /\ tokens' \in Seq(Tokens) /\ Len(tokens') = Len(toks) /\ DOMAIN tokens' = DOMAIN toks
          /\ tokens'[q] = asked /\ \A u \in DOMAIN toks : u # q => tokens'[u] = toks[u]
      BY <2>1, <2>4, <2>5, <2>6, TokenChanged
    <3> QED
      BY <3>1, <2>1, <2>5
  <2> HIDE DEF q
  <2>8. /\ Develops(tokens[t], tok) /\ TokenRight(tok, t)
        /\ Develops(tokens[q], asked) /\ TokenRight(asked, q)
    <3>1. Develops(tokens[t], tok) /\ TokenRight(tok, t)
      BY <1>1, <1>2, <2>1, <2>3 DEF Develops, TokenRight, q
    <3>2. Develops(tokens[q], asked)
      BY <2>4 DEF Develops
    <3>3. TokenRight(asked, q)
      BY <2>2, <2>4 DEF TokenRight
    <3> QED
      BY <3>1, <3>2, <3>3
  <2>9. \A u \in DOMAIN tokens : Develops(tokens[u], tokens'[u])
    BY <2>7, <2>8 DEF Develops
  <2>10. \A u \in DOMAIN tokens : tokens'[u].waited => tokens[u].waited
    BY <2>3, <2>4, <2>7
  <2>11. /\ PredecessorsRight' /\ (NoneSkipped' => NoneSkipped)
         /\ \A u \in DOMAIN tokens : \A r \in Ports : Cleared(u, r) => Cleared(u, r)'
    BY <1>2, <2>7, <2>9, <2>10, Developed
  <2>12. TokensRight'
    BY <1>2, <2>7, <2>8 DEF IInv, TokensRight, TokenRight
  <2>13. \A u \in DOMAIN tokens : \A r \in Ports : Passed(u, r)' => Passed(u, r)
    <3> SUFFICES ASSUME NEW u \in DOMAIN tokens, NEW r \in Ports, Passed(u, r)'
                 PROVE  Passed(u, r)
      OBVIOUS
    <3>1. CASE u = t
      BY <3>1, <1>2, <2>3, <2>7 DEF Passed
    <3>2. CASE u = q
      BY <3>2, <1>2, <2>4, <2>7 DEF Passed
    <3>3. CASE u # t /\ u # q
      BY <3>3, <1>2, <2>7 DEF Passed
    <3> QED
      BY <3>1, <3>2, <3>3
  <2>14. Ordered'
    BY <2>7, <2>11, <2>13, OrderedStep
  <2>15. MutexRight'
    <3>1. \A u \in DOMAIN tokens : tokens'[u].thread = "adding" => tokens[u].thread = "adding"
      BY <2>3, <2>4, <2>7
    <3> QED
      BY <3>1, <1>2, <2>7, MutexKept DEF IInv
  <2> QED
    BY <1>2, <1>3, <2>7, <2>9, <2>11, <2>12, <2>14, <2>15, ThreadStep
<1> QED
  BY <1>4, <1>5

(* waitDone of a token that has returned.                                  *)
LEMMA FinishFacts ==
  ASSUME IInv, NEW q \in DOMAIN tokens, CanFinish(q)
  PROVE  LET after == Finish(q, tokens) IN
         /\ after \in Seq(Tokens) /\ Len(after) = Len(tokens) /\ DOMAIN after = DOMAIN tokens
         /\ tokens[q].thread = "returned" /\ tokens[q].todo = {}
         /\ Develops(tokens[q], after[q]) /\ TokenRight(after[q], q)
         /\ after[q].finished /\ after[q].thread = "returned" /\ after[q].waited = tokens[q].waited
         /\ after[q].todo = {}
         /\ \A u \in DOMAIN tokens : u # q => after[u] = tokens[u]
<1> DEFINE after == Finish(q, tokens)
           tok == [tokens[q] EXCEPT !.finished = TRUE, !.result = tokens[q].ok, !.ports = PortsDone(tokens[q])]
<1>1. tokens[q] \in Tokens /\ TokenRight(tokens[q], q) /\ tokens \in Seq(Tokens)
  BY TokenFields DEF IInv, TokensRight, Typed
<1>2. tokens[q].thread = "returned" /\ tokens[q].todo = {}
  BY <1>1 DEF CanFinish, Returned, TokenRight
<1>3. after = [tokens EXCEPT ![q] = tok]
  BY DEF Finish
<1>4. PortsDone(tokens[q]) \in [Ports -> {"none", "asked", "ready"}]
  BY DEF PortsDone
<1>5. /\ tok \in Tokens /\ tok.finished /\ tok.thread = "returned" /\ tok.ok = tokens[q].ok
      /\ tok.waited = tokens[q].waited /\ tok.todo = tokens[q].todo /\ tok.previous = tokens[q].previous
  BY <1>1, <1>2, <1>4 DEF Tokens
<1> HIDE DEF tok, after
<1>6. Develops(tokens[q], tok) /\ TokenRight(tok, q)
  BY <1>1, <1>2, <1>5 DEF Develops, TokenRight
<1>7. /\ after \in Seq(Tokens) /\ Len(after) = Len(tokens) /\ DOMAIN after = DOMAIN tokens
      /\ after[q] = tok /\ \A u \in DOMAIN tokens : u # q => after[u] = tokens[u]
  BY <1>1, <1>3, <1>5, TokenChanged
<1> QED
  BY <1>2, <1>5, <1>6, <1>7 DEF after

LEMMA WaitPreviousIInv == \A t \in DOMAIN tokens : IInv /\ WaitPrevious(t) => IInv'
<1> SUFFICES ASSUME NEW t \in DOMAIN tokens, IInv, WaitPrevious(t)
             PROVE  IInv'
  OBVIOUS
<1> DEFINE q == tokens[t].previous
           toks == IF q = 0 THEN tokens ELSE Finish(q, tokens)
           tok == [tokens[t] EXCEPT !.waited = TRUE]
<1>1. /\ DOMAIN tokens = 1..Len(tokens) /\ Len(tokens) \in Nat /\ t \in 1..Len(tokens)
      /\ tokens[t] \in Tokens /\ TokenRight(tokens[t], t) /\ tokens \in Seq(Tokens)
  BY TokenFields DEF IInv, TokensRight, Typed
<1>2. /\ tokens[t].thread = "reading" /\ setup.style = "Wait" /\ ~tokens[t].waited
      /\ q # 0 => CanFinish(q)
      /\ UNCHANGED <<setup, main, m_tokens, prev, error, added>>
  BY DEF WaitPrevious
<1>3. q # 0 => q \in DOMAIN tokens /\ q # t
  BY <1>1 DEF TokenRight
<1>4. /\ toks \in Seq(Tokens) /\ Len(toks) = Len(tokens) /\ DOMAIN toks = DOMAIN tokens
      /\ toks[t] = tokens[t] /\ \A u \in DOMAIN tokens : u # q => toks[u] = tokens[u]
      /\ q # 0 => /\ tokens[q].thread = "returned" /\ toks[q].finished /\ toks[q].thread = "returned"
                  /\ toks[q].waited = tokens[q].waited
                  /\ Develops(tokens[q], toks[q]) /\ TokenRight(toks[q], q)
  <2>1. CASE q = 0
    BY <1>1, <2>1
  <2>2. CASE q # 0
    BY <1>2, <1>3, <2>2, FinishFacts
  <2> QED
    BY <2>1, <2>2
<1>5. tokens' = [toks EXCEPT ![t] = tok]
  <2>1. tokens' = [toks EXCEPT ![t].waited = TRUE]
    BY DEF WaitPrevious
  <2> HIDE DEF toks
  <2> QED
    BY <1>4, <2>1
<1>6. /\ tok \in Tokens /\ tok.waited /\ tok.thread = "reading" /\ tok.port = tokens[t].port
      /\ tok.ports = tokens[t].ports /\ tok.finished = tokens[t].finished
      /\ tok.todo = tokens[t].todo /\ tok.previous = tokens[t].previous
  BY <1>1, <1>2 DEF Tokens
<1> HIDE DEF toks, tok, q
<1>7. /\ tokens' \in Seq(Tokens) /\ Len(tokens') = Len(tokens) /\ DOMAIN tokens' = DOMAIN tokens
      /\ tokens'[t] = tok /\ \A u \in DOMAIN tokens : u # t => tokens'[u] = toks[u]
  BY <1>4, <1>5, <1>6, TokenChanged
<1>8. Develops(tokens[t], tok) /\ TokenRight(tok, t)
  BY <1>1, <1>2, <1>6 DEF Develops, TokenRight
<1>9. \A u \in DOMAIN tokens : Develops(tokens[u], tokens'[u])
  <2> SUFFICES ASSUME NEW u \in DOMAIN tokens PROVE Develops(tokens[u], tokens'[u])
    OBVIOUS
  <2>1. CASE u = t
    BY <1>7, <1>8, <2>1
  <2>2. CASE u # t /\ u = q /\ q # 0
    BY <1>4, <1>7, <2>2
  <2>3. CASE u # t /\ u # q
    BY <1>4, <1>7, <2>3 DEF Develops
  <2> QED
    BY <1>1, <2>1, <2>2, <2>3
<1>10. \A u \in DOMAIN tokens : tokens'[u].waited =>
         tokens[u].waited \/ tokens[u].previous = 0 \/ tokens'[tokens[u].previous].finished
  <2> SUFFICES ASSUME NEW u \in DOMAIN tokens, tokens'[u].waited
               PROVE  tokens[u].waited \/ tokens[u].previous = 0 \/ tokens'[tokens[u].previous].finished
    OBVIOUS
  <2>1. CASE u = t
    BY <1>3, <1>4, <1>7, <2>1 DEF q
  <2>2. CASE u # t /\ u = q /\ q # 0
    BY <1>4, <1>7, <2>2
  <2>3. CASE u # t /\ u # q
    BY <1>4, <1>7, <2>3
  <2> QED
    BY <1>1, <2>1, <2>2, <2>3
<1>11. /\ PredecessorsRight' /\ (NoneSkipped' => NoneSkipped)
       /\ \A u \in DOMAIN tokens : \A r \in Ports : Cleared(u, r) => Cleared(u, r)'
  BY <1>2, <1>7, <1>9, <1>10, Developed
<1>12. TokensRight'
  <2> SUFFICES ASSUME NEW u \in DOMAIN tokens PROVE TokenRight(tokens'[u], u)
    BY <1>2, <1>7 DEF TokensRight, TokenRight
  <2>1. CASE u = t
    BY <1>7, <1>8, <2>1
  <2>2. CASE u # t /\ u = q /\ q # 0
    BY <1>4, <1>7, <2>2
  <2>3. CASE u # t /\ u # q
    BY <1>4, <1>7, <2>3 DEF IInv, TokensRight
  <2> QED
    BY <1>1, <2>1, <2>2, <2>3
<1>13. ASSUME q # 0, NoneSkipped, NEW r \in Ports
       PROVE  \A v \in 1..q - 1 : Cleared(v, r)
  <2>1. tokens[q].waited
    BY <1>2, <1>3, <1>4, <1>13 DEF NoneSkipped, Returned
  <2>2. tokens[q].previous = 0 \/ tokens[tokens[q].previous].finished
    BY <1>3, <1>13, <2>1 DEF IInv, PredecessorsRight
  <2> QED
    BY <1>3, <1>13, <2>2, AllCleared
<1>14. \A u \in DOMAIN tokens : \A r \in Ports :
         NoneSkipped /\ Passed(u, r)' => Passed(u, r) \/ \A v \in 1..u - 1 : Cleared(v, r)
  <2> SUFFICES ASSUME NEW u \in DOMAIN tokens, NEW r \in Ports, NoneSkipped, Passed(u, r)'
               PROVE  Passed(u, r) \/ \A v \in 1..u - 1 : Cleared(v, r)
    OBVIOUS
  <2>1. CASE u = t
    BY <1>2, <1>6, <1>7, <2>1 DEF Passed
  <2>2. CASE u = q /\ q # 0
    BY <1>13, <2>2
  <2>3. CASE u # t /\ u # q
    BY <1>2, <1>4, <1>7, <2>3 DEF Passed
  <2> QED
    BY <1>1, <2>1, <2>2, <2>3
<1>15. Ordered'
  BY <1>7, <1>11, <1>14, OrderedStep
<1>16. MutexRight'
  BY <1>2 DEF MutexRight
<1>17. added' \in [Ports -> Nat] /\ \A r \in Ports : added'[r] <= Len(tokens)
  BY <1>2 DEF IInv, Typed
<1> QED
  BY <1>2, <1>7, <1>9, <1>11, <1>12, <1>15, <1>16, <1>17, ThreadStep
-----------------------------------------------------------------------------
(* A step of the main thread that leaves the tokens alone.                 *)
LEMMA TokensSame ==
  ASSUME IInv, UNCHANGED <<setup, tokens, added>>, Typed', ChainRight', OnlyChainReads', FailuresRight'
  PROVE  IInv'
<1>1. TokensRight' /\ PredecessorsRight' /\ MutexRight'
  BY DEF IInv, TokensRight, TokenRight, PredecessorsRight, Reading, MutexRight, Adding
<1>2. Ordered'
  BY DEF IInv, Ordered, NoneSkipped, Returned, Passed, Cleared
<1>3. \A p \in Ports : added'[p] <= Len(tokens')
  BY DEF IInv
<1> QED
  BY <1>1, <1>2, <1>3 DEF IInv

LEMMA ChainLength ==
  ASSUME Typed
  PROVE  /\ Len(m_tokens) \in Nat /\ DOMAIN m_tokens = 1..Len(m_tokens)
         /\ m_tokens = <<>> <=> Len(m_tokens) = 0
<1>1. m_tokens \in Seq(Nat)
  BY DEF Typed
<1> QED
  BY <1>1, LenProperties, EmptySeq

(* waitForReaders waits for the oldest token it has not waited for.        *)
Pop ==
  /\ CanFinish(Head(m_tokens))
  /\ tokens' = Finish(Head(m_tokens), tokens)
  /\ m_tokens' = Tail(m_tokens)
  /\ main' = [main EXCEPT !.result = @ /\ Succeeded(Head(m_tokens))]
  /\ UNCHANGED <<setup, prev, error, added>>

LEMMA PopIInv ==
  ASSUME IInv, Len(m_tokens) > 0, main.pc \in {"launch", "end", "afterStatic", "last"},
         main.pc = "afterStatic" => setup.mode = "AfterStatic",
         Pop
  PROVE  IInv'
<1> DEFINE h == Head(m_tokens)
<1>1. /\ DOMAIN tokens = 1..Len(tokens) /\ Len(tokens) \in Nat
      /\ \A t \in DOMAIN tokens : tokens[t] \in Tokens /\ TokenRight(tokens[t], t)
  BY LenProperties, TokenFields DEF IInv, TokensRight, Typed
<1>2. /\ Len(m_tokens) \in Nat /\ prev \in Nat /\ prev <= Len(tokens)
      /\ Len(m_tokens) <= prev /\ m_tokens \in Seq(Nat) /\ m_tokens # <<>>
  <2>1. Typed /\ prev \in Nat /\ m_tokens \in Seq(Nat)
    BY DEF IInv, Typed
  <2>2. Len(m_tokens) \in Nat /\ m_tokens # <<>>
    BY <2>1, ChainLength
  <2>3. Len(m_tokens) <= prev /\ (prev = 0 \/ prev = Len(tokens) \/ prev = Len(tokens) - 1)
    BY DEF IInv, ChainRight
  <2>4. Len(tokens) \in Nat
    BY <1>1
  <2> QED
    BY <2>1, <2>2, <2>3, <2>4
<1>3. h = prev - Len(m_tokens) + 1 /\ h \in DOMAIN tokens
  <2>1. h = m_tokens[1]
    BY <1>2
  <2>2. 1 \in 1..Len(m_tokens)
    BY <1>2
  <2>3. m_tokens[1] = prev - Len(m_tokens) + 1
    BY <2>2 DEF IInv, ChainRight
  <2> HIDE DEF h
  <2>4. h \in 1..Len(tokens)
    BY <2>1, <2>2, <2>3, <1>1, <1>2
  <2> QED
    BY <2>1, <2>3, <2>4, <1>1
<1>4. /\ m_tokens' \in Seq(Nat) /\ Len(m_tokens') = Len(m_tokens) - 1
      /\ \A i \in 1..Len(m_tokens') : m_tokens'[i] = m_tokens[i + 1]
  <2>1. m_tokens' = Tail(m_tokens)
    BY DEF Pop
  <2> QED
    BY <1>2, <2>1, HeadTailProperties
<1>5. /\ tokens' \in Seq(Tokens) /\ Len(tokens') = Len(tokens) /\ DOMAIN tokens' = DOMAIN tokens
      /\ tokens[h].thread = "returned"
      /\ Develops(tokens[h], tokens'[h]) /\ TokenRight(tokens'[h], h)
      /\ tokens'[h].finished /\ tokens'[h].thread = "returned" /\ tokens'[h].waited = tokens[h].waited
      /\ \A u \in DOMAIN tokens : u # h => tokens'[u] = tokens[u]
  <2>1. CanFinish(h) /\ tokens' = Finish(h, tokens)
    BY DEF Pop
  <2> QED
    BY <1>3, <2>1, FinishFacts
<1>6. tokens[h].ok \in BOOLEAN /\ main \in [pc : Places, step : Nat \cup {-1}, block : Int, result : BOOLEAN]
  BY <1>1, <1>3 DEF Tokens, IInv, Typed
<1>7. /\ main' \in [pc : Places, step : Nat \cup {-1}, block : Int, result : BOOLEAN]
      /\ main'.pc = main.pc /\ main'.step = main.step
      /\ main'.result => main.result /\ tokens[h].ok
      /\ UNCHANGED <<setup, prev, error, added>>
  BY <1>6 DEF Succeeded, Pop
<1> HIDE DEF h
<1>8. \A u \in DOMAIN tokens : Develops(tokens[u], tokens'[u])
  BY <1>5 DEF Develops
<1>9. \A u \in DOMAIN tokens : tokens'[u].waited => tokens[u].waited
  BY <1>5
<1>10. /\ PredecessorsRight' /\ (NoneSkipped' => NoneSkipped)
       /\ \A u \in DOMAIN tokens : Reading(u)' => Reading(u)
       /\ \A u \in DOMAIN tokens : \A r \in Ports : Cleared(u, r) => Cleared(u, r)'
  BY <1>5, <1>7, <1>8, <1>9, Developed
<1>11. \A v \in 1..h - 1 : \A r \in Ports : Cleared(v, r)
  <2> SUFFICES ASSUME NEW v \in 1..h - 1, NEW r \in Ports PROVE Cleared(v, r)
    OBVIOUS
  <2>1. v \in DOMAIN tokens /\ ~InChain(v)
    <3>1. h \in 1..Len(tokens) /\ v \in Int /\ 1 <= v /\ v < h
      BY <1>1, <1>3
    <3>2. v \in 1..Len(tokens) /\ ~(prev - Len(m_tokens) < v)
      BY <1>1, <1>2, <1>3, <3>1
    <3> QED
      BY <1>1, <3>2 DEF InChain
  <2>2. ~Reading(v)
    BY <2>1 DEF IInv, OnlyChainReads
  <2>3. TokenRight(tokens[v], v)
    BY <1>1, <2>1
  <2> QED
    BY <2>2, <2>3 DEF Reading, TokenRight, Cleared
<1>12. Ordered'
  <2>1. \A u \in DOMAIN tokens : \A r \in Ports :
          NoneSkipped /\ Passed(u, r)' => Passed(u, r) \/ \A v \in 1..u - 1 : Cleared(v, r)
    BY <1>5, <1>7, <1>11 DEF Passed
  <2> QED
    BY <1>5, <1>10, <2>1, OrderedStep
<1>13. TokensRight'
  <2> SUFFICES ASSUME NEW u \in DOMAIN tokens PROVE TokenRight(tokens'[u], u)
    BY <1>5, <1>7 DEF TokensRight, TokenRight
  <2>1. CASE u = h
    BY <1>5, <2>1
  <2>2. CASE u # h
    BY <1>1, <1>5, <2>2
  <2> QED
    BY <2>1, <2>2
<1>14. MutexRight'
  <2>1. \A u \in DOMAIN tokens : tokens'[u].thread = "adding" => tokens[u].thread = "adding"
    BY <1>5
  <2> QED
    BY <1>5, <1>7, <2>1, MutexKept DEF IInv
<1>15. \A u \in DOMAIN tokens : InChain(u)' <=> InChain(u) /\ u # h
  <2> SUFFICES ASSUME NEW u \in DOMAIN tokens PROVE InChain(u)' <=> InChain(u) /\ u # h
    OBVIOUS
  <2>1. u \in Nat /\ prev' = prev
    BY <1>1, <1>7
  <2>2. prev - Len(m_tokens') < u <=> prev - Len(m_tokens) < u /\ u # h
    BY <1>2, <1>3, <1>4, <2>1
  <2> QED
    BY <2>1, <2>2 DEF InChain
<1>16. OnlyChainReads'
  <2> SUFFICES ASSUME NEW u \in DOMAIN tokens, Reading(u)' PROVE InChain(u)'
    BY <1>5 DEF OnlyChainReads
  <2>1. u # h
    BY <1>5 DEF Reading
  <2>2. InChain(u)
    BY <1>10 DEF IInv, OnlyChainReads
  <2> QED
    BY <1>15, <2>1, <2>2
<1>17. FailuresRight'
  <2>1. \A u \in DOMAIN tokens : Returned(u)' /\ ~tokens'[u].ok => InChain(u)' \/ ~main'.result \/ error
    <3> SUFFICES ASSUME NEW u \in DOMAIN tokens, Returned(u)', ~tokens'[u].ok
                 PROVE  InChain(u)' \/ ~main'.result \/ error
      OBVIOUS
    <3>1. CASE u = h
      BY <1>5, <1>7, <3>1 DEF Develops
    <3>2. CASE u # h
      <4>1. Returned(u) /\ ~tokens[u].ok
        BY <1>5, <3>2 DEF Returned
      <4> QED
        BY <1>7, <1>15, <3>2, <4>1 DEF IInv, FailuresRight
    <3> QED
      BY <3>1, <3>2
  <2> QED
    BY <1>5, <1>7, <2>1 DEF FailuresRight
<1>18. ChainRight'
  <2>1. Len(m_tokens') <= prev' /\ \A i \in 1..Len(m_tokens') : m_tokens'[i] = prev' - Len(m_tokens') + i
    <3> SUFFICES ASSUME NEW i \in 1..Len(m_tokens')
                 PROVE  m_tokens'[i] = prev - Len(m_tokens') + i
      BY <1>2, <1>4, <1>7
    <3>1. i + 1 \in 1..Len(m_tokens)
      BY <1>2, <1>4
    <3>2. m_tokens[i + 1] = prev - Len(m_tokens) + (i + 1)
      BY <3>1 DEF IInv, ChainRight
    <3>3. m_tokens'[i] = m_tokens[i + 1]
      BY <1>4
    <3> QED
      BY <1>2, <1>4, <1>7, <3>2, <3>3
  <2>2. ~Serial /\ ~Serial'
    BY <1>2, <1>7 DEF IInv, ChainRight, Serial
  <2>3. main.pc = "launch" => Len(tokens) \in DOMAIN tokens /\ tokens[Len(tokens)].thread = "none"
    BY <1>1 DEF IInv, ChainRight
  <2>4. main.pc = "launch" => tokens'[Len(tokens)].thread = "none"
    BY <1>5, <2>3
  <2> QED
    BY <1>5, <1>7, <2>1, <2>2, <2>4 DEF IInv, ChainRight
<1>19. Typed' /\ \A p \in Ports : added'[p] <= Len(tokens')
  BY <1>4, <1>5, <1>7 DEF IInv, Typed
<1> QED
  BY <1>10, <1>12, <1>13, <1>14, <1>16, <1>17, <1>18, <1>19 DEF IInv
-----------------------------------------------------------------------------
(* The main thread goes on while the readers stay as they are.             *)
Settled == prev = 0 \/ prev = Len(tokens)

LEMMA Onward ==
  ASSUME IInv, UNCHANGED <<setup, m_tokens, prev, tokens, added>>,
         main' \in [pc : Places, step : Nat \cup {-1}, block : Int, result : BOOLEAN],
         main'.pc \notin {"launch", "serial"}, error' \in BOOLEAN, error => error',
         main'.result => main.result, main.pc # "serial",
         Settled \/ (main'.pc = "end" /\ ~main'.result /\ ~Serial /\ prev = Len(tokens) - 1),
         main'.pc \in {"finishRead", "done"} \/ (main'.pc = "timestep" /\ main'.step = -1) => m_tokens = <<>>,
         main'.pc \in {"timestep", "partition", "cancel"} => main'.result,
         main'.pc = "afterStatic" /\ setup.mode # "AfterStatic" => main'.result,
         main'.pc \in {"finishRead", "done"} => main'.result \/ error',
         main'.pc # "prepare"
  PROVE  IInv'
<1>1. Typed'
  BY DEF IInv, Typed
<1>2. \A t \in DOMAIN tokens : (InChain(t)' <=> InChain(t)) /\ (Reading(t)' <=> Reading(t))
  BY DEF InChain, Reading
<1>3. OnlyChainReads'
  BY <1>2 DEF IInv, OnlyChainReads
<1>4. FailuresRight'
  BY <1>2 DEF IInv, FailuresRight, Returned
<1>5. ChainRight'
  BY DEF IInv, ChainRight, Settled, Serial
<1> QED
  BY <1>1, <1>3, <1>4, <1>5, TokensSame

(* All the readers have been waited for.                                   *)
LEMMA NobodyReads ==
  ASSUME IInv, m_tokens = <<>>, main.pc # "serial"
  PROVE  /\ \A t \in DOMAIN tokens : ~Reading(t)
         /\ \A t \in DOMAIN tokens : Returned(t) /\ ~tokens[t].ok => ~main.result \/ error
<1>1. \A t \in DOMAIN tokens : ~InChain(t)
  <2>1. Len(m_tokens) = 0 /\ prev \in Nat /\ DOMAIN tokens = 1..Len(tokens)
    BY ChainLength, LenProperties DEF IInv, Typed
  <2> QED
    BY <2>1 DEF InChain
<1> QED
  BY <1>1 DEF IInv, OnlyChainReads, FailuresRight

LEMMA Drained ==
  ASSUME IInv, UNCHANGED <<setup, m_tokens, tokens, added>>, m_tokens = <<>>, prev' = 0,
         main' \in [pc : Places, step : Nat \cup {-1}, block : Int, result : BOOLEAN],
         main'.pc \notin {"launch", "serial"}, error' \in BOOLEAN, error => error',
         main'.result => main.result, main.pc # "serial",
         main'.pc \in {"timestep", "partition", "cancel"} => main'.result,
         main'.pc = "afterStatic" /\ setup.mode # "AfterStatic" => main'.result,
         main'.pc \in {"finishRead", "done"} => main'.result \/ error',
         main'.pc # "prepare"
  PROVE  IInv'
<1>1. Typed'
  BY DEF IInv, Typed
<1>2. /\ \A t \in DOMAIN tokens : ~Reading(t)
      /\ \A t \in DOMAIN tokens : Returned(t) /\ ~tokens[t].ok => ~main.result \/ error
  BY NobodyReads
<1>3. OnlyChainReads'
  BY <1>2 DEF OnlyChainReads, Reading
<1>4. FailuresRight'
  BY <1>2 DEF FailuresRight, Returned
<1>5. ChainRight'
  <2>1. Len(m_tokens) = 0
    BY ChainLength DEF IInv, Typed
  <2> QED
    BY <2>1 DEF ChainRight
<1> QED
  BY <1>1, <1>3, <1>4, <1>5, TokensSame

LEMMA PrepareIInv == IInv /\ Prepare => IInv'
<1> SUFFICES ASSUME IInv, Prepare PROVE IInv'
  OBVIOUS
<1>1. PICK go \in {TRUE, ~Failures} : Goto(IF go THEN "timestep" ELSE "done")
  BY DEF Prepare
<1>2. /\ main.pc = "prepare" /\ UNCHANGED <<setup, m_tokens, prev, tokens, error, added>>
      /\ main \in [pc : Places, step : Nat \cup {-1}, block : Int, result : BOOLEAN]
      /\ error \in BOOLEAN
  BY DEF Prepare, At, IInv, Typed
<1>3. /\ main' \in [pc : Places, step : Nat \cup {-1}, block : Int, result : BOOLEAN]
      /\ main'.pc \in {"timestep", "done"} /\ main'.result = main.result
  BY <1>1, <1>2 DEF Goto, Places
<1>4. m_tokens = <<>> /\ main.result /\ Settled
  BY <1>2 DEF IInv, ChainRight, FailuresRight, Settled
<1> QED
  BY <1>2, <1>3, <1>4, Onward

LEMMA FinishReadIInv == IInv /\ FinishRead => IInv'
<1> SUFFICES ASSUME IInv, FinishRead PROVE IInv'
  OBVIOUS
<1>1. /\ main.pc = "finishRead" /\ UNCHANGED <<setup, m_tokens, prev, tokens, error, added>>
      /\ main \in [pc : Places, step : Nat \cup {-1}, block : Int, result : BOOLEAN]
      /\ error \in BOOLEAN /\ main' = [main EXCEPT !.pc = "done"]
  BY DEF FinishRead, At, Goto, IInv, Typed
<1>2. /\ main' \in [pc : Places, step : Nat \cup {-1}, block : Int, result : BOOLEAN]
      /\ main'.pc = "done" /\ main'.result = main.result
  BY <1>1 DEF Places
<1>3. m_tokens = <<>> /\ (main.result \/ error) /\ Settled
  BY <1>1 DEF IInv, ChainRight, FailuresRight, Settled
<1> QED
  BY <1>1, <1>2, <1>3, Onward

LEMMA CancelIInv == IInv /\ Cancel => IInv'
<1> SUFFICES ASSUME IInv, Cancel PROVE IInv'
  OBVIOUS
<1>1. /\ main.pc = "cancel" /\ UNCHANGED <<setup, m_tokens, prev, tokens, error, added>>
      /\ main \in [pc : Places, step : Nat \cup {-1}, block : Int, result : BOOLEAN]
      /\ error \in BOOLEAN
      /\ \/ main' = [main EXCEPT !.pc = "partition", !.block = main.block + 1]
         \/ main' = [main EXCEPT !.pc = "end", !.result = FALSE]
  BY DEF Cancel, At, IInv, Typed
<1>2. /\ main' \in [pc : Places, step : Nat \cup {-1}, block : Int, result : BOOLEAN]
      /\ \/ main'.pc = "partition" /\ main'.result = main.result
         \/ main'.pc = "end" /\ ~main'.result
  <2>1. CASE main' = [main EXCEPT !.pc = "partition", !.block = main.block + 1]
    <3> DEFINE b == main.block + 1
    <3>1. b \in Int /\ main' = [main EXCEPT !.pc = "partition", !.block = b]
      BY <1>1, <2>1
    <3> HIDE DEF b
    <3> QED
      BY <1>1, <3>1 DEF Places
  <2>2. CASE main' = [main EXCEPT !.pc = "end", !.result = FALSE]
    BY <1>1, <2>2 DEF Places
  <2> QED
    BY <1>1, <2>1, <2>2
<1>3. main.result /\ Settled
  BY <1>1 DEF IInv, ChainRight, FailuresRight, Settled
<1> QED
  BY <1>1, <1>2, <1>3, Onward
-----------------------------------------------------------------------------
(* readTimestep returns.                                                   *)
LEMMA LeaveFacts ==
  ASSUME IInv, NEW result \in BOOLEAN, Leave(result)
  PROVE  /\ main' \in [pc : Places, step : Nat \cup {-1}, block : Int, result : BOOLEAN]
         /\ main'.result = result /\ error' \in BOOLEAN /\ (error => error')
         /\ main.step = -1 => main'.pc = (IF result THEN "afterStatic" ELSE "finishRead")
         /\ main.step = -1 /\ ~result => error'
         /\ main.step # -1 => main'.pc = (IF result THEN "timestep" ELSE "last") /\ main'.step # -1
<1>1. /\ main \in [pc : Places, step : Nat \cup {-1}, block : Int, result : BOOLEAN]
      /\ error \in BOOLEAN
  BY DEF IInv, Typed
<1>2. CASE main.step = -1
  <2>1. /\ main' = [main EXCEPT !.result = result, !.pc = IF result THEN "afterStatic" ELSE "finishRead"]
        /\ error' = (error \/ ~result)
    BY <1>2 DEF Leave
  <2>2. /\ main' \in [pc : Places, step : Nat \cup {-1}, block : Int, result : BOOLEAN]
        /\ main'.result = result /\ main'.pc = (IF result THEN "afterStatic" ELSE "finishRead")
    BY <1>1, <2>1 DEF Places
  <2>3. error' \in BOOLEAN /\ (error => error') /\ (~result => error')
    BY <1>1, <2>1
  <2> QED
    BY <1>2, <2>2, <2>3
<1>3. CASE main.step # -1
  <2>1. /\ main' = [main EXCEPT !.result = result, !.pc = IF result THEN "timestep" ELSE "last",
                                !.step = IF result THEN main.step + 1 ELSE main.step]
        /\ UNCHANGED error
    BY <1>3 DEF Leave
  <2>2. /\ main' \in [pc : Places, step : Nat \cup {-1}, block : Int, result : BOOLEAN]
        /\ main'.result = result /\ main'.pc = (IF result THEN "timestep" ELSE "last") /\ main'.step # -1
    <3> DEFINE s == IF result THEN main.step + 1 ELSE main.step
               pc == IF result THEN "timestep" ELSE "last"
    <3>1. s \in Nat /\ pc \in Places
      BY <1>1, <1>3 DEF Places
    <3>2. main' = [main EXCEPT !.result = result, !.pc = pc, !.step = s]
      BY <2>1
    <3> HIDE DEF s, pc
    <3>3. /\ main' \in [pc : Places, step : Nat \cup {-1}, block : Int, result : BOOLEAN]
          /\ main'.result = result /\ main'.pc = pc /\ main'.step = s
      BY <1>1, <3>1, <3>2
    <3> QED
      BY <3>1, <3>3 DEF pc
  <2> QED
    BY <1>1, <1>3, <2>1, <2>2
<1> QED
  BY <1>2, <1>3

LEMMA BeginTimestepIInv == IInv /\ BeginTimestep => IInv'
<1> SUFFICES ASSUME IInv, BeginTimestep PROVE IInv'
  OBVIOUS
<1>1. /\ main.pc = "timestep" /\ UNCHANGED <<setup, m_tokens, prev, tokens, added>>
      /\ main \in [pc : Places, step : Nat \cup {-1}, block : Int, result : BOOLEAN]
      /\ error \in BOOLEAN
  BY DEF BeginTimestep, At, IInv, Typed
<1>2. main.result /\ Settled /\ (main.step = -1 => m_tokens = <<>>)
  BY <1>1 DEF IInv, ChainRight, FailuresRight, Settled
<1>3. CASE Goto("last") /\ UNCHANGED error
  <2>1. /\ main' \in [pc : Places, step : Nat \cup {-1}, block : Int, result : BOOLEAN]
        /\ main'.pc = "last" /\ main'.result = main.result
    BY <1>1, <1>3 DEF Goto, Places
  <2> QED
    BY <1>1, <1>2, <1>3, <2>1, Onward
<1>4. CASE main' = [main EXCEPT !.pc = "partition", !.block = -1, !.result = TRUE] /\ UNCHANGED error
  <2>1. /\ main' \in [pc : Places, step : Nat \cup {-1}, block : Int, result : BOOLEAN]
        /\ main'.pc = "partition" /\ main'.result
    <3> DEFINE b == -1
    <3>1. b \in Int /\ main' = [main EXCEPT !.pc = "partition", !.block = b, !.result = TRUE]
      BY <1>4
    <3> HIDE DEF b
    <3> QED
      BY <1>1, <3>1 DEF Places
  <2> QED
    BY <1>1, <1>2, <1>4, <2>1, Onward
<1>5. CASE Leave(FALSE)
  <2>1. /\ main' \in [pc : Places, step : Nat \cup {-1}, block : Int, result : BOOLEAN]
        /\ ~main'.result /\ error' \in BOOLEAN /\ (error => error')
        /\ main.step = -1 => main'.pc = "finishRead" /\ error'
        /\ main.step # -1 => main'.pc = "last"
    BY <1>5, LeaveFacts
  <2> QED
    BY <1>1, <1>2, <2>1, Onward
<1> QED
  BY <1>3, <1>4, <1>5 DEF BeginTimestep

LEMMA EndTimestepIInv == IInv /\ EndTimestep => IInv'
<1> SUFFICES ASSUME IInv, EndTimestep PROVE IInv'
  OBVIOUS
<1>1. /\ main.pc = "end" /\ main.result \in BOOLEAN /\ Len(m_tokens) \in Nat
      /\ m_tokens = <<>> <=> Len(m_tokens) = 0
  BY ChainLength DEF EndTimestep, At, IInv, Typed
<1>2. ASSUME Leave(main.result)
      PROVE  /\ main' \in [pc : Places, step : Nat \cup {-1}, block : Int, result : BOOLEAN]
             /\ main'.result = main.result /\ error' \in BOOLEAN /\ (error => error')
             /\ main'.pc \in {"afterStatic", "finishRead", "timestep", "last"}
             /\ main'.pc \in {"afterStatic", "timestep"} => main'.result
             /\ main'.pc = "timestep" => main'.step # -1
             /\ main'.pc = "finishRead" => error' /\ ~main'.result
  BY <1>1, <1>2, LeaveFacts
<1>3. CASE AllRead
  <2>1. WaitForReaders(0, /\ prev' = 0 /\ Leave(main.result)
                          /\ UNCHANGED <<setup, m_tokens, tokens, added>>)
    BY <1>3 DEF EndTimestep
  <2>2. CASE Len(m_tokens) <= 0
    <3>1. prev' = 0 /\ Leave(main.result) /\ UNCHANGED <<setup, m_tokens, tokens, added>>
      BY <2>1, <2>2 DEF WaitForReaders
    <3>2. m_tokens = <<>>
      BY <1>1, <2>2
    <3> QED
      BY <1>1, <1>2, <3>1, <3>2, Drained
  <2>3. CASE ~(Len(m_tokens) <= 0)
    <3>1. Pop
      BY <2>1, <2>3 DEF WaitForReaders, Pop
    <3> QED
      BY <1>1, <2>3, <3>1, PopIInv
  <2> QED
    BY <2>2, <2>3
<1>4. CASE ~AllRead
  <2>1. Leave(main.result) /\ UNCHANGED <<setup, m_tokens, prev, tokens, added>>
    BY <1>4 DEF EndTimestep
  <2>2. Serial \/ main.result
    BY <1>4 DEF AllRead
  <2>3. Settled
    BY <1>1, <2>2 DEF IInv, ChainRight, Settled
  <2>4. Serial => m_tokens = <<>>
    BY DEF IInv, ChainRight
  <2>5. main'.pc \notin {"launch", "serial", "done", "partition", "cancel", "prepare"} /\ main.pc # "serial"
    BY <1>1, <1>2, <2>1
  <2>6. /\ main'.pc = "finishRead" => m_tokens = <<>>
        /\ ~(main'.pc = "timestep" /\ main'.step = -1)
    BY <1>2, <2>1, <2>2, <2>4
  <2> QED
    BY <1>2, <2>1, <2>3, <2>5, <2>6, Onward
<1> QED
  BY <1>3, <1>4

LEMMA AfterStaticIInv == IInv /\ AfterStatic => IInv'
<1> SUFFICES ASSUME IInv, AfterStatic PROVE IInv'
  OBVIOUS
<1>1. /\ main.pc = "afterStatic" /\ Len(m_tokens) \in Nat
      /\ m_tokens = <<>> <=> Len(m_tokens) = 0
      /\ main \in [pc : Places, step : Nat \cup {-1}, block : Int, result : BOOLEAN]
      /\ error \in BOOLEAN
  BY ChainLength DEF AfterStatic, At, IInv, Typed
<1>2. ASSUME main' = [main EXCEPT !.step = 0, !.pc = "timestep"]
      PROVE  /\ main' \in [pc : Places, step : Nat \cup {-1}, block : Int, result : BOOLEAN]
             /\ main'.pc = "timestep" /\ main'.step = 0 /\ main'.result = main.result
  BY <1>1, <1>2 DEF Places
<1>3. CASE setup.mode # "AfterStatic"
  <2>1. /\ main' = [main EXCEPT !.step = 0, !.pc = "timestep"]
        /\ UNCHANGED <<setup, m_tokens, prev, tokens, error, added>>
    BY <1>3 DEF AfterStatic
  <2>2. main.result /\ Settled
    BY <1>1, <1>3 DEF IInv, ChainRight, FailuresRight, Settled
  <2> QED
    BY <1>1, <1>2, <2>1, <2>2, Onward
<1>4. CASE setup.mode = "AfterStatic"
  <2>1. WaitForReaders(0, /\ prev' = 0
                          /\ IF main.result
                             THEN main' = [main EXCEPT !.step = 0, !.pc = "timestep"] /\ UNCHANGED error
                             ELSE Goto("finishRead") /\ error' = TRUE
                          /\ UNCHANGED <<setup, m_tokens, tokens, added>>)
    BY <1>4 DEF AfterStatic
  <2>2. CASE Len(m_tokens) <= 0
    <3>1. /\ prev' = 0 /\ UNCHANGED <<setup, m_tokens, tokens, added>>
          /\ IF main.result
             THEN main' = [main EXCEPT !.step = 0, !.pc = "timestep"] /\ UNCHANGED error
             ELSE Goto("finishRead") /\ error' = TRUE
      BY <2>1, <2>2 DEF WaitForReaders
    <3>2. m_tokens = <<>>
      BY <1>1, <2>2
    <3>3. CASE main.result
      BY <1>1, <1>2, <3>1, <3>2, <3>3, Drained
    <3>4. CASE ~main.result
      <4>1. /\ main' \in [pc : Places, step : Nat \cup {-1}, block : Int, result : BOOLEAN]
            /\ main'.pc = "finishRead" /\ main'.result = main.result /\ error' = TRUE
        BY <1>1, <3>1, <3>4 DEF Goto, Places
      <4> QED
        BY <1>1, <3>1, <3>2, <4>1, Drained
    <3> QED
      BY <3>3, <3>4
  <2>3. CASE ~(Len(m_tokens) <= 0)
    <3>1. Pop
      BY <2>1, <2>3 DEF WaitForReaders, Pop
    <3> QED
      BY <1>1, <1>4, <2>3, <3>1, PopIInv
  <2> QED
    BY <2>2, <2>3
<1> QED
  BY <1>3, <1>4

LEMMA LastReadersIInv == IInv /\ LastReaders => IInv'
<1> SUFFICES ASSUME IInv, LastReaders PROVE IInv'
  OBVIOUS
<1>1. /\ main.pc = "last" /\ Len(m_tokens) \in Nat
      /\ m_tokens = <<>> <=> Len(m_tokens) = 0
      /\ main \in [pc : Places, step : Nat \cup {-1}, block : Int, result : BOOLEAN]
      /\ error \in BOOLEAN
  BY ChainLength DEF LastReaders, At, IInv, Typed
<1>2. WaitForReaders(0, /\ prev' = 0 /\ error' = (error \/ ~main.result) /\ Goto("finishRead")
                        /\ UNCHANGED <<setup, m_tokens, tokens, added>>)
  BY DEF LastReaders
<1>3. CASE Len(m_tokens) <= 0
  <2>1. /\ prev' = 0 /\ error' = (error \/ ~main.result) /\ Goto("finishRead")
        /\ UNCHANGED <<setup, m_tokens, tokens, added>>
    BY <1>2, <1>3 DEF WaitForReaders
  <2>2. m_tokens = <<>>
    BY <1>1, <1>3
  <2>3. error' \in BOOLEAN /\ (error => error') /\ (main.result \/ error')
    BY <1>1, <2>1
  <2>4. /\ main' \in [pc : Places, step : Nat \cup {-1}, block : Int, result : BOOLEAN]
        /\ main'.pc = "finishRead" /\ main'.result = main.result
    BY <1>1, <2>1 DEF Goto, Places
  <2> QED
    BY <1>1, <2>1, <2>2, <2>3, <2>4, Drained
<1>4. CASE ~(Len(m_tokens) <= 0)
  <2>1. Pop
    BY <1>2, <1>4 DEF WaitForReaders, Pop
  <2> QED
    BY <1>1, <1>4, <2>1, PopIInv
<1> QED
  BY <1>3, <1>4
-----------------------------------------------------------------------------
LEMMA SerialDoneIInv == IInv /\ SerialDone => IInv'
<1> SUFFICES ASSUME IInv, SerialDone PROVE IInv'
  OBVIOUS
<1> DEFINE last == Len(tokens)
           ok == tokens[last].ok
           pc == IF ok THEN "cancel" ELSE "end"
<1>1. /\ main.pc = "serial" /\ UNCHANGED <<setup, m_tokens, prev, tokens, error, added>>
      /\ tokens[last].thread = "returned"
      /\ main' = [main EXCEPT !.result = ok, !.pc = pc]
      /\ main \in [pc : Places, step : Nat \cup {-1}, block : Int, result : BOOLEAN]
      /\ error \in BOOLEAN
  BY DEF SerialDone, At, Returned, IInv, Typed
<1>2. last \in DOMAIN tokens /\ tokens[last] \in Tokens
  <2>1. Typed /\ last > 0 /\ DOMAIN tokens = 1..last /\ last \in Nat
    BY <1>1, LenProperties DEF IInv, ChainRight, Typed
  <2>2. last \in DOMAIN tokens
    BY <2>1
  <2> QED
    BY <2>1, <2>2, TokenFields
<1>3. ok \in BOOLEAN /\ pc \in Places
  BY <1>2 DEF Tokens, Places
<1>4. pc \in {"cancel", "end"} /\ (pc = "cancel" <=> ok)
  OBVIOUS
<1> HIDE DEF last, ok, pc
<1>5. /\ main' \in [pc : Places, step : Nat \cup {-1}, block : Int, result : BOOLEAN]
      /\ main'.pc = pc /\ main'.result = ok
  BY <1>1, <1>3
<1>6. Typed'
  BY <1>1, <1>5 DEF IInv, Typed
<1>7. \A t \in DOMAIN tokens : (InChain(t)' <=> InChain(t)) /\ (Reading(t)' <=> Reading(t))
  BY <1>1 DEF InChain, Reading
<1>8. ~Reading(last)
  BY <1>1 DEF Reading
<1>9. OnlyChainReads'
  BY <1>1, <1>7, <1>8 DEF IInv, OnlyChainReads, last
<1>10. FailuresRight'
  <2>1. \A t \in DOMAIN tokens : Returned(t) /\ ~tokens[t].ok => InChain(t) \/ ~ok \/ error
    <3> SUFFICES ASSUME NEW t \in DOMAIN tokens, Returned(t), ~tokens[t].ok, ok
                 PROVE  InChain(t) \/ error
      OBVIOUS
    <3>1. t # Len(tokens)
      BY DEF ok, last
    <3>2. main.result
      BY <1>1 DEF IInv, FailuresRight
    <3> QED
      BY <3>1, <3>2 DEF IInv, FailuresRight
  <2> QED
    BY <1>1, <1>4, <1>5, <1>7, <2>1 DEF FailuresRight, Returned
<1>11. ChainRight'
  BY <1>1, <1>4, <1>5 DEF IInv, ChainRight, Serial
<1> QED
  BY <1>1, <1>6, <1>9, <1>10, <1>11, TokensSame

(* A new token is put at the end, or started, without a chance to pass.    *)
LEMMA LaunchIInv == IInv /\ Launch => IInv'
<1> SUFFICES ASSUME IInv, Launch PROVE IInv'
  OBVIOUS
<1> DEFINE n == Len(tokens)
           start == /\ m_tokens' = Append(m_tokens, n) /\ prev' = n
                    /\ tokens' = [tokens EXCEPT ![n].thread = "reading"]
                    /\ Goto("cancel")
                    /\ UNCHANGED <<setup, error, added>>
           leave == Goto("end") /\ UNCHANGED <<setup, m_tokens, prev, tokens, error, added>>
<1>1. /\ main.pc = "launch" /\ Concurrency - 1 \in Nat /\ error \in BOOLEAN
      /\ main \in [pc : Places, step : Nat \cup {-1}, block : Int, result : BOOLEAN]
      /\ Len(m_tokens) \in Nat /\ prev \in Nat /\ n \in Nat
      /\ DOMAIN tokens = 1..n /\ m_tokens \in Seq(Nat) /\ tokens \in Seq(Tokens)
  BY ReaderAssumption, ChainLength, LenProperties DEF Launch, At, IInv, Typed
<1>2. /\ n \in DOMAIN tokens /\ tokens[n].thread = "none" /\ ~Serial /\ prev \in {0, n - 1}
      /\ Len(m_tokens) <= prev /\ \A i \in 1..Len(m_tokens) : m_tokens[i] = prev - Len(m_tokens) + i
  <2>1. /\ n > 0 /\ tokens[n].thread = "none" /\ ~Serial /\ prev \in {0, n - 1}
        /\ Len(m_tokens) <= prev /\ \A i \in 1..Len(m_tokens) : m_tokens[i] = prev - Len(m_tokens) + i
    BY <1>1 DEF IInv, ChainRight
  <2>2. n \in 1..n
    <3> HIDE DEF n
    <3> QED
      BY <1>1, <2>1
  <2> QED
    BY <1>1, <2>1, <2>2
<1>3. IF Len(m_tokens) <= Concurrency - 1 THEN IF main.result THEN start ELSE leave ELSE Pop
  BY DEF Launch, WaitForReaders, OthersAtMost, Pop
<1>4. CASE Pop /\ ~(Len(m_tokens) <= Concurrency - 1)
  <2>1. Len(m_tokens) > 0
    BY <1>1, <1>4
  <2> QED
    BY <1>1, <1>4, <2>1, PopIInv
<1>5. CASE leave /\ ~main.result
  <2>1. /\ main' \in [pc : Places, step : Nat \cup {-1}, block : Int, result : BOOLEAN]
        /\ main'.pc = "end" /\ main'.result = main.result
    BY <1>1, <1>5 DEF Goto, Places
  <2>2. Settled \/ prev = Len(tokens) - 1
    BY <1>2 DEF Settled
  <2> QED
    BY <1>1, <1>2, <1>5, <2>1, <2>2, Onward
<1>6. CASE start /\ main.result
  <2> DEFINE tok == [tokens[n] EXCEPT !.thread = "reading"]
  <2>1. /\ m_tokens' = Append(m_tokens, n) /\ prev' = n /\ tokens' = [tokens EXCEPT ![n] = tok]
        /\ main' = [main EXCEPT !.pc = "cancel"] /\ UNCHANGED <<setup, error, added>>
    BY <1>6 DEF Goto
  <2>2. tokens[n] \in Tokens /\ TokenRight(tokens[n], n)
    BY <1>2, TokenFields DEF IInv, TokensRight
  <2>3. /\ tok \in Tokens /\ tok.thread = "reading" /\ tok.port = tokens[n].port /\ tok.ports = tokens[n].ports
        /\ tok.finished = tokens[n].finished /\ tok.waited = tokens[n].waited /\ tok.ok = tokens[n].ok
        /\ tok.todo = tokens[n].todo /\ tok.previous = tokens[n].previous
    BY <2>2 DEF Tokens, Activities
  <2> HIDE DEF tok, n
  <2>4. TokenRight(tok, n)
    BY <1>2, <2>2, <2>3 DEF TokenRight
  <2>5. /\ tokens' \in Seq(Tokens) /\ Len(tokens') = n /\ DOMAIN tokens' = DOMAIN tokens
        /\ tokens'[n] = tok /\ \A u \in DOMAIN tokens : u # n => tokens'[u] = tokens[u]
    BY <1>1, <1>2, <2>1, <2>3, TokenChanged DEF n
  <2>6. /\ main' \in [pc : Places, step : Nat \cup {-1}, block : Int, result : BOOLEAN]
        /\ main'.pc = "cancel" /\ main'.result
    BY <1>1, <1>6, <2>1 DEF Places
  <2>7. /\ m_tokens' \in Seq(Nat) /\ Len(m_tokens') = Len(m_tokens) + 1
        /\ \A i \in 1..Len(m_tokens) : m_tokens'[i] = m_tokens[i]
        /\ m_tokens'[Len(m_tokens) + 1] = n
    BY <1>1, <2>1, AppendProperties
  <2>8. Typed' /\ \A p \in Ports : added'[p] <= Len(tokens')
    BY <1>1, <2>1, <2>5, <2>6, <2>7 DEF IInv, Typed, n
  <2>9. TokensRight'
    <3> SUFFICES ASSUME NEW u \in DOMAIN tokens PROVE TokenRight(tokens'[u], u)
      BY <2>1, <2>5 DEF TokensRight, TokenRight
    <3>1. CASE u = n
      BY <2>4, <2>5, <3>1
    <3>2. CASE u # n
      BY <2>5, <3>2 DEF IInv, TokensRight
    <3> QED
      BY <3>1, <3>2
  <2>10. \A u \in DOMAIN tokens : /\ tokens'[u].previous = tokens[u].previous
                                  /\ tokens'[u].waited = tokens[u].waited
                                  /\ tokens'[u].finished = tokens[u].finished
                                  /\ tokens'[u].ok = tokens[u].ok
    BY <2>3, <2>5
  <2>11. \A u \in DOMAIN tokens : /\ u # n => (Reading(u)' <=> Reading(u))
                                  /\ Returned(u)' <=> Returned(u)
    BY <1>2, <2>3, <2>5 DEF Reading, Returned
  <2>12. PredecessorsRight'
    <3> SUFFICES ASSUME NEW t \in DOMAIN tokens
                 PROVE  /\ tokens'[t].waited /\ tokens'[t].previous # 0 => tokens'[tokens'[t].previous].finished
                        /\ tokens'[t].previous = 0 => \A u \in 1..t - 1 : ~Reading(u)'
      BY <2>5 DEF PredecessorsRight
    <3>1. TokenRight(tokens[t], t) /\ t \in 1..n
      BY <1>1 DEF IInv, TokensRight
    <3>2. tokens[t].previous # 0 => tokens[t].previous \in DOMAIN tokens
      <4>1. tokens[t].previous \in {0, t - 1}
        BY <3>1 DEF TokenRight
      <4> QED
        BY <1>1, <3>1, <4>1
    <3>3. \A u \in 1..t - 1 : u \in DOMAIN tokens /\ u # n
      BY <1>1, <3>1
    <3> QED
      BY <2>10, <2>11, <3>2, <3>3 DEF IInv, PredecessorsRight
  <2>13. \A t \in DOMAIN tokens : (InChain(t) \/ t = n) => InChain(t)'
    <3> SUFFICES ASSUME NEW t \in DOMAIN tokens, InChain(t) \/ t = n PROVE InChain(t)'
      OBVIOUS
    <3>1. t \in 1..n
      BY <1>1
    <3>2. CASE t = n
      BY <1>1, <2>1, <2>7, <3>1, <3>2 DEF InChain
    <3>3. CASE InChain(t)
      <4>1. prev - Len(m_tokens) < t /\ t <= prev
        BY <3>3 DEF InChain
      <4>2. prev = n - 1
        BY <1>1, <1>2, <3>1, <4>1
      <4>3. n - (Len(m_tokens) + 1) < t /\ t <= n
        BY <1>1, <3>1, <4>1, <4>2
      <4> QED
        BY <2>1, <2>7, <4>3 DEF InChain
    <3> QED
      BY <3>2, <3>3
  <2>14. OnlyChainReads'
    BY <1>1, <2>5, <2>11, <2>13 DEF IInv, OnlyChainReads
  <2>15. FailuresRight'
    BY <1>1, <1>6, <2>1, <2>5, <2>6, <2>10, <2>11, <2>13 DEF IInv, FailuresRight
  <2>16. ChainRight'
    <3>1. Len(m_tokens') <= prev'
      BY <1>1, <1>2, <2>1, <2>7
    <3>2. \A i \in 1..Len(m_tokens') : m_tokens'[i] = prev' - Len(m_tokens') + i
      <4> SUFFICES ASSUME NEW i \in 1..Len(m_tokens') PROVE m_tokens'[i] = prev' - Len(m_tokens') + i
        OBVIOUS
      <4>1. CASE i = Len(m_tokens) + 1
        BY <1>1, <2>1, <2>7, <4>1
      <4>2. CASE i # Len(m_tokens) + 1
        <5>1. i \in 1..Len(m_tokens)
          BY <1>1, <2>7, <4>2
        <5>2. m_tokens'[i] = prev - Len(m_tokens) + i
          BY <1>2, <2>7, <5>1
        <5>3. prev = n - 1
          BY <1>1, <1>2, <5>1
        <5> QED
          BY <1>1, <2>1, <2>7, <5>1, <5>2, <5>3
      <4> QED
        BY <4>1, <4>2
    <3>3. ~Serial'
      BY <1>2, <2>1 DEF Serial
    <3> QED
      BY <2>1, <2>5, <2>6, <3>1, <3>2, <3>3 DEF ChainRight
  <2>17. MutexRight'
    <3>1. \A u \in DOMAIN tokens : tokens'[u].thread = "adding" => tokens[u].thread = "adding"
      BY <2>3, <2>5
    <3> QED
      BY <2>1, <2>5, <3>1, MutexKept DEF IInv
  <2>18. Ordered'
    <3> SUFFICES ASSUME NoneSkipped', NEW u \in DOMAIN tokens, NEW p \in Ports, Passed(u, p)',
                        NEW t \in 1..u - 1
                 PROVE  Cleared(t, p)'
      BY <2>5 DEF Ordered
    <3>1. NoneSkipped
      BY <2>1, <2>5, <2>10, <2>11 DEF NoneSkipped
    <3>2. Passed(u, p)
      BY <2>1, <2>3, <2>5 DEF Passed
    <3>3. Cleared(t, p)
      BY <3>1, <3>2 DEF IInv, Ordered
    <3>4. t \in DOMAIN tokens /\ t # n
      BY <1>1
    <3> QED
      BY <2>5, <3>3, <3>4 DEF Cleared
  <2> QED
    BY <2>8, <2>9, <2>12, <2>14, <2>15, <2>16, <2>17, <2>18 DEF IInv
<1> QED
  BY <1>3, <1>4, <1>5, <1>6

(* A new token is put after the last one of the chain.                     *)
LEMMA PartitionIInv == IInv /\ Partition => IInv'
<1> SUFFICES ASSUME IInv, Partition PROVE IInv'
  OBVIOUS
<1> DEFINE unit == Token(main.step, main.block)
           plain == UNCHANGED tokens /\ (Goto("end") \/ Goto("cancel"))
           serial == Serial /\ Goto("serial") /\ tokens' = Append(tokens, [unit EXCEPT !.thread = "reading"])
           launch == ~Serial /\ Goto("launch") /\ tokens' = Append(tokens, unit)
<1>1. /\ main.pc = "partition" /\ UNCHANGED <<setup, m_tokens, prev, error, added>>
      /\ main \in [pc : Places, step : Nat \cup {-1}, block : Int, result : BOOLEAN]
      /\ error \in BOOLEAN /\ prev \in Nat /\ Len(tokens) \in Nat /\ DOMAIN tokens = 1..Len(tokens)
      /\ Len(m_tokens) \in Nat /\ (m_tokens = <<>> <=> Len(m_tokens) = 0) /\ tokens \in Seq(Tokens)
  BY ChainLength, LenProperties DEF Partition, At, IInv, Typed
<1>2. main.result /\ Settled /\ Len(m_tokens) <= prev /\ (Serial => prev = 0)
  BY <1>1 DEF IInv, ChainRight, FailuresRight, Settled
<1>6. Len(tokens) \in Nat /\ prev \in {0, Len(tokens)}
  BY <1>1, <1>2 DEF Settled
<1>7. PICK n \in Nat : n = Len(tokens) + 1
  BY <1>6
<1>8. prev \in {0, n - 1} /\ n - 1 = Len(tokens) /\ n > 0 /\ 1..n - 1 \subseteq 1..n
  BY <1>6, <1>7
<1>9. DOMAIN tokens = 1..n - 1
  BY <1>1, <1>8
<1>3. plain \/ serial \/ launch
  BY DEF Partition
<1>4. CASE plain
  <2>1. /\ main' \in [pc : Places, step : Nat \cup {-1}, block : Int, result : BOOLEAN]
        /\ main'.pc \in {"end", "cancel"} /\ main'.result = main.result
    BY <1>1, <1>4 DEF Goto, Places
  <2> QED
    BY <1>1, <1>2, <1>4, <2>1, Onward
<1>5. CASE serial \/ launch
  <2> DEFINE tok == IF Serial THEN [unit EXCEPT !.thread = "reading"] ELSE unit
             pc == IF Serial THEN "serial" ELSE "launch"
  <2>1. tokens' = Append(tokens, tok) /\ main' = [main EXCEPT !.pc = pc]
    BY <1>5 DEF Goto
  <2>2. /\ unit \in Tokens /\ unit.thread = "none" /\ unit.previous = prev /\ unit.port = "none"
        /\ ~unit.waited /\ ~unit.finished /\ \A p \in Ports : unit.ports[p] = "none"
    BY <1>1 DEF Token, Tokens, Activities
  <2> HIDE DEF unit, plain, serial, launch
  <2>3. /\ tok \in Tokens /\ tok.thread = (IF Serial THEN "reading" ELSE "none")
        /\ tok.previous = prev /\ ~tok.waited /\ ~tok.finished
        /\ \A p \in Ports : tok.ports[p] = "none"
    <3>1. CASE Serial
      BY <2>2, <3>1 DEF Tokens, Activities
    <3>2. CASE ~Serial
      BY <2>2, <3>2
    <3> QED
      BY <3>1, <3>2
  <2>4. pc \in Places /\ pc = (IF Serial THEN "serial" ELSE "launch")
    BY DEF Places
  <2> HIDE DEF tok, pc
  <2>5. /\ tokens' \in Seq(Tokens) /\ Len(tokens') = n /\ tokens'[n] = tok
        /\ \A u \in DOMAIN tokens : tokens'[u] = tokens[u]
        /\ DOMAIN tokens' = 1..n /\ n = Len(tokens) + 1 /\ n \in Nat
    BY <1>1, <2>1, <2>3, AppendProperties, LenProperties, <1>7
  <2>6. \A u \in DOMAIN tokens' : u = n \/ (u \in DOMAIN tokens /\ u < n)
    <3>1. \A u \in 1..n : u = n \/ (u \in 1..n - 1 /\ u < n)
      OBVIOUS
    <3> QED
      BY <1>9, <2>5, <3>1
  <2>7. /\ main' \in [pc : Places, step : Nat \cup {-1}, block : Int, result : BOOLEAN]
        /\ main'.pc = pc /\ main'.result
    BY <1>1, <1>2, <2>1, <2>4
  <2>8. Typed'
    BY <1>1, <2>5, <2>7 DEF IInv, Typed
  <2>9. \A p \in Ports : added'[p] <= Len(tokens') /\ added'[p] # n
    <3>1. \A p \in Ports : added[p] \in Nat /\ added[p] <= Len(tokens)
      BY DEF IInv, Typed
    <3>2. added' = added /\ Len(tokens') = n
      BY <1>1, <2>5
    <3>3. \A p \in Ports : added[p] \in Nat /\ added[p] <= n - 1
      BY <1>8, <3>1
    <3> QED
      BY <3>2, <3>3
  <2>10. TokenRight(tok, n)
    BY <1>8, <2>3 DEF TokenRight
  <2>11. TokensRight'
    <3> SUFFICES ASSUME NEW u \in DOMAIN tokens' PROVE TokenRight(tokens'[u], u)
      BY <1>1 DEF TokensRight, TokenRight
    <3> QED
      BY <2>5, <2>6, <2>10 DEF IInv, TokensRight
  <2>12. PredecessorsRight'
    <3> SUFFICES ASSUME NEW t \in DOMAIN tokens'
                 PROVE  /\ tokens'[t].waited /\ tokens'[t].previous # 0 => tokens'[tokens'[t].previous].finished
                        /\ tokens'[t].previous = 0 => \A u \in 1..t - 1 : ~Reading(u)'
      BY DEF PredecessorsRight
    <3>1. CASE t = n
      <4>1. ~tokens'[t].waited /\ tokens'[t].previous = prev
        BY <2>3, <2>5, <3>1
      <4>2. ASSUME prev = 0, NEW u \in 1..t - 1 PROVE ~Reading(u)'
        <5>1. m_tokens = <<>>
          BY <1>1, <1>2, <4>2
        <5>2. u \in DOMAIN tokens
          BY <1>1, <1>8, <3>1
        <5>3. ~Reading(u)
          BY <1>1, <5>1, <5>2, NobodyReads
        <5> QED
          BY <2>5, <5>2, <5>3 DEF Reading
      <4> QED
        BY <4>1, <4>2
    <3>2. CASE t # n
      <4>1. t \in 1..n - 1
        BY <1>9, <2>6, <3>2
      <4>2. t \in 1..Len(tokens) /\ tokens'[t] = tokens[t]
        BY <1>1, <2>5, <2>6, <3>2
      <4>3. tokens[t].previous \in {0, t - 1}
        BY <1>1, <4>2 DEF IInv, TokensRight, TokenRight
      <4>4. tokens[t].previous # 0 => tokens[t].previous \in DOMAIN tokens
        BY <1>9, <4>1, <4>3
      <4>5. \A u \in 1..t - 1 : u \in DOMAIN tokens
        BY <1>9, <4>1
      <4>6. \A u \in DOMAIN tokens : Reading(u)' <=> Reading(u)
        BY <2>5 DEF Reading
      <4> QED
        BY <1>1, <2>5, <4>2, <4>4, <4>5, <4>6 DEF IInv, PredecessorsRight
    <3> QED
      BY <3>1, <3>2
  <2>13. \A u \in DOMAIN tokens : /\ InChain(u)' <=> InChain(u)
                                  /\ Reading(u)' <=> Reading(u)
                                  /\ Returned(u)' <=> Returned(u)
    BY <1>1, <2>5 DEF InChain, Reading, Returned
  <2>14. OnlyChainReads'
    <3> SUFFICES ASSUME NEW u \in DOMAIN tokens', Reading(u)'
                 PROVE  InChain(u)' \/ (main'.pc = "serial" /\ u = Len(tokens'))
      BY DEF OnlyChainReads
    <3>1. CASE u = n
      BY <2>3, <2>4, <2>5, <2>7, <3>1 DEF Reading
    <3>2. CASE u # n
      BY <1>1, <2>6, <2>13, <3>2 DEF IInv, OnlyChainReads
    <3> QED
      BY <3>1, <3>2
  <2>15. FailuresRight'
    <3>1. ~Returned(n)'
      BY <2>3, <2>5 DEF Returned
    <3>2. \A u \in DOMAIN tokens : Returned(u) /\ ~tokens[u].ok => InChain(u) \/ error
      BY <1>1, <1>2 DEF IInv, FailuresRight
    <3>3. \A u \in DOMAIN tokens' : Returned(u)' /\ ~tokens'[u].ok => InChain(u)' \/ error'
      BY <1>1, <2>5, <2>6, <2>13, <3>1, <3>2
    <3> QED
      BY <2>4, <2>7, <3>3 DEF FailuresRight
  <2>16. ChainRight'
    <3>1. \A i \in 1..Len(m_tokens) : m_tokens[i] = prev - Len(m_tokens) + i
      BY DEF IInv, ChainRight
    <3>2. /\ Serial' <=> Serial
          /\ Serial => m_tokens = <<>> /\ prev = 0
      BY <1>1 DEF IInv, ChainRight, Serial
    <3>3. prev = 0 \/ prev = n - 1
      BY <1>8
    <3>4. main'.pc = "launch" => tokens'[n].thread = "none" /\ ~Serial
      BY <2>3, <2>4, <2>5, <2>7
    <3>5. prev # 0 => main'.pc = "launch"
      BY <1>2, <2>4, <2>7
    <3>6. main'.pc \in {"serial", "launch"} /\ n > 0
      BY <1>8, <2>4, <2>7
    <3> QED
      BY <1>1, <1>2, <2>5, <3>1, <3>2, <3>3, <3>4, <3>5, <3>6 DEF ChainRight
  <2>17. MutexRight'
    <3>1. \A u \in DOMAIN tokens' : tokens'[u].thread = "adding" => u \in DOMAIN tokens /\ tokens[u].thread = "adding"
      BY <2>3, <2>5, <2>6
    <3> QED
      BY <1>1, <3>1 DEF IInv, MutexRight, Adding
  <2>18. Ordered'
    <3> SUFFICES ASSUME NoneSkipped', NEW u \in DOMAIN tokens', NEW p \in Ports, Passed(u, p)',
                        NEW t \in 1..u - 1
                 PROVE  Cleared(t, p)'
      BY DEF Ordered
    <3>1. NoneSkipped
      <4>1. \A v \in DOMAIN tokens : v \in DOMAIN tokens'
        BY <1>1, <2>5
      <4> QED
        BY <1>1, <2>5, <2>13, <4>1 DEF NoneSkipped
    <3>2. u \in DOMAIN tokens
      <4>1. ~Passed(n, p)'
        BY <2>3, <2>5, <2>9 DEF Passed
      <4> QED
        BY <2>6, <4>1
    <3>3. Passed(u, p)
      BY <1>1, <2>5, <3>2 DEF Passed
    <3>4. Cleared(t, p)
      BY <3>1, <3>2, <3>3 DEF IInv, Ordered
    <3>5. t \in DOMAIN tokens
      BY <1>9, <3>2
    <3> QED
      BY <2>5, <3>4, <3>5 DEF Cleared
  <2> QED
    BY <2>8, <2>9, <2>11, <2>12, <2>14, <2>15, <2>16, <2>17, <2>18 DEF IInv
<1> QED
  BY <1>3, <1>4, <1>5
-----------------------------------------------------------------------------
LEMMA InitIInv == Init => IInv
<1> SUFFICES ASSUME Init PROVE IInv
  OBVIOUS
<1>1. /\ m_tokens = <<>> /\ tokens = <<>> /\ prev = 0 /\ error = FALSE /\ added = [p \in Ports |-> 0]
      /\ main = [pc |-> "prepare", step |-> -1, block |-> -1, result |-> TRUE]
      /\ setup \in [mode : Modes, handling : Handlings, distribute : Distribute, style : Styles, rank : Ranks]
  BY DEF Init
<1>2. DOMAIN tokens = {} /\ Len(tokens) = 0 /\ Len(m_tokens) = 0
  BY <1>1
<1>3. main \in [pc : Places, step : Nat \cup {-1}, block : Int, result : BOOLEAN]
  BY <1>1 DEF Places
<1>4. m_tokens \in Seq(Nat) /\ tokens \in Seq(Tokens) /\ added \in [Ports -> Nat]
  BY <1>1
<1>5. Typed
  BY <1>1, <1>3, <1>4 DEF Typed
<1>6. TokensRight /\ PredecessorsRight /\ OnlyChainReads /\ Ordered /\ MutexRight
  BY <1>2 DEF TokensRight, PredecessorsRight, OnlyChainReads, Ordered, MutexRight, Adding
<1>7. ChainRight
  BY <1>1, <1>2 DEF ChainRight
<1>8. FailuresRight
  BY <1>1, <1>2 DEF FailuresRight
<1> QED
  BY <1>1, <1>2, <1>5, <1>6, <1>7, <1>8 DEF IInv

LEMMA StutteringIInv == IInv /\ UNCHANGED vars => IInv'
<1> SUFFICES ASSUME IInv, UNCHANGED vars PROVE IInv'
  OBVIOUS
<1>1. UNCHANGED <<setup, main, m_tokens, prev, tokens, error, added>>
  BY DEF vars
<1>2. Typed' /\ OnlyChainReads' /\ FailuresRight' /\ ChainRight'
  BY <1>1 DEF IInv, Typed, OnlyChainReads, FailuresRight, ChainRight, InChain, Reading, Returned, Serial
<1> QED
  BY <1>1, <1>2, TokensSame

LEMMA MainIInv == IInv /\ Main => IInv' /\ UNCHANGED added
<1> SUFFICES ASSUME IInv, Main PROVE IInv' /\ UNCHANGED added
  OBVIOUS
<1>1. IInv'
  BY PrepareIInv, BeginTimestepIInv, PartitionIInv, SerialDoneIInv, LaunchIInv, CancelIInv,
     EndTimestepIInv, AfterStaticIInv, LastReadersIInv, FinishReadIInv DEF Main
<1>2. UNCHANGED added
  BY DEF Main, Prepare, BeginTimestep, Partition, SerialDone, Launch, Cancel, EndTimestep,
         AfterStatic, LastReaders, FinishRead, WaitForReaders
<1> QED
  BY <1>1, <1>2

LEMMA ThreadIInv == \A t \in DOMAIN tokens : IInv /\ Thread(t) =>
  IInv' /\ (NoneSkipped => \A p \in Ports : added'[p] >= added[p])
<1> SUFFICES ASSUME NEW t \in DOMAIN tokens, IInv, Thread(t)
             PROVE  IInv' /\ (NoneSkipped => \A p \in Ports : added'[p] >= added[p])
  OBVIOUS
<1>1. CASE Lock(t)
  BY <1>1, LockIInv
<1>2. CASE \E p \in Ports : AddDirectly(t, p)
  BY <1>2, AddDirectlyIInv
<1>3. ASSUME UNCHANGED added PROVE \A p \in Ports : added'[p] >= added[p]
  BY <1>3 DEF IInv, Typed
<1>4. CASE \E p \in Ports : AddToPort(t, p)
  <2>1. IInv' /\ UNCHANGED added
    BY <1>4, AddToPortIInv DEF AddToPort
  <2> QED
    BY <1>3, <2>1
<1>5. CASE PortReady(t)
  <2>1. IInv' /\ UNCHANGED added
    BY <1>5, PortReadyIInv DEF PortReady
  <2> QED
    BY <1>3, <2>1
<1>6. CASE WaitPrevious(t)
  <2>1. IInv' /\ UNCHANGED added
    BY <1>6, WaitPreviousIInv DEF WaitPrevious
  <2> QED
    BY <1>3, <2>1
<1>7. CASE Added(t)
  <2>1. IInv' /\ UNCHANGED added
    BY <1>7, AddedIInv DEF Added
  <2> QED
    BY <1>3, <2>1
<1>8. CASE ReadReturns(t)
  <2>1. IInv' /\ UNCHANGED added
    BY <1>8, ReadReturnsIInv DEF ReadReturns
  <2> QED
    BY <1>3, <2>1
<1> QED
  BY <1>1, <1>2, <1>4, <1>5, <1>6, <1>7, <1>8 DEF Thread

LEMMA NextIInv ==
  IInv /\ [Next]_vars => IInv' /\ (NoneSkipped => \A p \in Ports : added'[p] >= added[p])
<1> SUFFICES ASSUME IInv, [Next]_vars
             PROVE  IInv' /\ (NoneSkipped => \A p \in Ports : added'[p] >= added[p])
  OBVIOUS
<1>1. ASSUME UNCHANGED added PROVE \A p \in Ports : added'[p] >= added[p]
  BY <1>1 DEF IInv, Typed
<1>2. CASE Main
  BY <1>1, <1>2, MainIInv
<1>3. CASE UNCHANGED vars
  <2>1. UNCHANGED added
    BY <1>3 DEF vars
  <2> QED
    BY <1>1, <1>3, <2>1, StutteringIInv
<1>4. CASE \E t \in DOMAIN tokens : Thread(t)
  BY <1>4, ThreadIInv
<1> QED
  BY <1>2, <1>3, <1>4 DEF Next

(* IInv is an invariant of the reader: the tokens and ports that prepare   *)
(* and the read threads see agree in every state.                          *)
THEOREM Invariance == Spec => []IInv
<1>1. Init => IInv
  BY InitIInv
<1>2. IInv /\ [Next]_vars => IInv'
  BY NextIInv
<1> QED
  BY <1>1, <1>2, PTL DEF Spec
-----------------------------------------------------------------------------
(* Objects are added to every port in the order of the units of work, by   *)
(* Token::addObject and by read methods that wait for the previous token,  *)
(* whichever threads are ahead and whichever reads fail.                   *)
THEOREM AddingInOrder == Spec => AddedInOrder
<1>1. IInv /\ [Next]_vars => [NoneSkipped => \A p \in Ports : added'[p] >= added[p]]_vars
  BY NextIInv
<1> QED
  BY <1>1, Invariance, PTL DEF Spec, AddedInOrder

LEMMA AtMostOne ==
  ASSUME NEW S, \A x, y \in S : x = y
  PROVE  Cardinality(S) <= 1
<1>1. CASE S = {}
  BY <1>1, FS_EmptySet
<1>2. CASE S # {}
  <2>1. PICK x : S = {x}
    BY <1>2
  <2> QED
    BY <2>1, FS_Singleton
<1> QED
  BY <1>1, <1>2

(* Two read threads never add objects at the same time, and none adds to a *)
(* port that has been declared ready: with the mutex of the reader, and    *)
(* without it when every read method waits for the previous token.         *)
THEOREM OneThreadAdds == Spec => []AddsAlone
<1>1. IInv => AddsAlone
  <2> SUFFICES ASSUME IInv PROVE AddsAlone
    OBVIOUS
  <2>1. \A t \in DOMAIN tokens : tokens[t] \in Tokens /\ TokenRight(tokens[t], t)
    BY TokenFields DEF IInv, TokensRight
  <2>2. DOMAIN tokens = 1..Len(tokens)
    BY LenProperties DEF IInv, Typed
  <2>3. \A t \in Adding : t \in DOMAIN tokens /\ tokens[t].thread = "adding"
    BY DEF Adding
  <2>4. \A t \in Adding : tokens[t].port \in tokens[t].todo /\ tokens[t].port \in Ports
    BY <2>1, <2>3 DEF TokenRight, Tokens
  <2>5. \A t \in Adding : ~tokens[t].finished /\ tokens[t].ports[tokens[t].port] # "ready"
    BY <2>1, <2>3, <2>4 DEF TokenRight
  <2>6. ASSUME NoneSkipped, setup.style = "Wait", NEW t \in Adding, NEW u \in Adding
        PROVE  ~(t < u)
    <3> SUFFICES ASSUME t < u PROVE FALSE
      OBVIOUS
    <3>1. tokens[u].waited
      BY <2>1, <2>3, <2>6 DEF TokenRight
    <3>2. tokens[u].previous = 0 \/ tokens[tokens[u].previous].finished
      BY <2>3, <3>1 DEF IInv, PredecessorsRight
    <3>3. \A v \in 1..u - 1 : Cleared(v, tokens[t].port)
      BY <2>3, <2>4, <2>6, <3>2, AllCleared
    <3>4. t \in 1..u - 1
      BY <2>2, <2>3
    <3> QED
      BY <2>3, <2>4, <3>3, <3>4 DEF Cleared
  <2>7. ASSUME NoneSkipped PROVE \A t, u \in Adding : t = u
    <3>1. CASE setup.style = "Token"
      BY <3>1 DEF IInv, MutexRight
    <3>2. CASE setup.style = "Wait"
      <4> SUFFICES ASSUME NEW t \in Adding, NEW u \in Adding PROVE t = u
        OBVIOUS
      <4>1. t \in Int /\ u \in Int
        BY <2>2, <2>3
      <4>2. ~(t < u) /\ ~(u < t)
        BY <2>6, <2>7, <3>2
      <4> QED
        BY <4>1, <4>2
    <3>3. setup.style \in {"Token", "Wait"}
      BY ReaderAssumption DEF IInv, Typed
    <3> QED
      BY <3>1, <3>2, <3>3
  <2> QED
    BY <2>5, <2>7, AtMostOne DEF AddsAlone
<1> QED
  BY <1>1, Invariance, PTL

(* When finishRead is called and prepare returns, no read thread is left,  *)
(* and a failed read has been reported by the module.                      *)
THEOREM FinishIsComplete == Spec => []FinishComplete
<1>1. IInv => FinishComplete
  <2> SUFFICES ASSUME IInv, main.pc \in {"finishRead", "done"}
               PROVE  /\ Running = {}
                      /\ (\E t \in DOMAIN tokens : Returned(t) /\ ~tokens[t].ok) => error
    BY DEF FinishComplete
  <2>1. m_tokens = <<>> /\ (main.result \/ error)
    BY DEF IInv, ChainRight, FailuresRight
  <2>2. /\ \A t \in DOMAIN tokens : ~Reading(t)
        /\ \A t \in DOMAIN tokens : Returned(t) /\ ~tokens[t].ok => ~main.result \/ error
    BY <2>1, NobodyReads
  <2> QED
    BY <2>1, <2>2 DEF Running
<1> QED
  BY <1>1, Invariance, PTL
-----------------------------------------------------------------------------
(* The number of tokens.  Main is at pc, in a step and at a block of it.   *)
Units(step) == (step + 1) * (Partitions + 1)

Budget(pc, step, block) ==
  CASE pc \in {"prepare", "timestep"} -> Units(step)
    [] pc = "partition" -> Units(step) + block + 1
    [] pc \in {"serial", "launch", "cancel"} -> Units(step) + block + 2
    [] pc \in {"end", "afterStatic"} -> Units(step + 1)
    [] OTHER -> Units(NumTimesteps + 1)

Within(pc, step, block, n) ==
  /\ step \in Nat \cup {-1} /\ (step <= NumTimesteps \/ step <= 0)
  /\ pc \in {"partition", "serial", "launch", "cancel", "end"} => step = -1 \/ step < NumTimesteps
  /\ pc \in {"prepare", "afterStatic"} => step = -1
  /\ block \in -1..Partitions
  /\ pc \in {"serial", "launch", "cancel"} => block < Partitions
  /\ n \in Nat /\ n <= Budget(pc, step, block)

WithinBudget ==
  /\ Within(main.pc, main.step, main.block, Len(tokens))
  /\ Len(m_tokens) <= Concurrency

LEMMA StepsTyped == NumTimesteps \in Int /\ NumTimesteps >= -1
<1>1. {First, Last, Increment} \subseteq Int /\ Increment # 0
  BY ReaderAssumption
<1>2. ASSUME NEW d \in Nat, NEW i \in Nat, i > 0
      PROVE  d \div i \in Nat
  BY <1>2
<1>3. CASE Increment > 0 /\ Last >= First
  <2>1. Last - First \in Nat /\ Increment \in Nat
    BY <1>1, <1>3
  <2>2. (Last - First) \div Increment \in Nat
    BY <1>2, <1>3, <2>1
  <2>3. NumTimesteps = (Last - First) \div Increment + 1
    BY <1>1, <1>3 DEF NumTimesteps
  <2> QED BY <2>2, <2>3
<1>4. CASE Increment < 0 /\ Last <= First
  <2>1. First - Last \in Nat /\ -Increment \in Nat /\ -Increment > 0
    BY <1>1, <1>4
  <2>2. (First - Last) \div (-Increment) \in Nat
    BY <1>2, <2>1
  <2>3. NumTimesteps = (First - Last) \div (-Increment) + 1
    BY <1>1, <1>4 DEF NumTimesteps
  <2> QED BY <2>2, <2>3
<1>5. CASE ~(Increment > 0 /\ Last >= First) /\ ~(Increment < 0 /\ Last <= First)
  BY <1>5 DEF NumTimesteps
<1> QED BY <1>3, <1>4, <1>5

LEMMA UnitsTyped ==
  /\ Units(-1) = 0
  /\ \A s \in Nat \cup {-1} : Units(s) \in Nat /\ Units(s + 1) = Units(s) + Partitions + 1
  /\ \A s, r \in Nat \cup {-1} : s <= r => Units(s) <= Units(r)
<1>1. Partitions \in Nat
  BY ReaderAssumption
<1> DEFINE k == Partitions + 1
<1>2. k \in Nat /\ k = Partitions + 1
  BY <1>1
<1> HIDE DEF k
<1>3. \A s : Units(s) = (s + 1) * k
  BY <1>2 DEF Units
<1>4. ASSUME NEW s \in Nat
      PROVE  s * k \in Nat /\ (s + 1) * k = s * k + k
  BY <1>2
<1>5. ASSUME NEW s \in Nat \cup {-1}
      PROVE  Units(s) \in Nat /\ Units(s + 1) = Units(s) + Partitions + 1
  <2>1. s + 1 \in Nat
    OBVIOUS
  <2>2. (s + 1) * k \in Nat /\ ((s + 1) + 1) * k = (s + 1) * k + k
    BY <1>4, <2>1
  <2> QED BY <1>1, <1>2, <1>3, <2>2
<1>6. ASSUME NEW s \in Nat \cup {-1}, NEW r \in Nat \cup {-1}, s <= r
      PROVE  Units(s) <= Units(r)
  <2>1. s + 1 \in Nat /\ r - s \in Nat /\ r + 1 = (s + 1) + (r - s)
    BY <1>6
  <2>2. ASSUME NEW a \in Nat, NEW b \in Nat
        PROVE  a * k <= (a + b) * k
    <3>1. (a + b) * k = a * k + b * k /\ a * k \in Nat /\ b * k \in Nat
      BY <1>2
    <3> QED BY <3>1
  <2>3. (s + 1) * k <= ((s + 1) + (r - s)) * k
    BY <2>1, <2>2
  <2> QED BY <1>3, <2>1, <2>3
<1>7. Units(-1) = 0
  BY <1>2, <1>3
<1> QED BY <1>5, <1>6, <1>7

(* How the main thread proceeds, in units.                                 *)
LEMMA Proceeds ==
  ASSUME NEW pc, NEW s, NEW b, NEW n, Within(pc, s, b, n)
  PROVE  /\ pc = "prepare" => Within("timestep", s, b, n) /\ Within("done", s, b, n)
         /\ pc = "timestep" /\ ~(s >= 0 /\ s >= NumTimesteps) => Within("partition", s, -1, n)
         /\ pc \in {"timestep", "end"} => Within("finishRead", s, b, n) /\ Within("last", s, b, n)
         /\ pc = "end" /\ s = -1 => Within("afterStatic", s, b, n)
         /\ pc = "end" /\ s # -1 => Within("timestep", s + 1, b, n)
         /\ pc = "afterStatic" => Within("timestep", 0, b, n)
         /\ pc \in {"afterStatic", "last"} => Within("finishRead", s, b, n)
         /\ pc = "finishRead" => Within("done", s, b, n)
         /\ pc \in {"partition", "serial", "launch", "cancel"} => Within("end", s, b, n)
         /\ pc \in {"serial", "launch"} => Within("cancel", s, b, n)
         /\ pc = "partition" /\ b < Partitions => /\ Within("cancel", s, b, n)
                                                  /\ Within("serial", s, b, n + 1)
                                                  /\ Within("launch", s, b, n + 1)
         /\ pc = "cancel" => Within("partition", s, b + 1, n)
         /\ n <= Units(NumTimesteps + 1)
<1>1. /\ Partitions \in Nat /\ NumTimesteps \in Int /\ NumTimesteps >= -1
      /\ s \in Nat \cup {-1} /\ (s <= NumTimesteps \/ s <= 0) /\ b \in -1..Partitions /\ n \in Nat
  BY ReaderAssumption, StepsTyped DEF Within
<1> DEFINE N == NumTimesteps
<1> HIDE DEF N
<1>2. /\ Units(-1) = 0 /\ Units(s) \in Nat /\ Units(s + 1) = Units(s) + Partitions + 1
      /\ N + 1 \in Nat /\ Units(N + 1) \in Nat
      /\ 0 <= N + 1 /\ Units(0) <= Units(N + 1) /\ Units(0) = Partitions + 1
      /\ s <= N + 1 => Units(s) <= Units(N + 1)
      /\ s + 1 <= N + 1 => Units(s + 1) <= Units(N + 1)
  <2>1. N + 1 \in Nat /\ 0 <= N + 1
    BY <1>1 DEF N
  <2>2. s + 1 \in Nat \cup {-1} /\ N + 1 \in Nat \cup {-1} /\ 0 \in Nat \cup {-1} /\ -1 \in Nat \cup {-1}
    BY <1>1, <2>1
  <2>3. Units(-1 + 1) = Units(-1) + Partitions + 1 /\ -1 + 1 = 0
    BY <2>2, UnitsTyped
  <2>4. Units(0) = Partitions + 1
    BY <1>1, <2>3, UnitsTyped
  <2>5. /\ Units(-1) = 0 /\ Units(s) \in Nat /\ Units(s + 1) = Units(s) + Partitions + 1
        /\ Units(N + 1) \in Nat /\ Units(0) <= Units(N + 1)
    BY <1>1, <2>1, <2>2, UnitsTyped
  <2>6. /\ s <= N + 1 => Units(s) <= Units(N + 1)
        /\ s + 1 <= N + 1 => Units(s + 1) <= Units(N + 1)
    BY <1>1, <2>2, UnitsTyped
  <2> QED BY <2>1, <2>4, <2>5, <2>6
<1>3. n <= Units(N + 1) \/ pc \in {"partition", "serial", "launch", "cancel", "end"}
  BY <1>1, <1>2 DEF Within, Budget, N
<1>4. pc \in {"timestep", "end"} => n <= Units(N + 1)
  BY <1>1, <1>2 DEF Within, Budget, N
<1>5. pc = "prepare" => Within("timestep", s, b, n) /\ Within("done", s, b, n)
  BY <1>1, <1>2, <1>3 DEF Within, Budget, N
<1>6. pc = "timestep" /\ ~(s >= 0 /\ s >= NumTimesteps) => Within("partition", s, -1, n)
  BY <1>1, <1>2 DEF Within, Budget, N
<1>7. pc \in {"timestep", "end"} => Within("finishRead", s, b, n) /\ Within("last", s, b, n)
  BY <1>1, <1>2, <1>4 DEF Within, Budget, N
<1>8. /\ pc = "end" /\ s = -1 => Within("afterStatic", s, b, n)
      /\ pc = "end" /\ s # -1 => Within("timestep", s + 1, b, n)
      /\ pc = "afterStatic" => Within("timestep", 0, b, n)
  BY <1>1, <1>2 DEF Within, Budget, N
<1>9. /\ pc \in {"afterStatic", "last"} => Within("finishRead", s, b, n)
      /\ pc = "finishRead" => Within("done", s, b, n)
  BY <1>1, <1>2, <1>3 DEF Within, Budget, N
<1>10. /\ pc \in {"partition", "serial", "launch", "cancel"} => Within("end", s, b, n)
       /\ pc \in {"serial", "launch"} => Within("cancel", s, b, n)
  BY <1>1, <1>2 DEF Within, Budget, N
<1>11. pc = "partition" /\ b < Partitions => /\ Within("cancel", s, b, n)
                                             /\ Within("serial", s, b, n + 1)
                                             /\ Within("launch", s, b, n + 1)
  BY <1>1, <1>2 DEF Within, Budget, N
<1>12. pc = "cancel" => Within("partition", s, b + 1, n)
  BY <1>1, <1>2 DEF Within, Budget, N
<1>13. pc \in {"partition", "serial", "launch", "cancel"} => n <= Units(s + 1) /\ s + 1 <= N + 1
  BY <1>1, <1>2 DEF Within, Budget, N
<1>14. n <= Units(N + 1)
  BY <1>1, <1>2, <1>3, <1>4, <1>13
<1> QED BY <1>5, <1>6, <1>7, <1>8, <1>9, <1>10, <1>11, <1>12, <1>14 DEF N

LEMMA AppendLen ==
  ASSUME NEW X, NEW q \in Seq(X), NEW e
  PROVE  Len(Append(q, e)) = Len(q) + 1
<1>1. q \in Seq(X \cup {e})
  <2>1. Len(q) \in Nat /\ q \in [1..Len(q) -> X]
    BY LenProperties, ElementOfSeq
  <2> QED BY <2>1
<1> QED BY <1>1, AppendProperties

(* What the main thread leaves alone does not matter.                      *)
LEMMA BudgetKept ==
  ASSUME IInv, IInv', WithinBudget, DOMAIN tokens' = DOMAIN tokens,
         UNCHANGED <<main, m_tokens>>
  PROVE  WithinBudget'
<1>1. tokens \in Seq(Tokens) /\ tokens' \in Seq(Tokens)
  BY DEF IInv, Typed
<1>2. Len(tokens') = Len(tokens)
  <2>1. /\ DOMAIN tokens = 1..Len(tokens) /\ Len(tokens) \in Nat
        /\ DOMAIN tokens' = 1..Len(tokens') /\ Len(tokens') \in Nat
    BY <1>1, LenProperties
  <2> QED BY <2>1
<1> QED BY <1>2 DEF WithinBudget

LEMMA ThreadBudget ==
  ASSUME IInv, IInv', WithinBudget, NEW t \in DOMAIN tokens, Thread(t)
  PROVE  WithinBudget'
<1>1. UNCHANGED <<main, m_tokens>> /\ DOMAIN tokens' = DOMAIN tokens
  <2>1. CASE \E p \in Ports : AddToPort(t, p) \/ AddDirectly(t, p)
    BY <2>1 DEF AddToPort, AddDirectly, Adds
  <2>2. CASE PortReady(t) \/ Lock(t) \/ ReadReturns(t) \/ Added(t)
    BY <2>2 DEF PortReady, Lock, ReadReturns, Added, Adds
  <2>3. CASE WaitPrevious(t)
    BY <2>3 DEF WaitPrevious, Finish
  <2> QED BY <2>1, <2>2, <2>3 DEF Thread
<1> QED BY <1>1, BudgetKept

(* The main thread goes on without starting a unit.                        *)
LEMMA GoesOn ==
  ASSUME WithinBudget, UNCHANGED <<m_tokens, tokens>>,
         Within(main'.pc, main'.step, main'.block, Len(tokens))
  PROVE  WithinBudget'
BY DEF WithinBudget

LEMMA PopBudget ==
  ASSUME IInv, IInv', WithinBudget, Len(m_tokens) > 0, Pop
  PROVE  WithinBudget'
<1>1. /\ main' = [main EXCEPT !.result = @ /\ Succeeded(Head(m_tokens))]
      /\ m_tokens' = Tail(m_tokens) /\ DOMAIN tokens' = DOMAIN tokens
  BY DEF Pop, Finish
<1>2. main'.pc = main.pc /\ main'.step = main.step /\ main'.block = main.block
  BY <1>1 DEF IInv, Typed
<1>3. Len(tokens') = Len(tokens)
  <2>1. tokens \in Seq(Tokens) /\ tokens' \in Seq(Tokens)
    BY DEF IInv, Typed
  <2>2. /\ DOMAIN tokens = 1..Len(tokens) /\ Len(tokens) \in Nat
        /\ DOMAIN tokens' = 1..Len(tokens') /\ Len(tokens') \in Nat
    BY <2>1, LenProperties
  <2> QED BY <1>1, <2>2
<1>4. Len(m_tokens') = Len(m_tokens) - 1 /\ Len(m_tokens) \in Nat
  <2>1. m_tokens \in Seq(Nat) /\ m_tokens # <<>> /\ Len(m_tokens) \in Nat
    BY ChainLength DEF IInv, Typed
  <2> QED BY <1>1, <2>1, HeadTailProperties
<1>5. Len(m_tokens') <= Concurrency
  BY <1>4, ReaderAssumption DEF WithinBudget
<1> QED BY <1>2, <1>3, <1>5 DEF WithinBudget

(* Leave is reached from the end of a step, or at once from its start.     *)
LEMMA LeaveBudget ==
  ASSUME IInv, WithinBudget, NEW result \in BOOLEAN, Leave(result),
         main.pc = "end" \/ (main.pc = "timestep" /\ ~result)
  PROVE  Within(main'.pc, main'.step, main'.block, Len(tokens))
<1> DEFINE s == main.step
           b == main.block
           n == Len(tokens)
<1>1. /\ main \in [pc : Places, step : Nat \cup {-1}, block : Int, result : BOOLEAN]
      /\ Within(main.pc, s, b, n)
  BY DEF IInv, Typed, WithinBudget
<1>2. CASE s = -1
  <2>1. main' = [main EXCEPT !.result = result, !.pc = IF result THEN "afterStatic" ELSE "finishRead"]
    BY <1>2 DEF Leave
  <2>2. main'.pc = (IF result THEN "afterStatic" ELSE "finishRead") /\ main'.step = s /\ main'.block = b
    BY <1>1, <2>1
  <2> HIDE DEF s, b, n
  <2>3. Within(main'.pc, main'.step, main'.block, n)
    BY <1>1, <1>2, <2>2, Proceeds
  <2> QED BY <2>3 DEF n
<1>3. CASE s # -1
  <2>1. main' = [main EXCEPT !.result = result, !.pc = IF result THEN "timestep" ELSE "last",
                             !.step = IF result THEN main.step + 1 ELSE main.step]
    BY <1>3 DEF Leave
  <2>2. CASE result
    <3>1. main'.pc = "timestep" /\ main'.step = s + 1 /\ main'.block = b
      BY <1>1, <2>1, <2>2
    <3> HIDE DEF s, b, n
    <3>2. Within(main'.pc, main'.step, main'.block, n)
      BY <1>1, <1>3, <2>2, <3>1, Proceeds
    <3> QED BY <3>2 DEF n
  <2>3. CASE ~result
    <3>1. main'.pc = "last" /\ main'.step = s /\ main'.block = b
      BY <1>1, <2>1, <2>3
    <3> HIDE DEF s, b, n
    <3>2. Within(main'.pc, main'.step, main'.block, n)
      BY <1>1, <2>3, <3>1, Proceeds
    <3> QED BY <3>2 DEF n
  <2> QED BY <2>2, <2>3
<1> QED BY <1>2, <1>3

LEMMA GotoFields ==
  ASSUME IInv, NEW pc, Goto(pc)
  PROVE  main'.pc = pc /\ main'.step = main.step /\ main'.block = main.block
BY DEF Goto, IInv, Typed

(* The actions of the main thread that neither start nor await a unit.     *)
LEMMA PlainBudget ==
  ASSUME IInv, WithinBudget, Prepare \/ BeginTimestep \/ SerialDone \/ Cancel \/ FinishRead
  PROVE  WithinBudget'
<1> DEFINE s == main.step
           b == main.block
           n == Len(tokens)
<1>1. /\ main \in [pc : Places, step : Nat \cup {-1}, block : Int, result : BOOLEAN]
      /\ Within(main.pc, s, b, n)
  BY DEF IInv, Typed, WithinBudget
<1>2. CASE Prepare
  <2>1. /\ main.pc = "prepare" /\ UNCHANGED <<m_tokens, tokens>>
        /\ Goto("timestep") \/ Goto("done")
    BY <1>2 DEF Prepare, At
  <2>2. main'.pc \in {"timestep", "done"} /\ main'.step = s /\ main'.block = b
    BY <2>1, GotoFields
  <2> HIDE DEF s, b, n
  <2>3. Within(main'.pc, main'.step, main'.block, n)
    BY <1>1, <2>1, <2>2, Proceeds
  <2> QED BY <2>1, <2>3, GoesOn DEF n
<1>3. CASE BeginTimestep
  <2>1. main.pc = "timestep" /\ UNCHANGED <<m_tokens, tokens>>
    BY <1>3 DEF BeginTimestep, At
  <2>2. CASE Goto("last")
    <3>1. main'.pc = "last" /\ main'.step = s /\ main'.block = b
      BY <2>2, GotoFields
    <3> HIDE DEF s, b, n
    <3>2. Within(main'.pc, main'.step, main'.block, n)
      BY <1>1, <2>1, <3>1, Proceeds
    <3> QED BY <2>1, <3>2, GoesOn DEF n
  <2>3. CASE /\ ~(main.step >= 0 /\ main.step >= NumTimesteps)
             /\ main' = [main EXCEPT !.pc = "partition", !.block = -1, !.result = TRUE]
    <3>1. main'.pc = "partition" /\ main'.step = s /\ main'.block = -1
      BY <1>1, <2>3
    <3>2. ~(s >= 0 /\ s >= NumTimesteps)
      BY <2>3
    <3> HIDE DEF s, b, n
    <3>3. Within(main'.pc, main'.step, main'.block, n)
      BY <1>1, <2>1, <3>1, <3>2, Proceeds
    <3> QED BY <2>1, <3>3, GoesOn DEF n
  <2>4. CASE Leave(FALSE)
    BY <2>1, <2>4, LeaveBudget, GoesOn
  <2> QED BY <1>3, <2>2, <2>3, <2>4 DEF BeginTimestep
<1>4. CASE SerialDone
  <2>1. /\ main.pc = "serial" /\ UNCHANGED <<m_tokens, tokens>>
        /\ main' = [main EXCEPT !.result = tokens[Len(tokens)].ok,
                                !.pc = IF tokens[Len(tokens)].ok THEN "cancel" ELSE "end"]
    BY <1>4 DEF SerialDone, At
  <2>2. main'.pc \in {"cancel", "end"} /\ main'.step = s /\ main'.block = b
    BY <1>1, <2>1
  <2> HIDE DEF s, b, n
  <2>3. Within(main'.pc, main'.step, main'.block, n)
    BY <1>1, <2>1, <2>2, Proceeds
  <2> QED BY <2>1, <2>3, GoesOn DEF n
<1>5. CASE Cancel
  <2>1. main.pc = "cancel" /\ UNCHANGED <<m_tokens, tokens>>
    BY <1>5 DEF Cancel, At
  <2>2. \/ main'.pc = "partition" /\ main'.step = s /\ main'.block = b + 1
        \/ main'.pc = "end" /\ main'.step = s /\ main'.block = b
    BY <1>1, <1>5 DEF Cancel
  <2> HIDE DEF s, b, n
  <2>3. Within(main'.pc, main'.step, main'.block, n)
    BY <1>1, <2>1, <2>2, Proceeds
  <2> QED BY <2>1, <2>3, GoesOn DEF n
<1>6. CASE FinishRead
  <2>1. main.pc = "finishRead" /\ UNCHANGED <<m_tokens, tokens>> /\ Goto("done")
    BY <1>6 DEF FinishRead, At
  <2>2. main'.pc = "done" /\ main'.step = s /\ main'.block = b
    BY <2>1, GotoFields
  <2> HIDE DEF s, b, n
  <2>3. Within(main'.pc, main'.step, main'.block, n)
    BY <1>1, <2>1, <2>2, Proceeds
  <2> QED BY <2>1, <2>3, GoesOn DEF n
<1> QED BY <1>2, <1>3, <1>4, <1>5, <1>6

(* The actions that wait for readers.                                      *)
LEMMA WaitingBudget ==
  ASSUME IInv, IInv', WithinBudget, EndTimestep \/ AfterStatic \/ LastReaders
  PROVE  WithinBudget'
<1> DEFINE s == main.step
           b == main.block
           n == Len(tokens)
<1>1. /\ main \in [pc : Places, step : Nat \cup {-1}, block : Int, result : BOOLEAN]
      /\ Within(main.pc, s, b, n) /\ Len(m_tokens) \in Nat
  BY ChainLength DEF IInv, Typed, WithinBudget
<1>2. CASE EndTimestep
  <2>1. main.pc = "end" /\ main.result \in BOOLEAN
    BY <1>1, <1>2 DEF EndTimestep, At
  <2>2. CASE Leave(main.result) /\ UNCHANGED <<m_tokens, tokens>>
    BY <2>1, <2>2, LeaveBudget, GoesOn
  <2>3. CASE Len(m_tokens) > 0 /\ Pop
    BY <2>3, PopBudget
  <2> QED BY <1>1, <1>2, <2>2, <2>3 DEF EndTimestep, WaitForReaders, Pop
<1>3. CASE AfterStatic
  <2>1. main.pc = "afterStatic"
    BY <1>3 DEF AfterStatic, At
  <2>2. CASE main' = [main EXCEPT !.step = 0, !.pc = "timestep"] /\ UNCHANGED <<m_tokens, tokens>>
    <3>1. main'.pc = "timestep" /\ main'.step = 0 /\ main'.block = b
      BY <1>1, <2>2
    <3> HIDE DEF s, b, n
    <3>2. Within(main'.pc, main'.step, main'.block, n)
      BY <1>1, <2>1, <3>1, Proceeds
    <3> QED BY <2>2, <3>2, GoesOn DEF n
  <2>3. CASE Goto("finishRead") /\ UNCHANGED <<m_tokens, tokens>>
    <3>1. main'.pc = "finishRead" /\ main'.step = s /\ main'.block = b
      BY <2>3, GotoFields
    <3> HIDE DEF s, b, n
    <3>2. Within(main'.pc, main'.step, main'.block, n)
      BY <1>1, <2>1, <3>1, Proceeds
    <3> QED BY <2>3, <3>2, GoesOn DEF n
  <2>4. CASE Len(m_tokens) > 0 /\ Pop
    BY <2>4, PopBudget
  <2> QED BY <1>1, <1>3, <2>2, <2>3, <2>4 DEF AfterStatic, WaitForReaders, Pop
<1>4. CASE LastReaders
  <2>1. main.pc = "last"
    BY <1>4 DEF LastReaders, At
  <2>2. CASE Goto("finishRead") /\ UNCHANGED <<m_tokens, tokens>>
    <3>1. main'.pc = "finishRead" /\ main'.step = s /\ main'.block = b
      BY <2>2, GotoFields
    <3> HIDE DEF s, b, n
    <3>2. Within(main'.pc, main'.step, main'.block, n)
      BY <1>1, <2>1, <3>1, Proceeds
    <3> QED BY <2>2, <3>2, GoesOn DEF n
  <2>3. CASE Len(m_tokens) > 0 /\ Pop
    BY <2>3, PopBudget
  <2> QED BY <1>1, <1>4, <2>2, <2>3 DEF LastReaders, WaitForReaders, Pop
<1> QED BY <1>2, <1>3, <1>4

LEMMA PartitionBudget ==
  ASSUME IInv, WithinBudget, Partition
  PROVE  WithinBudget'
<1> DEFINE s == main.step
           b == main.block
           n == Len(tokens)
<1>1. /\ main \in [pc : Places, step : Nat \cup {-1}, block : Int, result : BOOLEAN]
      /\ Within(main.pc, s, b, n)
  BY DEF IInv, Typed, WithinBudget
<1>2. main.pc = "partition" /\ UNCHANGED m_tokens
  BY DEF Partition, At
<1>3. NumPart(main.step) \in {0, Partitions} /\ Partitions \in Nat
  BY ReaderAssumption DEF NumPart
<1>4. CASE Goto("end") /\ UNCHANGED tokens
  <2>1. main'.pc = "end" /\ main'.step = s /\ main'.block = b
    BY <1>4, GotoFields
  <2> HIDE DEF s, b, n
  <2>2. Within(main'.pc, main'.step, main'.block, n)
    BY <1>1, <1>2, <2>1, Proceeds
  <2> QED BY <1>2, <1>4, <2>2, GoesOn DEF n
<1>5. ASSUME ~(main.block >= NumPart(main.step))
      PROVE  b < Partitions
  BY <1>1, <1>3, <1>5
<1>6. CASE ~(main.block >= NumPart(main.step)) /\ Goto("cancel") /\ UNCHANGED tokens
  <2>1. main'.pc = "cancel" /\ main'.step = s /\ main'.block = b
    BY <1>6, GotoFields
  <2> HIDE DEF s, b, n
  <2>2. Within(main'.pc, main'.step, main'.block, n)
    BY <1>1, <1>2, <1>5, <1>6, <2>1, Proceeds
  <2> QED BY <1>2, <1>6, <2>2, GoesOn DEF n
<1>7. ASSUME ~(main.block >= NumPart(main.step)), NEW tok, tokens' = Append(tokens, tok),
             Goto("serial") \/ Goto("launch")
      PROVE  WithinBudget'
  <2>1. main'.pc \in {"serial", "launch"} /\ main'.step = s /\ main'.block = b
    BY <1>7, GotoFields
  <2>2. Len(tokens') = n + 1
    <3>1. tokens \in Seq(Tokens)
      BY DEF IInv, Typed
    <3> QED BY <1>7, <3>1, AppendLen
  <2> HIDE DEF s, b, n
  <2>3. Within(main'.pc, main'.step, main'.block, Len(tokens'))
    BY <1>1, <1>2, <1>5, <1>7, <2>1, <2>2, Proceeds
  <2> QED BY <1>2, <2>3 DEF WithinBudget
<1> QED BY <1>4, <1>6, <1>7 DEF Partition

LEMMA LaunchBudget ==
  ASSUME IInv, IInv', WithinBudget, Launch
  PROVE  WithinBudget'
<1> DEFINE s == main.step
           b == main.block
           n == Len(tokens)
<1>1. /\ main \in [pc : Places, step : Nat \cup {-1}, block : Int, result : BOOLEAN]
      /\ Within(main.pc, s, b, n) /\ Len(m_tokens) \in Nat /\ m_tokens \in Seq(Nat)
  BY ChainLength DEF IInv, Typed, WithinBudget
<1>2. main.pc = "launch" /\ Concurrency \in Nat /\ Concurrency > 0
  BY ReaderAssumption DEF Launch, At
<1>3. CASE Len(m_tokens) > Concurrency - 1 /\ Pop
  <2>1. Len(m_tokens) > 0
    BY <1>1, <1>2, <1>3
  <2> QED BY <1>3, <2>1, PopBudget
<1>4. CASE Goto("end") /\ UNCHANGED <<m_tokens, tokens>>
  <2>1. main'.pc = "end" /\ main'.step = s /\ main'.block = b
    BY <1>4, GotoFields
  <2> HIDE DEF s, b, n
  <2>2. Within(main'.pc, main'.step, main'.block, n)
    BY <1>1, <1>2, <2>1, Proceeds
  <2> QED BY <1>4, <2>2, GoesOn DEF n
<1>5. CASE /\ Len(m_tokens) <= Concurrency - 1 /\ Goto("cancel")
           /\ m_tokens' = Append(m_tokens, Len(tokens))
           /\ tokens' = [tokens EXCEPT ![Len(tokens)].thread = "reading"]
  <2>1. main'.pc = "cancel" /\ main'.step = s /\ main'.block = b
    BY <1>5, GotoFields
  <2>2. Len(tokens') = n
    <3>1. tokens \in Seq(Tokens) /\ tokens' \in Seq(Tokens) /\ DOMAIN tokens' = DOMAIN tokens
      BY <1>5 DEF IInv, Typed
    <3>2. /\ DOMAIN tokens = 1..Len(tokens) /\ Len(tokens) \in Nat
          /\ DOMAIN tokens' = 1..Len(tokens') /\ Len(tokens') \in Nat
      BY <3>1, LenProperties
    <3> QED BY <3>1, <3>2
  <2>3. Len(m_tokens') = Len(m_tokens) + 1
    BY <1>1, <1>5, AppendLen
  <2>4. Len(m_tokens') <= Concurrency
    BY <1>1, <1>2, <1>5, <2>3
  <2> HIDE DEF s, b, n
  <2>5. Within(main'.pc, main'.step, main'.block, Len(tokens'))
    BY <1>1, <1>2, <2>1, <2>2, Proceeds
  <2> QED BY <2>4, <2>5 DEF WithinBudget
<1>6. \/ Len(m_tokens) > Concurrency - 1 /\ Pop
      \/ Goto("end") /\ UNCHANGED <<m_tokens, tokens>>
      \/ /\ Len(m_tokens) <= Concurrency - 1 /\ Goto("cancel")
         /\ m_tokens' = Append(m_tokens, Len(tokens))
         /\ tokens' = [tokens EXCEPT ![Len(tokens)].thread = "reading"]
  BY <1>1, <1>2 DEF Launch, WaitForReaders, Pop, OthersAtMost
<1> QED BY <1>3, <1>4, <1>5, <1>6

LEMMA NextBudget ==
  ASSUME IInv, WithinBudget, [Next]_vars
  PROVE  WithinBudget'
<1>1. IInv'
  BY NextIInv
<1>2. CASE Main
  BY <1>1, <1>2, PlainBudget, WaitingBudget, PartitionBudget, LaunchBudget DEF Main
<1>3. CASE \E t \in DOMAIN tokens : Thread(t)
  BY <1>1, <1>3, ThreadBudget
<1>4. CASE UNCHANGED vars
  BY <1>4 DEF vars, WithinBudget
<1> QED BY <1>2, <1>3, <1>4 DEF Next

LEMMA InitBudget ==
  ASSUME Init
  PROVE  WithinBudget
<1>1. /\ main.pc = "prepare" /\ main.step = -1 /\ main.block = -1
      /\ Len(tokens) = 0 /\ Len(m_tokens) = 0
  BY EmptySeq DEF Init
<1>2. Partitions \in Nat /\ Concurrency \in Nat /\ -1 \in -1..Partitions
  BY ReaderAssumption
<1>3. Units(-1) = 0
  BY UnitsTyped
<1> QED BY <1>1, <1>2, <1>3 DEF WithinBudget, Within, Budget

(* No more units are read than the data has and no more at a time than     *)
(* allowed, and the tokens refer to each other and to ports as they should: *)
(* TypeOK in every state.                                                  *)
THEOREM TypeCorrect == Spec => []TypeOK
<1>1. IInv /\ WithinBudget => TypeOK
  <2> SUFFICES ASSUME IInv, WithinBudget
               PROVE  TypeOK
    OBVIOUS
  <2>1. /\ main \in [pc : Places, step : Nat \cup {-1}, block : Int, result : BOOLEAN]
        /\ error \in BOOLEAN /\ prev \in Nat
        /\ Within(main.pc, main.step, main.block, Len(tokens))
    BY DEF IInv, Typed, WithinBudget
  <2>2. Partitions \in Nat /\ NumTimesteps \in Int /\ NumTimesteps >= -1
    BY ReaderAssumption, StepsTyped
  <2>3. main.step \in -1..NumTimesteps + 1 /\ main.block \in -1..Partitions
    BY <2>1, <2>2 DEF Within
  <2>4. Len(tokens) <= MaxTokens
    <3>1. MaxTokens = Units(NumTimesteps + 1)
      BY <2>2 DEF MaxTokens, Units
    <3>2. Len(tokens) <= Units(NumTimesteps + 1)
      BY <2>1, Proceeds
    <3> QED BY <3>1, <3>2
  <2>5. /\ DOMAIN tokens = 1..Len(tokens) /\ Len(tokens) \in Nat
        /\ \A t \in DOMAIN tokens : tokens[t] \in Tokens /\ TokenRight(tokens[t], t)
    BY LenProperties, TokenFields DEF IInv, Typed, TokensRight
  <2>6. \A t \in DOMAIN tokens :
          /\ tokens[t].previous \in 0..(t - 1) /\ tokens[t].port \in Ports \cup {"none"}
          /\ tokens[t].thread \in {"none", "reading", "wait", "lock", "adding", "returned"}
          /\ tokens[t].ports \in [Ports -> {"none", "asked", "ready"}]
    BY <2>5 DEF TokenRight, Tokens, Activities
  <2>7. prev \in 0..Len(tokens) /\ \A i \in DOMAIN m_tokens : m_tokens[i] \in DOMAIN tokens
    <3>1. Len(m_tokens) \in Nat /\ DOMAIN m_tokens = 1..Len(m_tokens)
      BY ChainLength DEF IInv
    <3>2. Len(m_tokens) <= prev /\ \A i \in 1..Len(m_tokens) : m_tokens[i] = prev - Len(m_tokens) + i
      BY DEF IInv, ChainRight
    <3>3. prev \in Nat /\ Len(tokens) \in Nat /\ prev <= Len(tokens)
      <4>1. prev \in Nat /\ Len(tokens) \in Nat
        BY <2>1, <2>5
      <4>2. prev = 0 \/ prev = Len(tokens) \/ prev = Len(tokens) - 1
        BY DEF IInv, ChainRight
      <4> QED BY <4>1, <4>2
    <3>4. ASSUME NEW i \in 1..Len(m_tokens)
          PROVE  m_tokens[i] \in 1..Len(tokens)
      <4>1. Len(m_tokens) \in Nat /\ m_tokens[i] = prev - Len(m_tokens) + i /\ Len(m_tokens) <= prev
        BY <3>1, <3>2
      <4> QED BY <3>3, <4>1
    <3> QED BY <2>1, <2>5, <3>1, <3>3, <3>4
  <2>8. added \in [Ports -> 0..Len(tokens)]
    BY <2>5 DEF IInv, Typed
  <2> QED BY <2>1, <2>3, <2>4, <2>6, <2>7, <2>8 DEF TypeOK, WithinBudget, Places
<1>2. Init => WithinBudget
  BY InitBudget
<1>3. IInv /\ WithinBudget /\ [Next]_vars => WithinBudget'
  BY NextBudget
<1> QED BY <1>1, <1>2, <1>3, Invariance, PTL DEF Spec
=============================================================================
