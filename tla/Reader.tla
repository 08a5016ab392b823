-------------------------------- MODULE Reader --------------------------------
(***************************************************************************)
(* How a read module on one rank works through timesteps and partitions    *)
(* (lib/vistle/module/reader.cpp).  The main thread starts a thread for    *)
(* every unit of work, up to a number at a time, and waits for the oldest  *)
(* when there are too many.  The Token of a unit links it to the previous  *)
(* one: an object is added to a port only after the previous unit has      *)
(* added to this port, or has finished.                                    *)
(***************************************************************************)
EXTENDS Integers, Sequences, FiniteSets

CONSTANTS
  NumRanks, FirstRank,      \* comm().size(), first_rank
  Partitions,               \* m_numPartitions
  First, Last, Increment,   \* timesteps to read
  Concurrency,              \* how many units are read at a time
  Modes,                    \* values of m_parallel
  Handlings,                \* values of m_handlePartitions
  Distribute,               \* values of distribute_time
  Ports,                    \* output ports
  Styles,                   \* how read() adds objects: "Token", or "Wait"
  Failures                  \* bound: whether anything fails or is cancelled

Ranks == 0..(NumRanks - 1)

ASSUME ReaderAssumption ==
  /\ NumRanks \in Nat \ {0} /\ FirstRank \in Ranks /\ Partitions \in Nat
  /\ {First, Last, Increment} \subseteq Int /\ Increment # 0
  /\ Concurrency \in Nat \ {0}
  /\ Modes \subseteq {"Serial", "Blocks", "AfterStatic", "TimeAndBlocks"}
  /\ Handlings \subseteq {"Monolithic", "PartitionTimesteps", "Partition"}
  /\ Distribute \subseteq BOOLEAN /\ Styles \subseteq {"Token", "Wait"} /\ Failures \in BOOLEAN

VARIABLES
  setup,      \* what the reader is configured for, and its rank
  main,       \* prepare, readTimesteps and readTimestep of the main thread
  m_tokens,   \* the tokens the main thread has to wait for
  prev,       \* the last token in the chain, 0 if there is none
  tokens,     \* all tokens, in the order of their m_id
  error,      \* whether prepare has reported an error
  added       \* for each port, the token that has added an object last

vars == <<setup, main, m_tokens, prev, tokens, error, added>>

(* Token: its unit, its predecessor, what its thread is doing and has left *)
(* to do, and its members m_finished, m_result and m_ports.                *)
Token(step, block) ==
  [step |-> step, block |-> block, previous |-> prev, thread |-> "none", port |-> "none",
   todo |-> Ports, waited |-> FALSE, ok |-> TRUE,
   finished |-> FALSE, result |-> FALSE, ports |-> [p \in Ports |-> "none"]]

Reading(t)  == tokens[t].thread \notin {"none", "returned"}
Returned(t) == tokens[t].thread = "returned"
-----------------------------------------------------------------------------
(* Units of work *)

(* calc_numtime.                                                           *)
NumTimesteps ==
  CASE Increment > 0 /\ Last >= First -> (Last - First) \div Increment + 1
    [] Increment < 0 /\ Last <= First -> (First - Last) \div (-Increment) + 1
    [] OTHER -> -1

(* rankForTimestepAndPartition, for p >= 0 or without partitions.          *)
RankFor(t, p) ==
  LET np == CASE Partitions < 1 -> 1
              [] Partitions = NumRanks -> Partitions + 1
              [] OTHER -> Partitions
      time  == IF t < 0 \/ ~setup.distribute THEN 0 ELSE t
      block == IF p < 0 THEN 0 ELSE p
  IN  (time * np + block + FirstRank) % NumRanks

NumPart(step) ==
  IF setup.handling = "Monolithic" \/ (setup.handling = "PartitionTimesteps" /\ step < 0)
  THEN 0 ELSE Partitions

Partitioned(step) ==
  setup.handling = "Partition" \/ (setup.handling = "PartitionTimesteps" /\ step >= 0)

(* Unpartitioned data is not read if there are partitions.                 *)
ReadHere(step, p) ==
  Partitioned(step) => /\ p < 0 => Partitions = 0
                       /\ setup.rank = RankFor(step, p)

Serial == setup.mode = "Serial" \/ Concurrency = 1
-----------------------------------------------------------------------------
(* Token *)

(* What threads that wait for a port of a token find after its waitDone.   *)
(* Fault: they are left waiting.                                           *)
PortsLeft(tok) == tok.ports
PortsDone(tok) == [p \in Ports |-> "ready"]

(* waitDone of token t, when its thread has returned.                      *)
Finish(t, toks) ==
  [toks EXCEPT ![t].finished = TRUE, ![t].result = toks[t].ok, ![t].ports = PortsDone(toks[t])]

(* Fault: the result is there before the thread has returned.              *)
AnyTime(t) == TRUE
CanFinish(t) == Returned(t) \/ tokens[t].finished

(* waitPortReady of the previous token: whether there is nothing to wait   *)
(* for.  Fault: a port that is not in m_ports is not waited for.           *)
PortOpenIfMissing(t, p) == t = 0 \/ tokens[t].finished \/ tokens[t].ports[p] # "asked"
PortOpen(t, p) == t = 0 \/ tokens[t].finished \/ tokens[t].ports[p] = "ready"

(* addObject of a token, up to its wait for the port of the previous one.  *)
AddToPort(t, p) ==
  /\ tokens[t].thread = "reading" /\ setup.style = "Token" /\ p \in tokens[t].todo
  /\ LET q == tokens[t].previous IN
     IF PortOpen(q, p)
     THEN tokens' = [tokens EXCEPT ![t].port = p, ![t].thread = "lock"]
     ELSE tokens' = [tokens EXCEPT ![t].port = p, ![t].thread = "wait", ![q].ports[p] = "asked"]
  /\ UNCHANGED <<setup, main, m_tokens, prev, error, added>>

PortReady(t) ==
  /\ tokens[t].thread = "wait"
  /\ tokens[tokens[t].previous].ports[tokens[t].port] = "ready"
  /\ tokens' = [tokens EXCEPT ![t].thread = "lock"]
  /\ UNCHANGED <<setup, main, m_tokens, prev, error, added>>

(* Fault: Reader::m_mutex is not taken.                                    *)
MutexIgnored == TRUE
MutexFree == \A t \in DOMAIN tokens : tokens[t].thread # "adding"

Adds(t, p) ==
  /\ tokens' = [tokens EXCEPT ![t].port = p, ![t].thread = "adding"]
  /\ added' = [added EXCEPT ![p] = t]
  /\ UNCHANGED <<setup, main, m_tokens, prev, error>>

Lock(t) == tokens[t].thread = "lock" /\ MutexFree /\ Adds(t, tokens[t].port)

(* ReadCovise: read() waits for the previous token and then adds to the    *)
(* ports of the module, without the mutex.                                 *)
WaitPrevious(t) ==
  /\ tokens[t].thread = "reading" /\ setup.style = "Wait" /\ ~tokens[t].waited
  /\ LET q == tokens[t].previous IN
     /\ q # 0 => CanFinish(q)
     /\ tokens' = [IF q = 0 THEN tokens ELSE Finish(q, tokens) EXCEPT ![t].waited = TRUE]
  /\ UNCHANGED <<setup, main, m_tokens, prev, error, added>>

AddDirectly(t, p) ==
  /\ tokens[t].thread = "reading" /\ tokens[t].waited /\ p \in tokens[t].todo
  /\ Adds(t, p)

(* The object has been added; setPortReady.                                *)
Added(t) ==
  /\ tokens[t].thread = "adding"
  /\ LET p == tokens[t].port
         done == [tokens EXCEPT ![t].thread = "reading", ![t].port = "none", ![t].todo = @ \ {p}]
     IN  tokens' = IF setup.style = "Token" THEN [done EXCEPT ![t].ports[p] = "ready"] ELSE done
  /\ UNCHANGED <<setup, main, m_tokens, prev, error, added>>

(* read() returns, or throws in a thread of its own, which is a failure     *)
(* for the future; it need not have added to every port.                   *)
ReadReturns(t) ==
  /\ tokens[t].thread = "reading"
  /\ \E ok \in {TRUE, ~Failures} :
       tokens' = [tokens EXCEPT ![t].thread = "returned", ![t].todo = {}, ![t].ok = ok]
  /\ UNCHANGED <<setup, main, m_tokens, prev, error, added>>
-----------------------------------------------------------------------------
(* Main thread *)

At(pc) == main.pc = pc
Goto(pc) == main' = [main EXCEPT !.pc = pc]

(* waitForReaders(n), one token at a time, then Then.                      *)
Succeeded(t) == tokens[t].ok

WaitForReaders(n, Then) ==
  IF Len(m_tokens) <= n THEN Then
  ELSE /\ CanFinish(Head(m_tokens))
       /\ tokens' = Finish(Head(m_tokens), tokens)
       /\ m_tokens' = Tail(m_tokens)
       /\ main' = [main EXCEPT !.result = @ /\ Succeeded(Head(m_tokens))]
       /\ UNCHANGED <<setup, prev, error, added>>

(* prepare: the module may not be ready, or prepareRead may fail.          *)
Prepare ==
  /\ At("prepare")
  /\ \E go \in {TRUE, ~Failures} : Goto(IF go THEN "timestep" ELSE "done")
  /\ UNCHANGED <<setup, m_tokens, prev, tokens, error, added>>

(* What follows readTimestep with its result: prepare after the static     *)
(* data, readTimesteps after a timestep.                                   *)
Leave(result) ==
  IF main.step = -1
  THEN /\ main' = [main EXCEPT !.result = result, !.pc = IF result THEN "afterStatic" ELSE "finishRead"]
       /\ error' = (error \/ ~result)
  ELSE /\ main' = [main EXCEPT !.result = result, !.pc = IF result THEN "timestep" ELSE "last",
                               !.step = IF result THEN @ + 1 ELSE @]
       /\ UNCHANGED error

(* readTimestep up to its loop, for the static data or the next timestep.  *)
BeginTimestep ==
  /\ At("timestep")
  /\ IF main.step >= 0 /\ main.step >= NumTimesteps THEN Goto("last") /\ UNCHANGED error
     ELSE \/ main' = [main EXCEPT !.pc = "partition", !.block = -1, !.result = TRUE] /\ UNCHANGED error
          \/ Failures /\ Leave(FALSE)
  /\ UNCHANGED <<setup, m_tokens, prev, tokens, added>>

Partition ==
  /\ At("partition")
  /\ IF main.block >= NumPart(main.step) THEN Goto("end") /\ UNCHANGED tokens
     ELSE IF ~ReadHere(main.step, main.block) THEN Goto("cancel") /\ UNCHANGED tokens
     ELSE IF Serial
     THEN /\ Goto("serial")
          /\ tokens' = Append(tokens, [Token(main.step, main.block) EXCEPT !.thread = "reading"])
     ELSE Goto("launch") /\ tokens' = Append(tokens, Token(main.step, main.block))
  /\ UNCHANGED <<setup, m_tokens, prev, error, added>>

(* The main thread has called read() itself, which has returned: what it   *)
(* throws here would leave prepare, and is not modelled.                   *)
SerialDone ==
  /\ At("serial") /\ Returned(Len(tokens))
  /\ main' = [main EXCEPT !.result = tokens[Len(tokens)].ok,
                          !.pc = IF tokens[Len(tokens)].ok THEN "cancel" ELSE "end"]
  /\ UNCHANGED <<setup, m_tokens, prev, tokens, error, added>>

(* Fault: one more unit is read at a time.                                 *)
OneTooMany == Concurrency
OthersAtMost == Concurrency - 1

Launch ==
  At("launch") /\ WaitForReaders(OthersAtMost,
    IF main.result
    THEN /\ m_tokens' = Append(m_tokens, Len(tokens)) /\ prev' = Len(tokens)
         /\ tokens' = [tokens EXCEPT ![Len(tokens)].thread = "reading"]
         /\ Goto("cancel")
         /\ UNCHANGED <<setup, error, added>>
    ELSE Goto("end") /\ UNCHANGED <<setup, m_tokens, prev, tokens, error, added>>)

(* cancelRequested, which is asked after every partition.                  *)
Cancel ==
  /\ At("cancel")
  /\ \/ main' = [main EXCEPT !.pc = "partition", !.block = @ + 1]
     \/ Failures /\ main' = [main EXCEPT !.pc = "end", !.result = FALSE]
  /\ UNCHANGED <<setup, m_tokens, prev, tokens, error, added>>

(* The end of readTimestep.                                                *)
AllRead == ~Serial /\ (setup.mode = "Blocks" \/ ~main.result)

EndTimestep ==
  /\ At("end")
  /\ IF AllRead
     THEN WaitForReaders(0, /\ prev' = 0 /\ Leave(main.result)
                            /\ UNCHANGED <<setup, m_tokens, tokens, added>>)
     ELSE Leave(main.result) /\ UNCHANGED <<setup, m_tokens, prev, tokens, added>>

AfterStatic ==
  At("afterStatic") /\
    LET Next1 == main' = [main EXCEPT !.step = 0, !.pc = "timestep"] IN
    IF setup.mode # "AfterStatic"
    THEN Next1 /\ UNCHANGED <<setup, m_tokens, prev, tokens, error, added>>
    ELSE WaitForReaders(0, /\ prev' = 0
                           /\ IF main.result THEN Next1 /\ UNCHANGED error
                              ELSE Goto("finishRead") /\ error' = TRUE
                           /\ UNCHANGED <<setup, m_tokens, tokens, added>>)

(* The end of readTimesteps.                                               *)
LastReaders ==
  At("last") /\ WaitForReaders(0,
    /\ prev' = 0 /\ error' = (error \/ ~main.result) /\ Goto("finishRead")
    /\ UNCHANGED <<setup, m_tokens, tokens, added>>)

FinishRead ==
  /\ At("finishRead") /\ Goto("done")
  /\ UNCHANGED <<setup, m_tokens, prev, tokens, error, added>>
-----------------------------------------------------------------------------
Init ==
  /\ setup \in [mode : Modes, handling : Handlings, distribute : Distribute, style : Styles, rank : Ranks]
  /\ main = [pc |-> "prepare", step |-> -1, block |-> -1, result |-> TRUE]
  /\ m_tokens = <<>> /\ prev = 0 /\ tokens = <<>>
  /\ error = FALSE
  /\ added = [p \in Ports |-> 0]

Main == Prepare \/ BeginTimestep \/ Partition \/ SerialDone \/ Launch \/ Cancel \/ EndTimestep
        \/ AfterStatic \/ LastReaders \/ FinishRead
Thread(t) ==
  \/ \E p \in Ports : AddToPort(t, p) \/ AddDirectly(t, p)
  \/ PortReady(t) \/ Lock(t) \/ WaitPrevious(t) \/ Added(t) \/ ReadReturns(t)

Next == Main \/ \E t \in DOMAIN tokens : Thread(t)

(* Every read returns in finite time if its waits end.                     *)
MaxTokens == (NumTimesteps + 2) * (Partitions + 1)
Fairness == WF_vars(Main) /\ \A t \in 1..MaxTokens : WF_vars(t \in DOMAIN tokens /\ Thread(t))
Spec == Init /\ [][Next]_vars /\ Fairness
-----------------------------------------------------------------------------
TypeOK ==
  /\ main.pc \in {"prepare", "timestep", "partition", "serial", "launch", "cancel", "end",
                  "afterStatic", "last", "finishRead", "done"}
  /\ main.step \in -1..NumTimesteps + 1 /\ main.block \in -1..Partitions /\ main.result \in BOOLEAN
  /\ Len(tokens) <= MaxTokens /\ prev \in 0..Len(tokens) /\ error \in BOOLEAN
  /\ Len(m_tokens) <= Concurrency /\ \A i \in DOMAIN m_tokens : m_tokens[i] \in DOMAIN tokens
  /\ \A t \in DOMAIN tokens :
       /\ tokens[t].previous \in 0..(t - 1) /\ tokens[t].port \in Ports \cup {"none"}
       /\ tokens[t].thread \in {"none", "reading", "wait", "lock", "adding", "returned"}
       /\ tokens[t].ports \in [Ports -> {"none", "asked", "ready"}]
  /\ added \in [Ports -> 0..Len(tokens)]

(* With "Wait", a unit without objects does not wait for its predecessor   *)
(* and lets its successor overtake.                                        *)
NoneSkipped ==
  setup.style = "Wait" => \A t \in DOMAIN tokens : Returned(t) => tokens[t].waited

(* The objects of a port are added in the order of the units, whichever    *)
(* are read first, ports are left out, or reads fail.                      *)
AddedInOrder ==
  [][NoneSkipped => \A p \in Ports : added'[p] >= added[p]]_vars

Adding == {t \in DOMAIN tokens : tokens[t].thread = "adding"}

(* Ports and message queues are used by one thread at a time (reader.h:256), *)
(* and nobody has declared the port ready or the token finished before, as *)
(* setPortReady asserts.                                                   *)
AddsAlone ==
  /\ NoneSkipped => Cardinality(Adding) <= 1
  /\ \A t \in Adding : setup.style = "Token" =>
       ~tokens[t].finished /\ tokens[t].ports[tokens[t].port] # "ready"

Running == {t \in DOMAIN tokens : Reading(t)}

(* finishRead is called after all reads have been made, even if one has    *)
(* failed or was cancelled; then a failure is reported, and the result of  *)
(* the timesteps that went on meanwhile does not hide it.                  *)
FinishComplete ==
  main.pc \in {"finishRead", "done"} =>
    /\ Running = {}
    /\ (\E t \in DOMAIN tokens : Returned(t) /\ ~tokens[t].ok) => error

(* prepare returns: the threads do not wait for each other for ever.       *)
PrepareReturns == <>(main.pc = "done")
===============================================================================
