--------------------------- MODULE SyncQueue_proofs ---------------------------
(***************************************************************************)
(* Proofs about SyncQueue for every set of operations, limit and priority. *)
(* The inductive invariant adds to the type invariant that an operation is *)
(* in one place at a time, that what has not started is still awaited, and *)
(* that the thread counter counts what runs.                               *)
(***************************************************************************)
EXTENDS SyncQueue, FiniteSetTheorems, TLAPS

OnePlace ==
    /\ pending \cap queue = {}
    /\ pending \cap running = {}
    /\ queue \cap running = {}

AwaitedUntilStarted == \A op \in pending \cup queue : promise[op] = "waiting"

NotYetAdded == \A op \in Op : promise[op] = "none" => op \notin running

FlushScheduled == pending # {} => flushes > 0

IInv ==
    /\ TypeOK
    /\ OnePlace
    /\ AwaitedUntilStarted
    /\ NotYetAdded
    /\ FlushScheduled
    /\ SlotsAreThreads

(* Every set of operations is finite. *)
LEMMA FiniteOps == ASSUME NEW S, S \subseteq Op
                   PROVE  IsFiniteSet(S) /\ Cardinality(S) \in Nat
BY OpAssumption, FS_Subset, FS_CardinalityType

(* Replacing one element of a set of operations by a new one keeps its size. *)
LEMMA Replace ==
    ASSUME NEW S, S \subseteq Op, NEW a \in S, NEW b \in Op \ S
    PROVE  Cardinality((S \ {a}) \cup {b}) = Cardinality(S)
<1>1. IsFiniteSet(S) /\ Cardinality(S) \in Nat
  BY FiniteOps
<1>2. /\ IsFiniteSet(S \ {a})
      /\ Cardinality(S \ {a}) = Cardinality(S) - 1
  BY <1>1, FS_RemoveElement
<1>3. Cardinality((S \ {a}) \cup {b}) = Cardinality(S \ {a}) + 1
  BY <1>2, FS_AddElement
<1> QED
  BY <1>1, <1>2, <1>3

(* The size of a union of two disjoint sets of operations. *)
LEMMA DisjointSizes ==
    ASSUME NEW S, NEW T, S \subseteq Op, T \subseteq Op, S \cap T = {}
    PROVE  Cardinality(S \cup T) = Cardinality(S) + Cardinality(T)
<1>1. IsFiniteSet(S) /\ IsFiniteSet(T) /\ Cardinality(S) \in Nat /\ Cardinality(T) \in Nat
  BY FiniteOps
<1>2. Cardinality(S \cup T) = Cardinality(S) + Cardinality(T) - Cardinality(S \cap T)
  BY <1>1, FS_Union
<1>3. Cardinality(S \cap T) = 0
  BY FS_EmptySet
<1> QED
  BY <1>1, <1>2, <1>3

LEMMA InitIInv == Init => IInv
<1> SUFFICES ASSUME Init PROVE IInv
  OBVIOUS
<1>1. TypeOK
  BY DEF Init, TypeOK, Promise, Stamp
<1>2. Cardinality(running) = 0
  BY FS_EmptySet DEF Init
<1>3. SlotsAreThreads
  BY <1>2, ConcurrencyAssumption DEF Init, SlotsAreThreads
<1> QED
  BY <1>1, <1>3 DEF Init, IInv, OnePlace, AwaitedUntilStarted, NotYetAdded, FlushScheduled

LEMMA AddStep == ASSUME NEW op \in Op, IInv, Add(op) PROVE IInv'
<1> USE DEF IInv, Add
<1>1. TypeOK'
  BY DEF TypeOK, Promise, Outcome, Stamp
<1>2. op \notin pending \cup queue \cup running
  BY DEF AwaitedUntilStarted, NotYetAdded
<1>3. OnePlace'
  BY <1>2 DEF OnePlace
<1>4. AwaitedUntilStarted' /\ NotYetAdded'
  BY <1>2 DEF AwaitedUntilStarted, NotYetAdded, TypeOK
<1>5. FlushScheduled' /\ SlotsAreThreads'
  BY DEF FlushScheduled, SlotsAreThreads, TypeOK
<1> QED
  BY <1>1, <1>3, <1>4, <1>5

LEMMA AbortStep == ASSUME NEW op \in Op, IInv, Abort(op) PROVE IInv'
<1> USE DEF IInv, Abort
<1>1. TypeOK'
  BY DEF TypeOK, Promise, Outcome
<1>2. OnePlace' /\ FlushScheduled' /\ SlotsAreThreads'
  BY DEF OnePlace, FlushScheduled, SlotsAreThreads
<1>3. AwaitedUntilStarted' /\ NotYetAdded'
  BY DEF AwaitedUntilStarted, NotYetAdded, TypeOK
<1> QED
  BY <1>1, <1>2, <1>3

LEMMA ClearStep == ASSUME IInv, Clear PROVE IInv'
<1> USE DEF IInv, Clear
<1>1. TypeOK'
  BY DEF TypeOK, Promise, Outcome
<1>2. OnePlace' /\ FlushScheduled' /\ SlotsAreThreads'
  BY DEF OnePlace, FlushScheduled, SlotsAreThreads
<1>3. AwaitedUntilStarted' /\ NotYetAdded'
  BY DEF AwaitedUntilStarted, NotYetAdded, TypeOK, OnePlace
<1> QED
  BY <1>1, <1>2, <1>3

LEMMA FlushStep == ASSUME IInv, FlushPending PROVE IInv'
<1> USE DEF IInv
<1>1. PICK S \in SUBSET (queue \cup pending) :
        /\ Started(S, queue \cup pending, Cardinality(pending))
        /\ queue' = (queue \cup pending) \ S
        /\ running' = running \cup S
        /\ activeThreads' = activeThreads + Cardinality(S)
  BY DEF FlushPending
<1>2. S \subseteq Op /\ S \cap running = {}
  BY DEF TypeOK, OnePlace
<1>3. Cardinality(S) \in Nat /\ activeThreads + Cardinality(S) <= Concurrency
  BY <1>1, <1>2, FiniteOps DEF Started, Startable
<1>4. Cardinality(running') = Cardinality(running) + Cardinality(S)
  BY <1>1, <1>2, DisjointSizes DEF TypeOK
<1>5. SlotsAreThreads'
  BY <1>1, <1>3, <1>4 DEF SlotsAreThreads
<1>6. TypeOK'
  BY <1>1, <1>2, <1>3 DEF TypeOK, FlushPending, Stamp
<1>7. OnePlace' /\ AwaitedUntilStarted' /\ FlushScheduled'
  BY <1>1 DEF OnePlace, AwaitedUntilStarted, FlushScheduled, FlushPending
<1>8. NotYetAdded'
  BY <1>1 DEF NotYetAdded, AwaitedUntilStarted, FlushPending
<1> QED
  BY <1>5, <1>6, <1>7, <1>8

LEMMA ContinueStep ==
    ASSUME NEW op \in Op, NEW result \in {"ok", "failed"}, IInv, FinishAndContinue(op, result)
    PROVE  IInv'
<1> USE DEF IInv
<1>1. PICK next \in queue : /\ queue' = queue \ {next}
                            /\ running' = (running \ {op}) \cup {next}
  BY DEF FinishAndContinue
<1>2. next \in Op \ running /\ op \in running /\ running \subseteq Op
  BY DEF TypeOK, OnePlace, FinishAndContinue
<1>3. Cardinality(running') = Cardinality(running)
  BY <1>1, <1>2, Replace
<1>4. SlotsAreThreads'
  BY <1>3 DEF SlotsAreThreads, FinishAndContinue
<1>5. TypeOK'
  BY <1>1, <1>2 DEF TypeOK, FinishAndContinue, Settled, Promise, Outcome
<1>6. OnePlace' /\ FlushScheduled'
  BY <1>1, <1>2 DEF OnePlace, FlushScheduled, FinishAndContinue
<1>7. op \notin pending \cup queue
  BY <1>2 DEF OnePlace
<1>8. AwaitedUntilStarted' /\ NotYetAdded'
  BY <1>1, <1>2, <1>7 DEF AwaitedUntilStarted, NotYetAdded, FinishAndContinue, Settled, TypeOK
<1> QED
  BY <1>4, <1>5, <1>6, <1>8

LEMMA StopStep ==
    ASSUME NEW op \in Op, NEW result \in {"ok", "failed"}, IInv, FinishAndStop(op, result)
    PROVE  IInv'
<1> USE DEF IInv, FinishAndStop
<1>1. IsFiniteSet(running) /\ op \in running
  BY FiniteOps DEF TypeOK
<1>2. /\ Cardinality(running') = Cardinality(running) - 1
      /\ Cardinality(running') \in Nat
  BY <1>1, FS_RemoveElement, FS_CardinalityType
<1>3. SlotsAreThreads' /\ activeThreads' \in Nat
  BY <1>2, ConcurrencyAssumption DEF SlotsAreThreads, TypeOK
<1>4. TypeOK'
  BY <1>3 DEF TypeOK, Settled, Promise, Outcome
<1>5. OnePlace' /\ FlushScheduled'
  BY DEF OnePlace, FlushScheduled
<1>6. op \notin pending \cup queue
  BY <1>1 DEF OnePlace
<1>7. AwaitedUntilStarted' /\ NotYetAdded'
  BY <1>6 DEF AwaitedUntilStarted, NotYetAdded, Settled, TypeOK
<1> QED
  BY <1>3, <1>4, <1>5, <1>7

LEMMA TickStep == ASSUME IInv, Tick PROVE IInv'
<1> USE DEF IInv, Tick
<1>1. TypeOK'
  BY DEF TypeOK, Stamp
<1> QED
  BY <1>1 DEF OnePlace, AwaitedUntilStarted, NotYetAdded, FlushScheduled, SlotsAreThreads

LEMMA NextIInv == IInv /\ [Next]_vars => IInv'
<1> SUFFICES ASSUME IInv, [Next]_vars PROVE IInv'
  OBVIOUS
<1>1. ASSUME NEW op \in Op, Add(op) PROVE IInv'
  BY <1>1, AddStep
<1>2. ASSUME NEW op \in Op, Abort(op) PROVE IInv'
  BY <1>2, AbortStep
<1>3. CASE Clear
  BY <1>3, ClearStep
<1>4. CASE FlushPending
  BY <1>4, FlushStep
<1>5. ASSUME NEW op \in Op, Finish(op) PROVE IInv'
  BY <1>5, ContinueStep, StopStep DEF Finish
<1>6. CASE Tick
  BY <1>6, TickStep
<1>7. CASE UNCHANGED vars
  BY <1>7 DEF vars, IInv, TypeOK, OnePlace, AwaitedUntilStarted, NotYetAdded,
             FlushScheduled, SlotsAreThreads
<1> QED
  BY <1>1, <1>2, <1>3, <1>4, <1>5, <1>6, <1>7 DEF Next

(* The inductive invariant holds in every reachable state. *)
THEOREM Invariant == Spec => []IInv
BY InitIInv, NextIInv, PTL DEF Spec

(* Every variable keeps its type; in particular activeThreads never goes   *)
(* below zero, which would let syncNext start more threads than its limit. *)
THEOREM TypeCorrect == Spec => []TypeOK
<1>1. IInv => TypeOK
  BY DEF IInv
<1> QED
  BY <1>1, Invariant, PTL

(* activeThreads is the number of operations being run and never exceeds   *)
(* the concurrency limit, whatever fails, is aborted or cleared.           *)
THEOREM SlotSafety == Spec => []SlotsAreThreads
<1>1. IInv => SlotsAreThreads
  BY DEF IInv
<1> QED
  BY <1>1, Invariant, PTL

(* Only operations whose caller still waits are started. *)
LEMMA OnlyAwaitedStart ==
    IInv /\ [Next]_vars => [\A op \in running' \ running : promise[op] = "waiting"]_vars
<1> SUFFICES ASSUME IInv, Next, NEW op \in running' \ running
             PROVE  promise[op] = "waiting"
  OBVIOUS
<1>1. op \in queue \cup pending
  BY DEF Next, Add, Abort, Clear, FlushPending, Finish, FinishAndContinue, FinishAndStop, Tick
<1> QED
  BY <1>1 DEF IInv, AwaitedUntilStarted

(* The sort puts no operation before one of higher priority. *)
LEMMA BeforeRespectsPriority ==
    ASSUME NEW a \in Op, NEW b \in Op, Before(a, b)
    PROVE  Priority[b] <= Priority[a]
<1>1. Priority[a] \in Nat /\ Priority[b] \in Nat
  BY PriorityAssumption
<1> QED
  BY <1>1 DEF Before

(* When an operation starts, nothing left in the queue is more urgent. *)
LEMMA UrgentFirst ==
    TypeOK /\ [Next]_vars
        => [\A op \in running' \ running, left \in queue' : Priority[left] <= Priority[op]]_vars
<1> SUFFICES ASSUME TypeOK, Next, NEW op \in running' \ running, NEW left \in queue'
             PROVE  Priority[left] <= Priority[op]
  OBVIOUS
<1>1. CASE FlushPending
  <2>1. PICK S \in SUBSET (queue \cup pending) :
           /\ Started(S, queue \cup pending, Cardinality(pending))
           /\ queue' = (queue \cup pending) \ S
           /\ running' = running \cup S
    BY <1>1 DEF FlushPending
  <2>2. op \in S /\ op \in Op /\ left \in Op
    BY <2>1 DEF TypeOK
  <2>3. Before(op, left)
    BY <2>1, <2>2 DEF Started, Startable
  <2> QED
    BY <2>2, <2>3, BeforeRespectsPriority
<1>2. ASSUME NEW ended \in Op, Finish(ended) PROVE Priority[left] <= Priority[op]
  <2>1. PICK result : FinishAndContinue(ended, result)
    BY <1>2 DEF Finish, FinishAndStop
  <2>2. PICK next \in queue : /\ \A other \in queue \ {next} : Before(next, other)
                              /\ queue' = queue \ {next}
                              /\ running' = (running \ {ended}) \cup {next}
    BY <2>1 DEF FinishAndContinue
  <2>3. op = next /\ op \in Op /\ left \in Op /\ Before(op, left)
    BY <2>2 DEF TypeOK
  <2> QED
    BY <2>3, BeforeRespectsPriority
<1>3. CASE Clear \/ Tick \/ \E o \in Op : Add(o) \/ Abort(o)
  BY <1>3 DEF Clear, Tick, Add, Abort
<1> QED
  BY <1>1, <1>2, <1>3 DEF Next

(* Both at once: what starts is due. *)
THEOREM StartsSafety == Spec => StartsAreDue
<1>1. IInv /\ TypeOK /\ [Next]_vars
        => [\A op \in running' \ running :
              /\ promise[op] = "waiting"
              /\ \A left \in queue' : Priority[left] <= Priority[op]]_vars
  BY OnlyAwaitedStart, UrgentFirst
<1> QED
  BY <1>1, Invariant, TypeCorrect, PTL DEF Spec, StartsAreDue
=============================================================================
