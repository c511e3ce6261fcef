------------------------------ MODULE SyncQueue ------------------------------
(***************************************************************************)
(* The client's sync queue (packages/shared/src/store/syncQueue.ts).       *)
(*                                                                         *)
(* Every background read of the ship goes through this queue: an operation *)
(* is first pending, a microtask flushes the pending operations into the   *)
(* queue and starts up to Concurrency threads, and a thread runs queued    *)
(* operations one after another until the queue is empty.  JavaScript runs *)
(* each handler to completion, so a handler is one action; between two     *)
(* handlers anything may happen.                                           *)
(*                                                                         *)
(* The queue is kept sorted, so it is modelled as the set of the queued    *)
(* operations with the order `Before' in which the sort puts them.         *)
(***************************************************************************)
EXTENDS Naturals, FiniteSets

CONSTANTS
    Op,             \* the operations handed to add, each once
    Concurrency,    \* the limit on threads (3 in the code)
    Priority,       \* the priority of each operation
    Medium,         \* SyncPriority.Medium: lower priorities leave a thread free
    Abortable,      \* the operations added with an abortSignal
    MaxNow          \* bound on the clock that stamps operations

ASSUME OpAssumption          == IsFiniteSet(Op) /\ Abortable \subseteq Op
ASSUME ConcurrencyAssumption == Concurrency \in Nat /\ Concurrency >= 2
ASSUME PriorityAssumption    == Priority \in [Op -> Nat] /\ Medium \in Nat

VARIABLES
    pending,        \* added, not yet flushed
    queue,          \* flushed, not yet started
    running,        \* the operations the threads are running
    activeThreads,  \* the counter that limits the threads
    flushes,        \* microtasks scheduled to call flushPending
    promise,        \* what add's promise says of each operation
    addedAt,        \* when each operation was added: the clock, the batch, the rank
    clock           \* Date.now(), the current batch and the number of adds

vars == <<pending, queue, running, activeThreads, flushes, promise, addedAt, clock>>

Outcome == {"ok", "failed", "aborted", "cleared"}
Promise == {"none", "waiting"} \cup Outcome
Stamp   == [now : Nat, batch : Nat, rank : Nat]

TypeOK ==
    /\ pending \subseteq Op
    /\ queue \subseteq Op
    /\ running \subseteq Op
    /\ activeThreads \in Nat
    /\ flushes \in Nat
    /\ promise \in [Op -> Promise]
    /\ addedAt \in [Op -> Stamp]
    /\ clock \in Stamp

Init ==
    /\ pending = {} /\ queue = {} /\ running = {}
    /\ activeThreads = 0
    /\ flushes = 0
    /\ promise = [op \in Op |-> "none"]
    /\ clock = [now |-> 0, batch |-> 0, rank |-> 0]
    /\ addedAt = [op \in Op |-> clock]

(***************************************************************************)
(* The order of the sorted queue: priority first, then the clock.  The     *)
(* sort is stable and pending is built with unshift, so of two operations  *)
(* stamped alike the earlier batch goes first, and within a batch the one  *)
(* added last.                                                             *)
(***************************************************************************)
\* Mutant of Before: the sort's comparison reversed.
LowestFirst(a, b) == Priority[a] < Priority[b]

Before(a, b) ==
    \/ Priority[a] > Priority[b]
    \/ /\ Priority[a] = Priority[b]
       /\ LET s == addedAt[a]
              t == addedAt[b]
          IN  \/ s.now < t.now
              \/ s.now = t.now /\ s.batch < t.batch
              \/ s.now = t.now /\ s.batch = t.batch /\ s.rank > t.rank

(***************************************************************************)
(* flushPending calls syncNext once for each operation it flushed; a call  *)
(* starts a thread on the head of the queue unless the threads are all     *)
(* taken, or the head is of low priority and all but one are.  The calls   *)
(* together start the longest prefix of the queue that respects this.      *)
(***************************************************************************)
\* Mutant of Startable: syncNext without its activeThreads checks.
StartableUnlimited(S, q, calls) ==
    /\ \A a \in S, b \in q \ S : Before(a, b)
    /\ Cardinality(S) <= calls

Startable(S, q, calls) ==
    /\ \A a \in S, b \in q \ S : Before(a, b)
    /\ Cardinality(S) <= calls
    /\ activeThreads + Cardinality(S) <= Concurrency
    /\ (\E a \in S : Priority[a] < Medium)
         => activeThreads + Cardinality(S) <= Concurrency - 1

Started(S, q, calls) ==
    /\ Startable(S, q, calls)
    /\ \A T \in SUBSET q : Startable(T, q, calls) => Cardinality(T) <= Cardinality(S)

-----------------------------------------------------------------------------
(* add: the operation becomes pending; the first one schedules a flush. *)
Add(op) ==
    /\ promise[op] = "none"
    /\ promise' = [promise EXCEPT ![op] = "waiting"]
    /\ pending' = pending \cup {op}
    /\ flushes' = IF pending = {} THEN flushes + 1 ELSE flushes
    /\ addedAt' = [addedAt EXCEPT ![op] = clock]
    /\ clock' = [clock EXCEPT !.rank = @ + 1]
    /\ UNCHANGED <<queue, running, activeThreads>>

\* Mutant of Abort: the queue is not filtered.
AbortPendingOnly(op) ==
    /\ op \in Abortable
    /\ promise[op] # "none"
    /\ pending' = pending \ {op}
    /\ promise' = [promise EXCEPT ![op] = IF @ = "waiting" THEN "aborted" ELSE @]
    /\ UNCHANGED <<queue, running, activeThreads, flushes, addedAt, clock>>

(* The abort listener: drops an operation that has not started, and rejects. *)
(* A running operation goes on, but its result is ignored.                   *)
Abort(op) ==
    /\ op \in Abortable
    /\ promise[op] # "none"
    /\ pending' = pending \ {op}
    /\ queue' = queue \ {op}
    /\ promise' = [promise EXCEPT ![op] = IF @ = "waiting" THEN "aborted" ELSE @]
    /\ UNCHANGED <<running, activeThreads, flushes, addedAt, clock>>

(* clear: rejects what is queued; what is pending or running is untouched. *)
Clear ==
    /\ queue # {}
    /\ queue' = {}
    /\ promise' = [op \in Op |->
                     IF op \in queue /\ promise[op] = "waiting" THEN "cleared" ELSE promise[op]]
    /\ UNCHANGED <<pending, running, activeThreads, flushes, addedAt, clock>>

(* flushPending, with the syncNext calls it makes. *)
FlushPending ==
    /\ flushes > 0
    /\ flushes' = flushes - 1
    /\ pending' = {}
    /\ \E S \in SUBSET (queue \cup pending) :
          /\ Started(S, queue \cup pending, Cardinality(pending))
          /\ queue' = (queue \cup pending) \ S
          /\ running' = running \cup S
          /\ activeThreads' = activeThreads + Cardinality(S)
    /\ clock' = [clock EXCEPT !.batch = @ + 1]
    /\ UNCHANGED <<promise, addedAt>>

Settled(op, result) ==
    promise' = [promise EXCEPT ![op] = IF @ = "waiting" THEN result ELSE @]

\* Mutant of FinishAndContinue: the slot is freed after every operation.
FinishFreeingSlot(op, result) ==
    /\ op \in running
    /\ Settled(op, result)
    /\ \E next \in queue : queue' = queue \ {next} /\ running' = (running \ {op}) \cup {next}
    /\ activeThreads' = activeThreads - 1
    /\ UNCHANGED <<pending, flushes, addedAt, clock>>

(* A thread's operation ends and its loop takes the head of the queue... *)
FinishAndContinue(op, result) ==
    /\ op \in running
    /\ Settled(op, result)
    /\ \E next \in queue :
          /\ \A other \in queue \ {next} : Before(next, other)
          /\ queue' = queue \ {next}
          /\ running' = (running \ {op}) \cup {next}
    /\ UNCHANGED <<pending, activeThreads, flushes, addedAt, clock>>

\* Mutant of FinishAndStop: the thread's slot is not given back.
FinishKeepingSlot(op, result) ==
    /\ op \in running
    /\ queue = {}
    /\ Settled(op, result)
    /\ running' = running \ {op}
    /\ UNCHANGED <<pending, queue, activeThreads, flushes, addedAt, clock>>

(* ...or finds it empty and the thread ends. *)
FinishAndStop(op, result) ==
    /\ op \in running
    /\ queue = {}
    /\ Settled(op, result)
    /\ running' = running \ {op}
    /\ activeThreads' = activeThreads - 1
    /\ UNCHANGED <<pending, queue, flushes, addedAt, clock>>

Finish(op) == \E result \in {"ok", "failed"} :
    FinishAndContinue(op, result) \/ FinishAndStop(op, result)

(* Date.now() moves on. *)
Tick ==
    /\ clock.now < MaxNow
    /\ clock' = [clock EXCEPT !.now = @ + 1]
    /\ UNCHANGED <<pending, queue, running, activeThreads, flushes, promise, addedAt>>

Next ==
    \/ \E op \in Op : Add(op)
    \/ \E op \in Op : Abort(op)
    \/ Clear
    \/ FlushPending
    \/ \E op \in Op : Finish(op)
    \/ Tick

Spec == Init /\ [][Next]_vars

(* Microtasks run, and the operations end: they are fetches with timeouts and bounded retries. *)
FairSpec == Spec /\ WF_vars(FlushPending) /\ \A op \in Op : WF_vars(Finish(op))

-----------------------------------------------------------------------------
(* The counter that limits the threads counts the operations being run: no *)
(* path through a thread (failure, abort, an emptied queue) leaks a slot   *)
(* or hands the same slot out twice, so the limit is a limit on requests.  *)
SlotsAreThreads ==
    /\ activeThreads = Cardinality(running)
    /\ activeThreads <= Concurrency

(* What starts is due.  An operation whose caller has been answered never  *)
(* starts: one aborted or cleared before it ran makes no request.  And a   *)
(* thread never passes over more urgent work: when an operation starts,    *)
(* nothing left in the queue has a higher priority.                        *)
StartsAreDue ==
    [][\A op \in running' \ running :
          /\ promise[op] = "waiting"
          /\ \A left \in queue' : Priority[left] <= Priority[op]]_vars

(* Every caller of add is eventually answered. *)
EveryAddSettles ==
    \A op \in Op : (promise[op] = "waiting") ~> (promise[op] \in Outcome)
=============================================================================
