----------------------------- MODULE ThreadQueue -----------------------------
(***************************************************************************)
(* Operating Systems/ex4/C solution/queue1.c: a FIFO queue shared by       *)
(* threads.  An item is appended to "queue" under queue.lock, or handed    *)
(* directly to the first thread of "waiting_queue" (under its own lock) by *)
(* writing it into that thread's node and signalling the node's condition  *)
(* variable, with neither lock held.  Every mtx_lock, critical section,    *)
(* cnd_signal and cnd_wait is a step of its own.                           *)
(***************************************************************************)
EXTENDS Naturals, Sequences, FiniteSets

CONSTANTS
  Thread,           \* the threads that call the queue
  Item,             \* the pointers that are enqueued, each once
  MaxCalls,         \* bound: calls made by one thread
  SpuriousWakeups,  \* may cnd_wait return without a signal, as C11 allows?
  MallocData,       \* what malloc may leave in a new node's data field
  NULL, Junk        \* the null pointer; a non-null pointer nobody enqueued

ASSUME ConstantsAssumption ==
  /\ IsFiniteSet(Thread) /\ MaxCalls \in Nat
  /\ SpuriousWakeups \in BOOLEAN
  /\ MallocData \subseteq {NULL, Junk}
  /\ NULL \notin Item /\ Junk \notin Item /\ NULL # Junk
  /\ NULL \notin Thread

VARIABLES
  pc,                 \* where each thread is
  arg,                \* the pointer a thread enqueues, or has taken and not yet returned
  queue,              \* the list queue.first .. queue.last
  queue_lock,         \* owner of queue.lock, or NULL
  waiting_queue,      \* the list of nodes waiting_queue.first .. last
  waiting_queue_lock, \* owner of waiting_queue.lock, or NULL
  data,               \* the data field of the thread's current node
  curr_cv,            \* enqueue's local: the node it is about to signal
  waiting_count, visited_count,
  calls,              \* number of calls a thread has begun; names its node
  fresh,              \* items nobody has enqueued yet
  got,                \* the pointers each thread's calls returned
  drained,            \* the items destroyQueue took out and dropped
  phase               \* "up", then destroyQueue is "draining", then "down"

vars == <<pc, arg, queue, queue_lock, waiting_queue, waiting_queue_lock, data,
          curr_cv, waiting_count, visited_count, calls, fresh, got, drained,
          phase>>

lists == <<queue, waiting_queue>>
locks == <<queue_lock, waiting_queue_lock>>
counters == <<waiting_count, visited_count>>
world == <<calls, fresh, drained, phase>>

EnqueuePcs == {"e_lockW", "e_inW", "e_signal", "e_lockQ", "e_inQ"}
DequeuePcs == {"d_lockQ", "d_inQ", "d_lockW", "d_inW", "d_wait", "d_sleep",
               "d_relock", "d_check", "d_return"}
TryPcs     == {"t_lockQ", "t_inQ", "t_return"}
PC         == {"idle"} \cup EnqueuePcs \cup DequeuePcs \cup TryPcs

\* A node is named by its owner and the owner's call that allocated it; it is
\* allocated from line 125 to the free of line 154.
Node == Thread \X (1..MaxCalls)
NodePcs == {"d_lockW", "d_inW", "d_wait", "d_sleep", "d_relock", "d_check"}
Live(n) == calls[n[1]] = n[2] /\ pc[n[1]] \in NodePcs
NodeOf(t) == <<t, calls[t]>>

\* A dequeue that woke for nothing has taken what malloc left in its node for an item
\* (lines 125, 147) and freed a node that is still linked.  What the program does from
\* then on is undefined, and no action is enabled any more.
Garbage == \E t \in Thread : arg[t] = Junk

Goto(t, from, to) == pc[t] = from /\ ~ Garbage /\ pc' = [pc EXCEPT ![t] = to]

\* Mutant: queue.lock is taken without waiting for its owner.
LockQUntested(t) == queue_lock' = t

LockQ(t)   == queue_lock = NULL /\ queue_lock' = t
UnlockQ(t) == queue_lock = t /\ queue_lock' = NULL
LockW(t)   == waiting_queue_lock = NULL /\ waiting_queue_lock' = t
UnlockW(t) == waiting_queue_lock = t /\ waiting_queue_lock' = NULL

Init ==
  /\ pc = [t \in Thread |-> "idle"]
  /\ arg = [t \in Thread |-> NULL]
  /\ queue = <<>> /\ waiting_queue = <<>>
  /\ queue_lock = NULL /\ waiting_queue_lock = NULL
  /\ data = [t \in Thread |-> NULL]
  /\ curr_cv = [t \in Thread |-> NULL]
  /\ waiting_count = 0 /\ visited_count = 0
  /\ calls = [t \in Thread |-> 0]
  /\ fresh = Item /\ drained = {}
  /\ got = [t \in Thread |-> <<>>]
  /\ phase = "up"

(***************************************************************************)
(* A thread outside the queue makes its next call.                         *)
(***************************************************************************)
Call(t, to) ==
  /\ phase = "up"
  /\ calls[t] < MaxCalls
  /\ calls' = [calls EXCEPT ![t] = @ + 1]
  /\ Goto(t, "idle", to)
  /\ UNCHANGED <<lists, locks, counters, data, curr_cv, got, drained, phase>>

CallEnqueue(t) ==
  \E i \in fresh :
    /\ Call(t, "e_lockW")
    /\ arg' = [arg EXCEPT ![t] = i]
    /\ fresh' = fresh \ {i}

CallDequeue(t)    == Call(t, "d_lockQ") /\ UNCHANGED <<arg, fresh>>
CallTryDequeue(t) == Call(t, "t_lockQ") /\ UNCHANGED <<arg, fresh>>

(***************************************************************************)
(* enqueue                                                                 *)
(***************************************************************************)
EnqueueLockW(t) ==
  /\ Goto(t, "e_lockW", "e_inW")
  /\ LockW(t)
  /\ UNCHANGED <<lists, queue_lock, counters, world, arg, data, curr_cv, got>>

\* Mutant: the waiter is served but not unlinked.
HandOverKeepsNode(t) ==
  /\ waiting_queue # <<>>
  /\ Goto(t, "e_inW", "e_signal")
  /\ LET n == Head(waiting_queue) IN
       /\ curr_cv' = [curr_cv EXCEPT ![t] = n]
       /\ data' = IF Live(n) THEN [data EXCEPT ![n[1]] = arg[t]] ELSE data
  /\ arg' = [arg EXCEPT ![t] = NULL]
  /\ UnlockW(t)
  /\ UNCHANGED <<lists, queue_lock, counters, world, got>>

\* The first waiter is unlinked and given the item, even when its thread has not
\* reached cnd_wait yet; a write to a node that was freed reaches nobody.
HandOver(t) ==
  /\ waiting_queue # <<>>
  /\ Goto(t, "e_inW", "e_signal")
  /\ LET n == Head(waiting_queue) IN
       /\ curr_cv' = [curr_cv EXCEPT ![t] = n]
       /\ data' = IF Live(n) THEN [data EXCEPT ![n[1]] = arg[t]] ELSE data
  /\ waiting_queue' = Tail(waiting_queue)
  /\ arg' = [arg EXCEPT ![t] = NULL]
  /\ UnlockW(t)
  /\ UNCHANGED <<queue, queue_lock, counters, world, got>>

NoWaiter(t) ==
  /\ waiting_queue = <<>>
  /\ Goto(t, "e_inW", "e_lockQ")
  /\ UnlockW(t)
  /\ UNCHANGED <<lists, queue_lock, counters, world, arg, data, curr_cv, got>>

\* cnd_signal wakes the node's thread only if it is already asleep.
Signal(t) ==
  /\ pc[t] = "e_signal" /\ ~ Garbage
  /\ LET n == curr_cv[t]
         asleep == Live(n) /\ pc[n[1]] = "d_sleep" IN
       pc' = [u \in Thread |-> IF u = t THEN "idle"
                               ELSE IF asleep /\ u = n[1] THEN "d_relock"
                               ELSE pc[u]]
  /\ curr_cv' = [curr_cv EXCEPT ![t] = NULL]
  /\ UNCHANGED <<lists, locks, counters, world, arg, data, got>>

EnqueueLockQ(t) ==
  /\ Goto(t, "e_lockQ", "e_inQ")
  /\ LockQ(t)
  /\ UNCHANGED <<lists, waiting_queue_lock, counters, world, arg, data, curr_cv, got>>

EnqueueAppend(t) ==
  /\ Goto(t, "e_inQ", "idle")
  /\ queue' = Append(queue, arg[t])
  /\ arg' = [arg EXCEPT ![t] = NULL]
  /\ UnlockQ(t)
  /\ UNCHANGED <<waiting_queue, waiting_queue_lock, counters, world, data, curr_cv, got>>

enqueue(t) == EnqueueLockW(t) \/ HandOver(t) \/ NoWaiter(t) \/ Signal(t)
              \/ EnqueueLockQ(t) \/ EnqueueAppend(t)

(***************************************************************************)
(* dequeue                                                                 *)
(***************************************************************************)
DequeueLockQ(t) ==
  /\ Goto(t, "d_lockQ", "d_inQ")
  /\ LockQ(t)
  /\ UNCHANGED <<lists, waiting_queue_lock, counters, world, arg, data, curr_cv, got>>

DequeueFirst(t) ==
  /\ queue # <<>>
  /\ Goto(t, "d_inQ", "idle")
  /\ queue' = Tail(queue)
  /\ visited_count' = visited_count + 1
  /\ got' = [got EXCEPT ![t] = Append(@, Head(queue))]
  /\ UnlockQ(t)
  /\ UNCHANGED <<waiting_queue, waiting_queue_lock, waiting_count, world, arg, data, curr_cv>>

\* malloc: the node's data field is not initialised.
AllocateNode(t) ==
  /\ queue = <<>>
  /\ Goto(t, "d_inQ", "d_lockW")
  /\ \E d \in MallocData : data' = [data EXCEPT ![t] = d]
  /\ UNCHANGED <<lists, locks, counters, world, arg, curr_cv, got>>

DequeueLockW(t) ==
  /\ Goto(t, "d_lockW", "d_inW")
  /\ LockW(t)
  /\ UNCHANGED <<lists, queue_lock, counters, world, arg, data, curr_cv, got>>

\* Mutant: a waiter is linked but not counted.
RegisterUncounted(t) ==
  /\ Goto(t, "d_inW", "d_wait")
  /\ waiting_queue' = Append(waiting_queue, NodeOf(t))
  /\ UnlockW(t)
  /\ UNCHANGED <<queue, queue_lock, counters, world, arg, data, curr_cv, got>>

Register(t) ==
  /\ Goto(t, "d_inW", "d_wait")
  /\ waiting_queue' = Append(waiting_queue, NodeOf(t))
  /\ waiting_count' = waiting_count + 1
  /\ UnlockW(t)
  /\ UNCHANGED <<queue, queue_lock, visited_count, world, arg, data, curr_cv, got>>

\* Mutant: the sleeper keeps queue.lock.
WaitLocked(t) ==
  /\ Goto(t, "d_wait", "d_sleep")
  /\ UNCHANGED <<lists, locks, counters, world, arg, data, curr_cv, got>>

\* cnd_wait: unlock and fall asleep in one step, whatever data holds by now.
Wait(t) ==
  /\ Goto(t, "d_wait", "d_sleep")
  /\ UnlockQ(t)
  /\ UNCHANGED <<lists, waiting_queue_lock, counters, world, arg, data, curr_cv, got>>

SpuriousWakeup(t) ==
  /\ SpuriousWakeups
  /\ Goto(t, "d_sleep", "d_relock")
  /\ UNCHANGED <<lists, locks, counters, world, arg, data, curr_cv, got>>

WaitRelock(t) ==
  /\ Goto(t, "d_relock", "d_check")
  /\ LockQ(t)
  /\ UNCHANGED <<lists, waiting_queue_lock, counters, world, arg, data, curr_cv, got>>

\* The test of line 147.  It goes back to cnd_wait still holding queue.lock, which
\* enqueue does not take: the node can be served and signalled before the thread sleeps.
WaitAgain(t) ==
  /\ data[t] = NULL
  /\ Goto(t, "d_check", "d_wait")
  /\ UNCHANGED <<lists, locks, counters, world, arg, data, curr_cv, got>>

TakeData(t) ==
  /\ data[t] # NULL
  /\ Goto(t, "d_check", "d_return")
  /\ arg' = [arg EXCEPT ![t] = data[t]]
  /\ data' = [data EXCEPT ![t] = NULL]
  /\ visited_count' = visited_count + 1
  /\ UnlockQ(t)
  /\ UNCHANGED <<lists, waiting_queue_lock, waiting_count, world, curr_cv, got>>

DequeueReturn(t) ==
  /\ Goto(t, "d_return", "idle")
  /\ waiting_count' = waiting_count - 1
  /\ got' = [got EXCEPT ![t] = Append(@, arg[t])]
  /\ arg' = [arg EXCEPT ![t] = NULL]
  /\ UNCHANGED <<lists, locks, visited_count, world, data, curr_cv>>

dequeue(t) == DequeueLockQ(t) \/ DequeueFirst(t) \/ AllocateNode(t) \/ DequeueLockW(t)
              \/ Register(t) \/ Wait(t) \/ WaitRelock(t) \/ WaitAgain(t)
              \/ TakeData(t) \/ DequeueReturn(t)

(***************************************************************************)
(* tryDequeue                                                              *)
(***************************************************************************)
TryLockQ(t) ==
  /\ Goto(t, "t_lockQ", "t_inQ")
  /\ LockQ(t)
  /\ UNCHANGED <<lists, waiting_queue_lock, counters, world, arg, data, curr_cv, got>>

TryEmpty(t) ==
  /\ queue = <<>>
  /\ Goto(t, "t_inQ", "idle")
  /\ UnlockQ(t)
  /\ UNCHANGED <<lists, waiting_queue_lock, counters, world, arg, data, curr_cv, got>>

\* Mutant: the first node is returned but not unlinked.
TryFirstKeeps(t) ==
  /\ queue # <<>>
  /\ Goto(t, "t_inQ", "t_return")
  /\ arg' = [arg EXCEPT ![t] = Head(queue)]
  /\ UnlockQ(t)
  /\ UNCHANGED <<lists, waiting_queue_lock, counters, world, data, curr_cv, got>>

TryFirst(t) ==
  /\ queue # <<>>
  /\ Goto(t, "t_inQ", "t_return")
  /\ arg' = [arg EXCEPT ![t] = Head(queue)]
  /\ queue' = Tail(queue)
  /\ UnlockQ(t)
  /\ UNCHANGED <<waiting_queue, waiting_queue_lock, counters, world, data, curr_cv, got>>

\* Mutant: tryDequeue ends as dequeue does, which had registered.
TryReturnUncounts(t) ==
  /\ Goto(t, "t_return", "idle")
  /\ visited_count' = visited_count + 1 /\ waiting_count' = waiting_count - 1
  /\ got' = [got EXCEPT ![t] = Append(@, arg[t])]
  /\ arg' = [arg EXCEPT ![t] = NULL]
  /\ UNCHANGED <<lists, locks, world, data, curr_cv>>

\* visited_count is incremented after the unlock.
TryReturn(t) ==
  /\ Goto(t, "t_return", "idle")
  /\ visited_count' = visited_count + 1
  /\ got' = [got EXCEPT ![t] = Append(@, arg[t])]
  /\ arg' = [arg EXCEPT ![t] = NULL]
  /\ UNCHANGED <<lists, locks, waiting_count, world, data, curr_cv>>

tryDequeue(t) == TryLockQ(t) \/ TryEmpty(t) \/ TryFirst(t) \/ TryReturn(t)

(***************************************************************************)
(* destroyQueue, called as test.c does: when every thread has been joined. *)
(* It dequeues and drops what is left, one item at a time, then frees what *)
(* is still linked in the waiting list.                                    *)
(***************************************************************************)
ItemsOf(s) == {s[k] : k \in 1..Len(s)}

DestroyDequeue ==
  /\ ~ Garbage /\ phase # "down"
  /\ \A t \in Thread : pc[t] = "idle"
  /\ queue # <<>>
  /\ drained' = drained \cup {Head(queue)}
  /\ queue' = Tail(queue)
  /\ visited_count' = visited_count + 1
  /\ phase' = "draining"
  /\ UNCHANGED <<pc, arg, locks, waiting_queue, data, curr_cv, waiting_count,
                 calls, fresh, got>>

DestroyLists ==
  /\ ~ Garbage /\ phase # "down"
  /\ \A t \in Thread : pc[t] = "idle"
  /\ queue = <<>>
  /\ waiting_queue' = <<>>
  /\ phase' = "down"
  /\ UNCHANGED <<pc, arg, locks, queue, data, curr_cv, counters, calls, fresh,
                 got, drained>>

destroyQueue == DestroyDequeue \/ DestroyLists

\* The observers: what size(), waiting() and visited() return.
size == Len(queue)
waiting == waiting_count
visited == visited_count

Step(t) == enqueue(t) \/ dequeue(t) \/ tryDequeue(t)
NewCall(t) == CallEnqueue(t) \/ CallDequeue(t) \/ CallTryDequeue(t)

Next == \/ \E t \in Thread : NewCall(t) \/ Step(t) \/ SpuriousWakeup(t)
        \/ destroyQueue

Spec == Init /\ [][Next]_vars

\* The scheduler runs every thread that can run.  Calls are finitely many and no thread
\* wakes up for nothing for ever, so weak fairness also lets a thread get a mutex others
\* release.  Nothing makes a thread call.
FairSpec ==
  /\ Spec
  /\ \A t \in Thread : WF_vars(Step(t))
  /\ <>[][~ \E t \in Thread : SpuriousWakeup(t)]_vars

-----------------------------------------------------------------------------
HoldsQ(t) == pc[t] \in {"e_inQ", "d_inQ", "d_lockW", "d_inW", "d_wait", "d_check", "t_inQ"}
HoldsW(t) == pc[t] \in {"e_inW", "d_inW"}

TypeOK ==
  /\ pc \in [Thread -> PC]
  /\ arg \in [Thread -> Item \cup {NULL, Junk}]
  /\ queue \in Seq(Item)
  /\ queue_lock \in Thread \cup {NULL}
  /\ waiting_queue \in Seq(Node)
  /\ waiting_queue_lock \in Thread \cup {NULL}
  /\ data \in [Thread -> Item \cup {NULL, Junk}]
  /\ curr_cv \in [Thread -> Node \cup {NULL}]
  /\ waiting_count \in Nat
  /\ visited_count \in Nat
  /\ calls \in [Thread -> 0..MaxCalls]
  /\ fresh \subseteq Item
  /\ got \in [Thread -> Seq(Item \cup {Junk})]
  /\ drained \subseteq Item
  /\ phase \in {"up", "draining", "down"}

\* Two threads are never inside the sections queue.lock protects, nor inside those
\* waiting_queue.lock protects, and a section is entered only by the lock's owner
\* (the locks of lines 89-97, 108-118, 122-165 and 174-182).
MutualExclusion ==
  \A t \in Thread : (HoldsQ(t) <=> queue_lock = t) /\ (HoldsW(t) <=> waiting_queue_lock = t)

Delivered == UNION {ItemsOf(got[t]) : t \in Thread}

\* Once no call is in progress, as after the joins of test.c, the counters tell the
\* truth: nobody is registered, waiting() is 0, and visited() is the number of
\* pointers that were returned or drained (the ++ and -- of lines 138, 155, 157,
\* 164 and 184 run under different locks or none).
JoinedCounters ==
  (\A t \in Thread : pc[t] = "idle") =>
    /\ waiting_queue = <<>>
    /\ waiting = 0
    /\ visited = Cardinality(Delivered) + Cardinality(drained)

\* An enqueued pointer is in exactly one place: carried by one call, linked in the
\* queue once, in one waiter's node, returned once by one call, or drained.  So the
\* hand-over of lines 89-102 and the two unlink sections neither lose nor duplicate,
\* and after the joins of test.c the counters agree with what was returned.  It holds
\* until a wakeup for nothing returns what malloc left.
ExactlyOnce == ~ Garbage =>
  LET inQueue(i) == {k \in 1..Len(queue) : queue[k] = i}
      inCalls(i) == {t \in Thread : arg[t] = i}
      inData(i)  == {t \in Thread : data[t] = i}
      inGot(i)   == {e \in Thread \X (1..MaxCalls) : e[2] <= Len(got[e[1]]) /\ got[e[1]][e[2]] = i}
  IN /\ JoinedCounters
     /\ \A i \in Item :
          Cardinality(inQueue(i)) + Cardinality(inCalls(i)) + Cardinality(inData(i))
            + Cardinality(inGot(i)) + Cardinality({i} \cap (fresh \cup drained)) = 1

\* waiting() is exact at every moment, though lines 138 and 157 change it under
\* different protection: it counts the threads between joining the waiting list and
\* returning from dequeue.
Registered == {t \in Thread : pc[t] \in {"d_wait", "d_sleep", "d_relock", "d_check", "d_return"}}
WaitingIsExact == waiting = Cardinality(Registered)

\* Nobody hands an item to a freed node: those linked in the waiting list are allocated,
\* one for each waiter, and none has been served (lines 93-97, 130-139, 154), until a
\* wakeup for nothing returns what malloc left.
LinkedNodesWait == ~ Garbage =>
  /\ \A k \in 1..Len(waiting_queue) :
       LET n == waiting_queue[k] IN Live(n) /\ data[n[1]] \notin Item
  /\ \A k, l \in 1..Len(waiting_queue) : waiting_queue[k] = waiting_queue[l] => k = l

\* queue1.c:88 "if there are waiting threads, wake up the first one that arrived":
\* a thread whose node was given an item returns from dequeue.
HandedOverReturns ==
  \A t \in Thread : (pc[t] \in NodePcs /\ data[t] \in Item) ~> pc[t] = "idle" \/ Garbage

\* A waiter that is asleep when the enqueue that served it is about to signal it wakes up
\* and returns, whatever the other threads do, unless one of them returns garbage (lines
\* 100, 143-158).  One that is awake then, before its first cnd_wait (140-143) or between
\* the test and the next one (147-148), can sleep for ever: HandedOverReturns.
SleeperReturns ==
  \A t \in Thread :
    (pc[t] = "d_sleep" /\ \E u \in Thread : pc[u] = "e_signal" /\ curr_cv[u] = NodeOf(t))
      ~> pc[t] = "idle" \/ Garbage

Held == ItemsOf(queue) \cup ({data[t] : t \in Thread} \cap Item)
Taken(t) == ItemsOf(got[t]) \cup (IF pc[t] \in {"d_return", "t_return"} THEN {arg[t]} ELSE {})
Main == "main"   \* the caller of destroyQueue
ASSUME MainAssumption == Main \notin Thread
HandOverAbs == INSTANCE Transfer WITH
  Caller <- Thread \cup {Main},
  held   <- Held,
  taken  <- [c \in Thread \cup {Main} |-> IF c = Main THEN drained ELSE Taken(c)]
\* Every behaviour is one of the abstract hand-over, until a wakeup for nothing returns
\* what malloc left: an item is held from the moment it is linked (lines 104-117) or
\* written into a node (93), and taken by the call that removes it (152-165, 179-182).
HandOverIsTransfer ==
  HandOverAbs!Init /\ [][HandOverAbs!Next \/ Garbage']_HandOverAbs!vars
=============================================================================
