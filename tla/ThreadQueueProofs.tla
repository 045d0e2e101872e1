-------------------------- MODULE ThreadQueueProofs --------------------------
(***************************************************************************)
(* Proofs about ThreadQueue, for every number of threads, items and calls. *)
(* First, its state is well typed, the sections under its two locks        *)
(* exclude each other, and waiting() is exact: the inductive invariant     *)
(* adds to these what a thread's locals hold at each point of its call.    *)
(* Then what it hands over: every item is in exactly one place, a node in  *)
(* the waiting list is allocated, and the queue implements Transfer.       *)
(***************************************************************************)
EXTENDS ThreadQueue, FiniteSetTheorems, SequenceTheorems, TLAPS

-----------------------------------------------------------------------------
(* A queue after a push and a pop.                                         *)

SetOf(q) == {q[k] : k \in 1..Len(q)}
Injective(q) == \A k, l \in 1..Len(q) : q[k] = q[l] => k = l

\* Appending an element to a sequence without repetitions.
LEMMA AppendSet ==
  ASSUME NEW S, NEW q \in Seq(S), NEW e \in S
  PROVE  /\ SetOf(Append(q, e)) = SetOf(q) \cup {e}
         /\ Injective(q) /\ e \notin SetOf(q) => Injective(Append(q, e))
<1> DEFINE r == Append(q, e)
<1>1. /\ Len(q) \in Nat /\ Len(r) = Len(q) + 1
      /\ \A k \in 1..Len(q) : r[k] = q[k]
      /\ r[Len(q) + 1] = e
  BY AppendProperties
<1> HIDE DEF r
<1>2. SetOf(r) = SetOf(q) \cup {e}
  <2>1. ASSUME NEW x \in SetOf(r) PROVE x \in SetOf(q) \cup {e}
    BY <1>1, <2>1 DEF SetOf
  <2>2. SetOf(q) \subseteq SetOf(r)
    BY <1>1 DEF SetOf
  <2>3. e \in SetOf(r)
    BY <1>1 DEF SetOf
  <2> QED
    BY <2>1, <2>2, <2>3
<1>3. Injective(q) /\ e \notin SetOf(q) => Injective(r)
  BY <1>1 DEF Injective, SetOf
<1> QED
  BY <1>2, <1>3 DEF r

\* Removing the head of a sequence without repetitions.
LEMMA TailSet ==
  ASSUME NEW S, NEW q \in Seq(S), q # <<>>, Injective(q)
  PROVE  /\ Head(q) \in SetOf(q)
         /\ SetOf(Tail(q)) = SetOf(q) \ {Head(q)}
         /\ Injective(Tail(q))
<1> DEFINE r == Tail(q)
<1>1. /\ Len(q) \in Nat \ {0} /\ Len(r) = Len(q) - 1 /\ Head(q) = q[1]
      /\ \A k \in 1..Len(r) : r[k] = q[k + 1]
  BY HeadTailProperties
<1> HIDE DEF r
<1>2. q[1] \in SetOf(q)
  BY <1>1 DEF SetOf
<1>3. ASSUME NEW x \in SetOf(r) PROVE x \in SetOf(q) \ {q[1]}
  <2>1. PICK k \in 1..Len(r) : x = r[k]
    BY <1>3 DEF SetOf
  <2>2. k + 1 \in 1..Len(q) /\ x = q[k + 1] /\ k + 1 # 1
    BY <1>1, <2>1
  <2>3. 1 \in 1..Len(q)
    BY <1>1
  <2> QED
    BY <2>2, <2>3 DEF SetOf, Injective
<1>4. ASSUME NEW x \in SetOf(q) \ {q[1]} PROVE x \in SetOf(r)
  <2>1. PICK k \in 1..Len(q) : x = q[k]
    BY <1>4 DEF SetOf
  <2>2. k # 1 /\ k - 1 \in 1..Len(r)
    BY <1>1, <1>4, <2>1
  <2>3. r[k - 1] = x
    BY <1>1, <2>1, <2>2
  <2> QED
    BY <2>2, <2>3 DEF SetOf
<1>5. Injective(r)
  BY <1>1 DEF Injective
<1> QED
  BY <1>1, <1>2, <1>3, <1>4, <1>5 DEF r

-----------------------------------------------------------------------------
\* A thread carries an item until its enqueue has let go of it, carries a pointer it
\* is about to return, and has made the call it is in.
LocalsFit ==
  \A t \in Thread :
    /\ pc[t] \in {"e_lockW", "e_inW", "e_lockQ", "e_inQ"} => arg[t] \in Item
    /\ pc[t] \in {"d_return", "t_return"} => arg[t] # NULL
    /\ pc[t] # "idle" => calls[t] > 0

IInv == TypeOK /\ LocalsFit /\ MutualExclusion /\ WaitingIsExact

\* The initial states satisfy the inductive invariant: no call has begun, both locks
\* are free and nobody is registered.
LEMMA InitEstablishes == Init => IInv
<1> SUFFICES ASSUME Init PROVE IInv
  OBVIOUS
<1>1. TypeOK
  BY ConstantsAssumption DEF Init, TypeOK, PC, EnqueuePcs, DequeuePcs, TryPcs
<1>2. LocalsFit
  BY DEF Init, LocalsFit
<1>3. MutualExclusion
  BY ConstantsAssumption DEF Init, MutualExclusion, HoldsQ, HoldsW
<1>4. WaitingIsExact
  <2>1. Registered = {}
    BY DEF Init, Registered
  <2> QED
    BY <2>1, FS_EmptySet DEF Init, WaitingIsExact, waiting
<1> QED
  BY <1>1, <1>2, <1>3, <1>4 DEF IInv

\* Every step of every thread and of destroyQueue keeps each variable in its type.
LEMMA TypePreserved == IInv /\ [Next]_vars => TypeOK'
<1> SUFFICES ASSUME IInv, [Next]_vars PROVE TypeOK'
  OBVIOUS
<1> USE ConstantsAssumption DEF IInv, TypeOK, PC, EnqueuePcs, DequeuePcs, TryPcs, Goto,
      LockQ, LockW, UnlockQ, UnlockW, lists, locks, counters, world
<1>1. ASSUME NEW t \in Thread, CallEnqueue(t) PROVE TypeOK'
  BY <1>1 DEF CallEnqueue, Call
<1>2. ASSUME NEW t \in Thread, CallDequeue(t) \/ CallTryDequeue(t) PROVE TypeOK'
  <2>1. CASE CallDequeue(t)
    BY <2>1 DEF CallDequeue, Call
  <2>2. CASE CallTryDequeue(t)
    BY <2>2 DEF CallTryDequeue, Call
  <2> QED
    BY <1>2, <2>1, <2>2
<1>3. ASSUME NEW t \in Thread, EnqueueLockW(t) PROVE TypeOK'
  BY <1>3 DEF EnqueueLockW
<1>4. ASSUME NEW t \in Thread, HandOver(t) PROVE TypeOK'
  <2>1. Head(waiting_queue) \in Node /\ Tail(waiting_queue) \in Seq(Node)
    BY <1>4 DEF HandOver
  <2>2. arg[t] \in Item
    BY <1>4 DEF HandOver, LocalsFit
  <2> QED
    BY <1>4, <2>1, <2>2 DEF HandOver, Node
<1>5. ASSUME NEW t \in Thread, NoWaiter(t) PROVE TypeOK'
  BY <1>5 DEF NoWaiter
<1>6. ASSUME NEW t \in Thread, Signal(t) PROVE TypeOK'
  BY <1>6 DEF Signal
<1>7. ASSUME NEW t \in Thread, EnqueueLockQ(t) PROVE TypeOK'
  BY <1>7 DEF EnqueueLockQ
<1>8. ASSUME NEW t \in Thread, EnqueueAppend(t) PROVE TypeOK'
  <2>1. arg[t] \in Item
    BY <1>8 DEF EnqueueAppend, LocalsFit
  <2> QED
    BY <1>8, <2>1 DEF EnqueueAppend
<1>9. ASSUME NEW t \in Thread, DequeueLockQ(t) PROVE TypeOK'
  BY <1>9 DEF DequeueLockQ
<1>10. ASSUME NEW t \in Thread, DequeueFirst(t) PROVE TypeOK'
  BY <1>10 DEF DequeueFirst
<1>11. ASSUME NEW t \in Thread, AllocateNode(t) PROVE TypeOK'
  BY <1>11 DEF AllocateNode
<1>12. ASSUME NEW t \in Thread, DequeueLockW(t) PROVE TypeOK'
  BY <1>12 DEF DequeueLockW
<1>13. ASSUME NEW t \in Thread, Register(t) PROVE TypeOK'
  <2>1. NodeOf(t) \in Node
    <3>1. calls[t] > 0
      BY <1>13 DEF Register, LocalsFit
    <3>2. calls[t] \in 0..MaxCalls /\ MaxCalls \in Nat
      OBVIOUS
    <3> HIDE DEF TypeOK, IInv
    <3>3. calls[t] \in 1..MaxCalls
      BY <3>1, <3>2
    <3> QED
      BY <3>3 DEF NodeOf, Node
  <2>2. waiting_queue' \in Seq(Node)
    <3>1. waiting_queue \in Seq(Node) /\ waiting_queue' = Append(waiting_queue, NodeOf(t))
      BY <1>13 DEF Register
    <3> HIDE DEF TypeOK
    <3> QED
      BY <2>1, <3>1, AppendProperties
  <2>3. UNCHANGED <<queue, visited_count, arg, data, curr_cv, got>> /\ UNCHANGED world
    BY <1>13 DEF Register
  <2>4. pc' \in [Thread -> PC] /\ waiting_count' \in Nat
    BY <1>13 DEF Register
  <2>5. queue_lock' = queue_lock /\ waiting_queue_lock' = NULL
    BY <1>13 DEF Register
  <2> QED
    BY <2>2, <2>3, <2>4, <2>5
<1>14. ASSUME NEW t \in Thread, Wait(t) \/ SpuriousWakeup(t) PROVE TypeOK'
  BY <1>14 DEF Wait, SpuriousWakeup
<1>15. ASSUME NEW t \in Thread, WaitRelock(t) \/ WaitAgain(t) PROVE TypeOK'
  BY <1>15 DEF WaitRelock, WaitAgain
<1>16. ASSUME NEW t \in Thread, TakeData(t) PROVE TypeOK'
  BY <1>16 DEF TakeData
<1>17. ASSUME NEW t \in Thread, DequeueReturn(t) PROVE TypeOK'
  <2>1. t \in Registered /\ IsFiniteSet(Registered)
    BY <1>17, FS_Subset DEF DequeueReturn, Registered
  <2>2. Cardinality(Registered) # 0
    BY <2>1, FS_EmptySet
  <2>3. waiting_count - 1 \in Nat
    BY <2>2 DEF WaitingIsExact, waiting
  <2>4. arg[t] \in Item \cup {Junk}
    BY <1>17 DEF DequeueReturn, LocalsFit
  <2>5. got' \in [Thread -> Seq(Item \cup {Junk})]
    BY <1>17, <2>4 DEF DequeueReturn
  <2> QED
    BY <1>17, <2>3, <2>5 DEF DequeueReturn
<1>18. ASSUME NEW t \in Thread, TryLockQ(t) \/ TryEmpty(t) PROVE TypeOK'
  BY <1>18 DEF TryLockQ, TryEmpty
<1>19. ASSUME NEW t \in Thread, TryFirst(t) PROVE TypeOK'
  BY <1>19 DEF TryFirst
<1>20. ASSUME NEW t \in Thread, TryReturn(t) PROVE TypeOK'
  <2>1. arg[t] \in Item \cup {Junk}
    BY <1>20 DEF TryReturn, LocalsFit
  <2>2. got' \in [Thread -> Seq(Item \cup {Junk})]
    BY <1>20, <2>1 DEF TryReturn
  <2> QED
    BY <1>20, <2>2 DEF TryReturn
<1>21. ASSUME destroyQueue PROVE TypeOK'
  <2>1. CASE DestroyDequeue
    <3>1. Head(queue) \in Item /\ Tail(queue) \in Seq(Item)
      BY <2>1 DEF DestroyDequeue
    <3> QED
      BY <2>1, <3>1 DEF DestroyDequeue
  <2>2. CASE DestroyLists
    BY <2>2 DEF DestroyLists
  <2> QED
    BY <1>21, <2>1, <2>2 DEF destroyQueue
<1>22. ASSUME UNCHANGED vars PROVE TypeOK'
  BY <1>22 DEF vars
<1> HIDE DEF IInv, TypeOK, PC, EnqueuePcs, DequeuePcs, TryPcs, Goto, LockQ, LockW,
      UnlockQ, UnlockW, lists, locks, counters, world
<1> QED
  BY <1>1, <1>2, <1>3, <1>4, <1>5, <1>6, <1>7, <1>8, <1>9, <1>10, <1>11, <1>12, <1>13,
     <1>14, <1>15, <1>16, <1>17, <1>18, <1>19, <1>20, <1>21, <1>22
     DEF Next, NewCall, Step, enqueue, dequeue, tryDequeue

\* What a thread's locals hold fits where it is, whatever the others do: enqueue's
\* argument is an item, and dequeue and tryDequeue are about to return a pointer.
LEMMA LocalsPreserved == IInv /\ [Next]_vars => LocalsFit'
<1> SUFFICES ASSUME IInv, [Next]_vars PROVE LocalsFit'
  OBVIOUS
<1> USE ConstantsAssumption DEF IInv, TypeOK, LocalsFit, PC, EnqueuePcs, DequeuePcs, TryPcs,
      Goto, lists, locks, counters, world
<1>1. ASSUME NEW t \in Thread, CallEnqueue(t) PROVE LocalsFit'
  BY <1>1 DEF CallEnqueue, Call
<1>2. ASSUME NEW t \in Thread, CallDequeue(t) PROVE LocalsFit'
  BY <1>2 DEF CallDequeue, Call
<1>3. ASSUME NEW t \in Thread, CallTryDequeue(t) PROVE LocalsFit'
  BY <1>3 DEF CallTryDequeue, Call
<1>4. ASSUME NEW t \in Thread, enqueue(t) PROVE LocalsFit'
  <2>1. CASE EnqueueLockW(t)
    BY <2>1 DEF EnqueueLockW
  <2>2. CASE HandOver(t)
    BY <2>2 DEF HandOver
  <2>3. CASE NoWaiter(t)
    BY <2>3 DEF NoWaiter
  <2>4. CASE Signal(t)
    BY <2>4 DEF Signal, Live, NodePcs
  <2>5. CASE EnqueueLockQ(t)
    BY <2>5 DEF EnqueueLockQ
  <2>6. CASE EnqueueAppend(t)
    BY <2>6 DEF EnqueueAppend
  <2> QED
    BY <1>4, <2>1, <2>2, <2>3, <2>4, <2>5, <2>6 DEF enqueue
<1>5. ASSUME NEW t \in Thread, dequeue(t) PROVE LocalsFit'
  <2>1. CASE DequeueLockQ(t)
    BY <2>1 DEF DequeueLockQ
  <2>2. CASE DequeueFirst(t)
    BY <2>2 DEF DequeueFirst
  <2>3. CASE AllocateNode(t)
    BY <2>3 DEF AllocateNode
  <2>4. CASE DequeueLockW(t)
    BY <2>4 DEF DequeueLockW
  <2>5. CASE Register(t)
    BY <2>5 DEF Register
  <2>6. CASE Wait(t)
    BY <2>6 DEF Wait
  <2>7. CASE WaitRelock(t)
    BY <2>7 DEF WaitRelock
  <2>8. CASE WaitAgain(t)
    BY <2>8 DEF WaitAgain
  <2>9. CASE TakeData(t)
    BY <2>9 DEF TakeData
  <2>10. CASE DequeueReturn(t)
    BY <2>10 DEF DequeueReturn
  <2> QED
    BY <1>5, <2>1, <2>2, <2>3, <2>4, <2>5, <2>6, <2>7, <2>8, <2>9, <2>10 DEF dequeue
<1>6. ASSUME NEW t \in Thread, tryDequeue(t) PROVE LocalsFit'
  <2>1. CASE TryLockQ(t)
    BY <2>1 DEF TryLockQ
  <2>2. CASE TryEmpty(t)
    BY <2>2 DEF TryEmpty
  <2>3. CASE TryFirst(t)
    <3>1. Head(queue) \in Item
      BY <2>3 DEF TryFirst
    <3> QED
      BY <2>3, <3>1 DEF TryFirst
  <2>4. CASE TryReturn(t)
    BY <2>4 DEF TryReturn
  <2> QED
    BY <1>6, <2>1, <2>2, <2>3, <2>4 DEF tryDequeue
<1>7. ASSUME NEW t \in Thread, SpuriousWakeup(t) PROVE LocalsFit'
  BY <1>7 DEF SpuriousWakeup
<1>8. ASSUME destroyQueue PROVE LocalsFit'
  BY <1>8 DEF destroyQueue, DestroyDequeue, DestroyLists
<1>9. ASSUME UNCHANGED vars PROVE LocalsFit'
  BY <1>9 DEF vars
<1> HIDE DEF IInv, TypeOK, LocalsFit, PC, EnqueuePcs, DequeuePcs, TryPcs, Goto, lists,
      locks, counters, world
<1> QED
  BY <1>1, <1>2, <1>3, <1>4, <1>5, <1>6, <1>7, <1>8, <1>9 DEF Next, NewCall, Step

\* A step of one thread takes a lock only when it is free, gives up only its own, and is
\* inside a section exactly while it owns its lock; the other threads' places and locks
\* are left alone, but for the sleeper a signal wakes, which holds nothing.
LEMMA LocksPreserved == IInv /\ [Next]_vars => MutualExclusion'
<1> SUFFICES ASSUME IInv, [Next]_vars PROVE MutualExclusion'
  OBVIOUS
<1> USE ConstantsAssumption DEF IInv, TypeOK, MutualExclusion, HoldsQ, HoldsW, PC,
      EnqueuePcs, DequeuePcs, TryPcs, Goto, LockQ, LockW, UnlockQ, UnlockW, lists, locks
<1>1. ASSUME NEW t \in Thread, NewCall(t) PROVE MutualExclusion'
  BY <1>1 DEF NewCall, CallEnqueue, CallDequeue, CallTryDequeue, Call
<1>2. ASSUME NEW t \in Thread, enqueue(t) PROVE MutualExclusion'
  <2>1. CASE EnqueueLockW(t)
    BY <2>1 DEF EnqueueLockW
  <2>2. CASE HandOver(t)
    BY <2>2 DEF HandOver
  <2>3. CASE NoWaiter(t)
    BY <2>3 DEF NoWaiter
  <2>4. CASE Signal(t)
    BY <2>4 DEF Signal
  <2>5. CASE EnqueueLockQ(t)
    BY <2>5 DEF EnqueueLockQ
  <2>6. CASE EnqueueAppend(t)
    BY <2>6 DEF EnqueueAppend
  <2> QED
    BY <1>2, <2>1, <2>2, <2>3, <2>4, <2>5, <2>6 DEF enqueue
<1>3. ASSUME NEW t \in Thread, dequeue(t) PROVE MutualExclusion'
  <2>1. CASE DequeueLockQ(t)
    BY <2>1 DEF DequeueLockQ
  <2>2. CASE DequeueFirst(t)
    BY <2>2 DEF DequeueFirst
  <2>3. CASE AllocateNode(t)
    BY <2>3 DEF AllocateNode
  <2>4. CASE DequeueLockW(t)
    BY <2>4 DEF DequeueLockW
  <2>5. CASE Register(t)
    BY <2>5 DEF Register
  <2>6. CASE Wait(t)
    BY <2>6 DEF Wait
  <2>7. CASE WaitRelock(t)
    BY <2>7 DEF WaitRelock
  <2>8. CASE WaitAgain(t)
    BY <2>8 DEF WaitAgain
  <2>9. CASE TakeData(t)
    BY <2>9 DEF TakeData
  <2>10. CASE DequeueReturn(t)
    BY <2>10 DEF DequeueReturn
  <2> QED
    BY <1>3, <2>1, <2>2, <2>3, <2>4, <2>5, <2>6, <2>7, <2>8, <2>9, <2>10 DEF dequeue
<1>4. ASSUME NEW t \in Thread, tryDequeue(t) PROVE MutualExclusion'
  <2>1. CASE TryLockQ(t)
    BY <2>1 DEF TryLockQ
  <2>2. CASE TryEmpty(t)
    BY <2>2 DEF TryEmpty
  <2>3. CASE TryFirst(t)
    BY <2>3 DEF TryFirst
  <2>4. CASE TryReturn(t)
    BY <2>4 DEF TryReturn
  <2> QED
    BY <1>4, <2>1, <2>2, <2>3, <2>4 DEF tryDequeue
<1>5. ASSUME NEW t \in Thread, SpuriousWakeup(t) PROVE MutualExclusion'
  BY <1>5 DEF SpuriousWakeup
<1>6. ASSUME destroyQueue PROVE MutualExclusion'
  BY <1>6 DEF destroyQueue, DestroyDequeue, DestroyLists
<1>7. ASSUME UNCHANGED vars PROVE MutualExclusion'
  BY <1>7 DEF vars
<1> HIDE DEF IInv, TypeOK, MutualExclusion, HoldsQ, HoldsW, PC, EnqueuePcs, DequeuePcs,
      TryPcs, Goto, LockQ, LockW, UnlockQ, UnlockW, lists, locks
<1> QED
  BY <1>1, <1>2, <1>3, <1>4, <1>5, <1>6, <1>7 DEF Next, Step

\* waiting_count follows the set it counts: Register adds its thread to both, DequeueReturn
\* takes it from both, and no other step moves a thread into or out of the set.
LEMMA CountPreserved == IInv /\ [Next]_vars => WaitingIsExact'
<1> SUFFICES ASSUME IInv, [Next]_vars PROVE WaitingIsExact'
  OBVIOUS
<1> DEFINE Same == waiting_count' = waiting_count /\ Registered' = Registered
<1>1. Same => WaitingIsExact'
  BY DEF IInv, WaitingIsExact, waiting
<1>2. IsFiniteSet(Registered)
  BY ConstantsAssumption, FS_Subset DEF Registered
<1>3. pc \in [Thread -> PC]
  BY DEF IInv, TypeOK
<1>4. ASSUME NEW t \in Thread, Register(t) PROVE WaitingIsExact'
  <2>1. Registered' = Registered \cup {t} /\ t \notin Registered
    BY <1>3, <1>4 DEF Register, Goto, Registered
  <2>2. Cardinality(Registered') = Cardinality(Registered) + 1
    BY <1>2, <2>1, FS_AddElement
  <2> QED
    BY <1>4, <2>2 DEF Register, IInv, WaitingIsExact, waiting
<1>5. ASSUME NEW t \in Thread, DequeueReturn(t) PROVE WaitingIsExact'
  <2>1. Registered' = Registered \ {t} /\ t \in Registered
    BY <1>3, <1>5 DEF DequeueReturn, Goto, Registered
  <2>2. Cardinality(Registered') = Cardinality(Registered) - 1
    BY <1>2, <2>1, FS_RemoveElement
  <2> QED
    BY <1>5, <2>2 DEF DequeueReturn, IInv, WaitingIsExact, waiting
<1>6. ASSUME NEW t \in Thread, NewCall(t) PROVE Same
  BY <1>3, <1>6 DEF NewCall, CallEnqueue, CallDequeue, CallTryDequeue, Call, Goto, Registered,
     counters
<1>7. ASSUME NEW t \in Thread, enqueue(t) PROVE Same
  <2>1. CASE Signal(t)
    BY <1>3, <2>1 DEF Signal, Registered, counters
  <2>2. CASE EnqueueLockW(t) \/ HandOver(t) \/ NoWaiter(t)
    BY <1>3, <2>2 DEF EnqueueLockW, HandOver, NoWaiter, Goto, Registered, counters
  <2>3. CASE EnqueueLockQ(t) \/ EnqueueAppend(t)
    BY <1>3, <2>3 DEF EnqueueLockQ, EnqueueAppend, Goto, Registered, counters
  <2> QED
    BY <1>7, <2>1, <2>2, <2>3 DEF enqueue
<1>8. ASSUME NEW t \in Thread, dequeue(t), ~ Register(t), ~ DequeueReturn(t) PROVE Same
  <2>1. CASE DequeueLockQ(t) \/ DequeueFirst(t)
    BY <1>3, <2>1 DEF DequeueLockQ, DequeueFirst, Goto, Registered, counters
  <2>2. CASE AllocateNode(t) \/ DequeueLockW(t)
    BY <1>3, <2>2 DEF AllocateNode, DequeueLockW, Goto, Registered, counters
  <2>3. CASE Wait(t) \/ WaitRelock(t) \/ WaitAgain(t)
    BY <1>3, <2>3 DEF Wait, WaitRelock, WaitAgain, Goto, Registered, counters
  <2>4. CASE TakeData(t)
    BY <1>3, <2>4 DEF TakeData, Goto, Registered
  <2> QED
    BY <1>8, <2>1, <2>2, <2>3, <2>4 DEF dequeue
<1>9. ASSUME NEW t \in Thread, tryDequeue(t) PROVE Same
  BY <1>3, <1>9 DEF tryDequeue, TryLockQ, TryEmpty, TryFirst, TryReturn, Goto, Registered,
     counters
<1>10. ASSUME NEW t \in Thread, SpuriousWakeup(t) PROVE Same
  BY <1>3, <1>10 DEF SpuriousWakeup, Goto, Registered, counters
<1>11. ASSUME destroyQueue PROVE Same
  BY <1>11 DEF destroyQueue, DestroyDequeue, DestroyLists, Registered, counters
<1>12. ASSUME UNCHANGED vars PROVE Same
  BY <1>12 DEF vars, Registered
<1> HIDE DEF Same
<1> QED
  BY <1>1, <1>4, <1>5, <1>6, <1>7, <1>8, <1>9, <1>10, <1>11, <1>12 DEF Next, Step

\* The inductive invariant holds in every reachable state.
THEOREM QueueInvariant == Spec => []IInv
<1>1. IInv /\ [Next]_vars => IInv'
  BY TypePreserved, LocalsPreserved, LocksPreserved, CountPreserved DEF IInv
<1> QED
  BY InitEstablishes, <1>1, PTL DEF Spec

\* Every variable of the queue keeps its type; in particular no null pointer is ever
\* returned and waiting_count never becomes negative (queue1.c:157).
THEOREM QueueTyped == Spec => []TypeOK
<1>1. IInv => TypeOK
  BY DEF IInv
<1> QED
  BY QueueInvariant, <1>1, PTL

\* No two threads are ever inside the sections of queue.lock, or of waiting_queue.lock.
THEOREM QueueMutualExclusion == Spec => []MutualExclusion
<1>1. IInv => MutualExclusion
  BY DEF IInv
<1> QED
  BY QueueInvariant, <1>1, PTL

\* waiting() always counts the threads registered and not yet returned.
THEOREM QueueWaitingIsExact == Spec => []WaitingIsExact
<1>1. IInv => WaitingIsExact
  BY DEF IInv
<1> QED
  BY QueueInvariant, <1>1, PTL

(***************************************************************************)
(* What the queue hands over: an item is always in exactly one place, a    *)
(* node linked in the waiting list is allocated, the counters add up once  *)
(* all calls have returned, and the queue implements the abstract          *)
(* Transfer.  All of it holds whatever malloc leaves in a new node, until  *)
(* a wakeup for nothing has returned it (Garbage), where the model stops.  *)
(***************************************************************************)

CarryPcs == {"e_lockW", "e_inW", "e_lockQ", "e_inQ", "d_return", "t_return"}
WaitPcs == {"d_wait", "d_sleep", "d_relock", "d_check"}

\* A call holds an item exactly between taking it over and letting go of it, and a node
\* can have been given one only while its thread waits.
HoldsFit ==
  \A t \in Thread :
    /\ arg[t] \in Item \cup {NULL} /\ data[t] \in Item \cup {NULL, Junk}
    /\ arg[t] = NULL <=> pc[t] \notin CarryPcs
    /\ pc[t] \notin WaitPcs => data[t] \notin Item

\* The nodes in the waiting list belong to waiters that were not served, one node each.
WaitersLinked ==
  /\ \A k \in 1..Len(waiting_queue) :
       LET n == waiting_queue[k] IN
         calls[n[1]] = n[2] /\ pc[n[1]] \in WaitPcs /\ data[n[1]] \notin Item
  /\ Injective(waiting_queue)

\* The items a function of the threads holds, each once.
ItemsIn(f) == {f[t] : t \in Thread} \cap Item
OneEach(f) == \A t, u \in Thread : f[t] = f[u] /\ f[t] \in Item => t = u
GotOnce(g) == \A t, u \in Thread : \A k \in 1..Len(g[t]), l \in 1..Len(g[u]) :
                g[t][k] = g[u][l] => t = u /\ k = l

InQueue == SetOf(queue)
InCalls == ItemsIn(arg)
InNodes == ItemsIn(data)

\* Every item is in exactly one of the six places.
InOnePlace(i) ==
  \/ i \in fresh     /\ i \notin InQueue \cup InCalls \cup InNodes \cup Delivered \cup drained
  \/ i \in InQueue   /\ i \notin fresh \cup InCalls \cup InNodes \cup Delivered \cup drained
  \/ i \in InCalls   /\ i \notin fresh \cup InQueue \cup InNodes \cup Delivered \cup drained
  \/ i \in InNodes   /\ i \notin fresh \cup InQueue \cup InCalls \cup Delivered \cup drained
  \/ i \in Delivered /\ i \notin fresh \cup InQueue \cup InCalls \cup InNodes \cup drained
  \/ i \in drained   /\ i \notin fresh \cup InQueue \cup InCalls \cup InNodes \cup Delivered

\* ... and there once.
OnePlace ==
  /\ \A i \in Item : InOnePlace(i)
  /\ Injective(queue) /\ OneEach(arg) /\ OneEach(data) /\ GotOnce(got)

\* A call returns at most one pointer, so that MaxCalls bounds what a thread has got.
GotFits ==
  /\ got \in [Thread -> Seq(Item)]
  /\ \A t \in Thread : /\ Len(got[t]) <= calls[t]
                       /\ pc[t] # "idle" => Len(got[t]) + 1 <= calls[t]

\* dequeue counts a visit when it takes the item, tryDequeue when it returns it.
Counted == {t \in Thread : pc[t] = "d_return"}
VisitedIsExact ==
  /\ IsFiniteSet(Delivered) /\ IsFiniteSet(drained)
  /\ visited_count = Cardinality(Delivered) + Cardinality(drained) + Cardinality(Counted)

HInv == /\ IInv
        /\ HoldsFit /\ WaitersLinked /\ OnePlace /\ GotFits /\ VisitedIsExact

-----------------------------------------------------------------------------
\* A function of the threads takes over an item it does not hold yet.
LEMMA PutItem ==
  ASSUME NEW f \in [Thread -> Item \cup {NULL, Junk}], NEW t \in Thread, NEW i \in Item,
         f[t] \notin Item, i \notin ItemsIn(f), OneEach(f)
  PROVE  /\ ItemsIn([f EXCEPT ![t] = i]) = ItemsIn(f) \cup {i}
         /\ OneEach([f EXCEPT ![t] = i])
<1> NULL \notin Item
  BY ConstantsAssumption
<1> QED
  BY DEF ItemsIn, OneEach

\* ... and lets go of one.
LEMMA ClearItem ==
  ASSUME NEW f \in [Thread -> Item \cup {NULL, Junk}], NEW t \in Thread,
         f[t] \in Item, OneEach(f)
  PROVE  /\ f[t] \in ItemsIn(f)
         /\ ItemsIn([f EXCEPT ![t] = NULL]) = ItemsIn(f) \ {f[t]}
         /\ OneEach([f EXCEPT ![t] = NULL])
<1> NULL \notin Item
  BY ConstantsAssumption
<1> QED
  BY DEF ItemsIn, OneEach

AllOf(g) == UNION {ItemsOf(g[t]) : t \in Thread}

\* A thread returns an item that no call has returned yet.
LEMMA ReturnItem ==
  ASSUME NEW g \in [Thread -> Seq(Item)], NEW t \in Thread, NEW i \in Item,
         i \notin AllOf(g), GotOnce(g)
  PROVE  \E h \in [Thread -> Seq(Item)] :
           /\ h = [g EXCEPT ![t] = Append(@, i)]
           /\ Len(h[t]) = Len(g[t]) + 1
           /\ AllOf(h) = AllOf(g) \cup {i}
           /\ GotOnce(h)
<1> DEFINE h == [g EXCEPT ![t] = Append(@, i)]
<1>1. /\ h[t] \in Seq(Item) /\ Len(g[t]) \in Nat /\ Len(h[t]) = Len(g[t]) + 1
      /\ \A k \in 1..Len(g[t]) : h[t][k] = g[t][k]
      /\ h[t][Len(g[t]) + 1] = i
  BY AppendProperties
<1>2. \A u \in Thread : u # t => h[u] = g[u]
  OBVIOUS
<1>3. h \in [Thread -> Seq(Item)]
  BY <1>1
<1>4. \A u \in Thread : Len(g[u]) \in Nat
  OBVIOUS
<1>5. \A u \in Thread : ItemsOf(h[u]) = IF u = t THEN ItemsOf(g[t]) \cup {i} ELSE ItemsOf(g[u])
  <2>1. ItemsOf(h[t]) \subseteq ItemsOf(g[t]) \cup {i}
    BY <1>1 DEF ItemsOf
  <2>2. ItemsOf(g[t]) \subseteq ItemsOf(h[t])
    BY <1>1 DEF ItemsOf
  <2>3. i \in ItemsOf(h[t])
    BY <1>1 DEF ItemsOf
  <2> QED
    BY <2>1, <2>2, <2>3, <1>2
<1>6. AllOf(h) = AllOf(g) \cup {i}
  BY <1>5 DEF AllOf
<1>7. \A u \in Thread : \A k \in 1..Len(g[u]) : g[u][k] # i
  BY DEF AllOf, ItemsOf
<1> HIDE DEF h
<1>8. \A k \in 1..Len(h[t]) :
        k = Len(g[t]) + 1 \/ (k \in 1..Len(g[t]) /\ h[t][k] = g[t][k])
  BY <1>1
<1>9. GotOnce(h)
  <2> SUFFICES ASSUME NEW u \in Thread, NEW v \in Thread,
                      NEW k \in 1..Len(h[u]), NEW l \in 1..Len(h[v]), h[u][k] = h[v][l]
               PROVE  u = v /\ k = l
    BY DEF GotOnce
  <2>1. (k = Len(g[t]) + 1 /\ u = t) \/ (k \in 1..Len(g[u]) /\ h[u][k] = g[u][k])
    <3>1. CASE u = t
      BY <1>8, <3>1, Zenon
    <3>2. CASE u # t
      <4>1. h[u] = g[u]
        BY <1>2, <3>2, Zenon
      <4> QED
        BY <4>1
    <3> QED
      BY <3>1, <3>2
  <2>2. (l = Len(g[t]) + 1 /\ v = t) \/ (l \in 1..Len(g[v]) /\ h[v][l] = g[v][l])
    <3>1. CASE v = t
      BY <1>8, <3>1, Zenon
    <3>2. CASE v # t
      <4>1. h[v] = g[v]
        BY <1>2, <3>2, Zenon
      <4> QED
        BY <4>1
    <3> QED
      BY <3>1, <3>2
  <2>3. CASE k \in 1..Len(g[u]) /\ h[u][k] = g[u][k] /\ l \in 1..Len(g[v]) /\ h[v][l] = g[v][l]
    <3>1. g[u][k] = g[v][l]
      BY <2>3
    <3>2. \A m \in 1..Len(g[u]), n \in 1..Len(g[v]) : g[u][m] = g[v][n] => u = v /\ m = n
      BY Zenon DEF GotOnce
    <3> QED
      BY <2>3, <3>1, <3>2
  <2>4. CASE k = Len(g[t]) + 1 /\ u = t
    BY <1>1, <1>7, <2>2, <2>4
  <2>5. CASE l = Len(g[t]) + 1 /\ v = t
    BY <1>1, <1>7, <2>1, <2>5
  <2> QED
    BY <2>1, <2>2, <2>3, <2>4, <2>5
<1> QED
  BY <1>1, <1>3, <1>6, <1>9 DEF h

-----------------------------------------------------------------------------
\* The initial states satisfy the invariant: every item is fresh.
LEMMA HInit == Init => HInv
<1> SUFFICES ASSUME Init PROVE HInv
  OBVIOUS
<1> USE ConstantsAssumption
<1>1. IInv
  BY InitEstablishes
<1>2. HoldsFit /\ WaitersLinked
  BY DEF Init, HoldsFit, WaitersLinked, CarryPcs, WaitPcs, Injective
<1>3. /\ InQueue = {} /\ InCalls = {} /\ InNodes = {} /\ Delivered = {}
      /\ drained = {} /\ fresh = Item
  BY DEF Init, InQueue, InCalls, InNodes, ItemsIn, Delivered, ItemsOf, SetOf
<1>4. OnePlace
  <2>1. \A i \in Item : InOnePlace(i)
    BY <1>3 DEF InOnePlace
  <2> QED
    BY <2>1 DEF Init, OnePlace, Injective, OneEach, GotOnce
<1>5. GotFits
  <2>1. <<>> \in Seq(Item) /\ Len(<<>>) = 0
    BY EmptySeq
  <2> QED
    BY <2>1 DEF Init, GotFits
<1>6. VisitedIsExact
  <2>1. Counted = {}
    BY DEF Init, Counted
  <2> QED
    BY <1>3, <2>1, FS_EmptySet DEF Init, VisitedIsExact
<1> QED
  BY <1>1, <1>2, <1>4, <1>5, <1>6 DEF HInv

\* The first node of the waiting list, which enqueue serves, is one of a waiter.
LEMMA FirstWaits ==
  ASSUME TypeOK, WaitersLinked, waiting_queue # <<>>
  PROVE  LET n == Head(waiting_queue) IN
           /\ n \in Node /\ n = NodeOf(n[1]) /\ n[1] \in Thread
           /\ calls[n[1]] = n[2] /\ pc[n[1]] \in WaitPcs /\ data[n[1]] \notin Item
           /\ Live(n)
<1> DEFINE n == waiting_queue[1]
<1>1. waiting_queue \in Seq(Node)
  BY DEF TypeOK
<1>2. Head(waiting_queue) = n /\ 1 \in 1..Len(waiting_queue) /\ n \in Node
  BY <1>1
<1>3. calls[n[1]] = n[2] /\ pc[n[1]] \in WaitPcs /\ data[n[1]] \notin Item
  BY <1>2 DEF WaitersLinked
<1> HIDE DEF n
<1>4. n[1] \in Thread /\ n = <<n[1], n[2]>>
  BY <1>2 DEF Node
<1> QED
  BY <1>2, <1>3, <1>4 DEF NodeOf, Live, WaitPcs, NodePcs

\* What the state says about the places, unprimed, for use with any step.
LEMMA PlacesTyped ==
  ASSUME HInv
  PROVE  /\ arg \in [Thread -> Item \cup {NULL, Junk}] /\ \A t \in Thread : arg[t] # Junk
         /\ data \in [Thread -> Item \cup {NULL, Junk}]
         /\ queue \in Seq(Item) /\ got \in [Thread -> Seq(Item)]
         /\ pc \in [Thread -> PC] /\ calls \in [Thread -> 0..MaxCalls]
         /\ Injective(queue) /\ OneEach(arg) /\ OneEach(data) /\ GotOnce(got)
         /\ Delivered = AllOf(got)
         /\ \A i \in Item : InOnePlace(i)
BY ConstantsAssumption DEF HInv, IInv, TypeOK, HoldsFit, OnePlace, GotFits, Delivered, AllOf

\* What a waiter takes is what it was given, as long as it is not garbage.
LEMMA TakesAnItem ==
  ASSUME HInv, NEW t \in Thread, TakeData(t), ~ Garbage'
  PROVE  data[t] \in Item
<1>1. data[t] # NULL /\ arg'[t] = data[t]
  BY PlacesTyped DEF TakeData
<1>2. arg'[t] # Junk
  BY DEF Garbage
<1> QED
  BY <1>1, <1>2, PlacesTyped

\* What a call carries, and what a node holds, fits where the thread is.
LEMMA HoldsPreserved == HInv /\ [Next]_vars /\ ~ Garbage' => HoldsFit'
<1> SUFFICES ASSUME HInv, [Next]_vars, ~ Garbage' PROVE HoldsFit'
  OBVIOUS
<1> USE ConstantsAssumption DEF HInv, IInv, TypeOK, HoldsFit, CarryPcs, WaitPcs,
      PC, EnqueuePcs, DequeuePcs, TryPcs, Goto, lists, locks, counters, world
<1>1. ASSUME NEW t \in Thread, CallEnqueue(t) PROVE HoldsFit'
  BY <1>1 DEF CallEnqueue, Call
<1>2. ASSUME NEW t \in Thread, CallDequeue(t) PROVE HoldsFit'
  BY <1>2 DEF CallDequeue, Call
<1>3. ASSUME NEW t \in Thread, CallTryDequeue(t) PROVE HoldsFit'
  BY <1>3 DEF CallTryDequeue, Call
<1>4. ASSUME NEW t \in Thread, enqueue(t) PROVE HoldsFit'
  <2>1. CASE EnqueueLockW(t)
    BY <2>1 DEF EnqueueLockW
  <2>2. CASE HandOver(t)
    <3> DEFINE n == Head(waiting_queue)
    <3>1. n \in Node /\ calls[n[1]] = n[2] /\ pc[n[1]] \in WaitPcs /\ data[n[1]] \notin Item
      BY <2>2, FirstWaits DEF HandOver
    <3>2. n[1] \in Thread
      BY <3>1 DEF Node
    <3>3. /\ arg[t] \in Item /\ pc[t] = "e_inW"
          /\ pc' = [pc EXCEPT ![t] = "e_signal"] /\ arg' = [arg EXCEPT ![t] = NULL]
          /\ data' = [data EXCEPT ![n[1]] = arg[t]] \/ data' = data
      BY <2>2 DEF HandOver, LocalsFit
    <3> HIDE DEF n
    <3>4. \A u \in Thread :
            arg'[u] \in Item \cup {NULL} /\ data'[u] \in Item \cup {NULL, Junk}
      BY <3>2, <3>3
    <3>5. \A u \in Thread : arg'[u] = NULL <=> pc'[u] \notin CarryPcs
      BY <3>3
    <3>6. \A u \in Thread : pc'[u] \notin WaitPcs => data'[u] \notin Item
      BY <3>1, <3>2, <3>3
    <3> QED
      BY <3>4, <3>5, <3>6
  <2>3. CASE NoWaiter(t)
    BY <2>3 DEF NoWaiter
  <2>4. CASE Signal(t)
    BY <2>4 DEF Signal, Live, NodePcs
  <2>5. CASE EnqueueLockQ(t)
    BY <2>5 DEF EnqueueLockQ
  <2>6. CASE EnqueueAppend(t)
    BY <2>6 DEF EnqueueAppend
  <2> QED
    BY <1>4, <2>1, <2>2, <2>3, <2>4, <2>5, <2>6 DEF enqueue
<1>5. ASSUME NEW t \in Thread, dequeue(t) PROVE HoldsFit'
  <2>1. CASE DequeueLockQ(t)
    BY <2>1 DEF DequeueLockQ
  <2>2. CASE DequeueFirst(t)
    BY <2>2 DEF DequeueFirst
  <2>3. CASE AllocateNode(t)
    BY <2>3 DEF AllocateNode
  <2>4. CASE DequeueLockW(t)
    BY <2>4 DEF DequeueLockW
  <2>5. CASE Register(t)
    BY <2>5 DEF Register
  <2>6. CASE Wait(t)
    BY <2>6 DEF Wait
  <2>7. CASE WaitRelock(t)
    BY <2>7 DEF WaitRelock
  <2>8. CASE WaitAgain(t)
    BY <2>8 DEF WaitAgain
  <2>9. CASE TakeData(t)
    BY <2>9, TakesAnItem DEF TakeData
  <2>10. CASE DequeueReturn(t)
    BY <2>10 DEF DequeueReturn
  <2> QED
    BY <1>5, <2>1, <2>2, <2>3, <2>4, <2>5, <2>6, <2>7, <2>8, <2>9, <2>10 DEF dequeue
<1>6. ASSUME NEW t \in Thread, tryDequeue(t) PROVE HoldsFit'
  <2>1. CASE TryLockQ(t)
    BY <2>1 DEF TryLockQ
  <2>2. CASE TryEmpty(t)
    BY <2>2 DEF TryEmpty
  <2>3. CASE TryFirst(t)
    <3>1. Head(queue) \in Item
      BY <2>3 DEF TryFirst
    <3> QED
      BY <2>3, <3>1 DEF TryFirst
  <2>4. CASE TryReturn(t)
    BY <2>4 DEF TryReturn
  <2> QED
    BY <1>6, <2>1, <2>2, <2>3, <2>4 DEF tryDequeue
<1>7. ASSUME NEW t \in Thread, SpuriousWakeup(t) PROVE HoldsFit'
  BY <1>7 DEF SpuriousWakeup
<1>8. ASSUME destroyQueue PROVE HoldsFit'
  BY <1>8 DEF destroyQueue, DestroyDequeue, DestroyLists
<1>9. ASSUME UNCHANGED vars PROVE HoldsFit'
  BY <1>9 DEF vars
<1> HIDE DEF HInv, IInv, TypeOK, HoldsFit, CarryPcs, WaitPcs, PC, EnqueuePcs,
      DequeuePcs, TryPcs, Goto, lists, locks, counters, world
<1> QED
  BY <1>1, <1>2, <1>3, <1>4, <1>5, <1>6, <1>7, <1>8, <1>9 DEF Next, NewCall, Step

\* A thread of which no node is linked may do as it likes with its place and its node.
LEMMA OthersStayLinked ==
  ASSUME TypeOK, WaitersLinked, waiting_queue' = waiting_queue,
         NEW t \in Thread, \A k \in 1..Len(waiting_queue) : waiting_queue[k][1] # t,
         \A u \in Thread \ {t} : pc'[u] = pc[u] /\ calls'[u] = calls[u] /\ data'[u] = data[u]
  PROVE  WaitersLinked'
<1>1. \A k \in 1..Len(waiting_queue) : waiting_queue[k] \in Node
  BY DEF TypeOK
<1>2. \A n \in Node : n[1] \in Thread
  BY DEF Node
<1> QED
  BY <1>1, <1>2 DEF WaitersLinked, Injective

\* ... and one of which a node is linked may go from waiting to waiting.
LEMMA WaitersStayLinked ==
  ASSUME TypeOK, WaitersLinked, waiting_queue' = waiting_queue,
         UNCHANGED <<calls, data>>,
         \A u \in Thread : pc[u] \in WaitPcs => pc'[u] \in WaitPcs
  PROVE  WaitersLinked'
<1>1. \A k \in 1..Len(waiting_queue) : waiting_queue[k] \in Node
  BY DEF TypeOK
<1>2. \A n \in Node : n[1] \in Thread
  BY DEF Node
<1> QED
  BY <1>1, <1>2 DEF WaitersLinked, Injective

\* A thread outside the wait has no linked node.
LEMMA NotLinked ==
  ASSUME TypeOK, WaitersLinked, NEW t \in Thread, pc[t] \notin WaitPcs \/ data[t] \in Item
  PROVE  \A k \in 1..Len(waiting_queue) : waiting_queue[k][1] # t
BY DEF WaitersLinked

\* No step leaves a node in the waiting list behind: it is linked by its own thread, which
\* then waits until the node was unlinked by the enqueue that served it.
LEMMA WaitersPreserved == HInv /\ [Next]_vars /\ ~ Garbage' => WaitersLinked'
<1> SUFFICES ASSUME HInv, [Next]_vars, ~ Garbage' PROVE WaitersLinked'
  OBVIOUS
<1>1. TypeOK /\ WaitersLinked /\ HoldsFit /\ LocalsFit
  BY DEF HInv, IInv
<1>2. pc \in [Thread -> PC] /\ data \in [Thread -> Item \cup {NULL, Junk}] /\ calls \in [Thread -> 0..MaxCalls]
  BY <1>1 DEF TypeOK
<1> USE DEF WaitPcs, Goto, lists, locks, counters, world
<1>3. ASSUME NEW t \in Thread, NewCall(t) PROVE WaitersLinked'
  <2>1. pc[t] = "idle"
    BY <1>3 DEF NewCall, CallEnqueue, CallDequeue, CallTryDequeue, Call
  <2>2. \A k \in 1..Len(waiting_queue) : waiting_queue[k][1] # t
    BY <1>1, <2>1, NotLinked
  <2>3. waiting_queue' = waiting_queue
    BY <1>3 DEF NewCall, CallEnqueue, CallDequeue, CallTryDequeue, Call
  <2>4. \A u \in Thread \ {t} : pc'[u] = pc[u] /\ calls'[u] = calls[u] /\ data'[u] = data[u]
    BY <1>2, <1>3 DEF NewCall, CallEnqueue, CallDequeue, CallTryDequeue, Call
  <2> QED
    BY <1>1, <2>2, <2>3, <2>4, OthersStayLinked
<1>4. ASSUME NEW t \in Thread, HandOver(t) PROVE WaitersLinked'
  <2> DEFINE n == Head(waiting_queue)  r == Tail(waiting_queue)
  <2>1. n \in Node /\ n[1] \in Thread /\ n = NodeOf(n[1])
    BY <1>1, <1>4, FirstWaits DEF HandOver
  <2>2. /\ waiting_queue \in Seq(Node) /\ Len(waiting_queue) \in Nat \ {0}
        /\ Len(r) = Len(waiting_queue) - 1 /\ n = waiting_queue[1]
        /\ \A k \in 1..Len(r) : r[k] = waiting_queue[k + 1]
    BY <1>1, <1>4, HeadTailProperties DEF HandOver, TypeOK
  <2>3. /\ waiting_queue' = r /\ calls' = calls /\ pc[t] = "e_inW"
        /\ pc' = [pc EXCEPT ![t] = "e_signal"]
        /\ data' = [data EXCEPT ![n[1]] = arg[t]] \/ data' = data
    BY <1>4 DEF HandOver
  <2>4. \A k \in 1..Len(r) : /\ k + 1 \in 1..Len(waiting_queue) /\ waiting_queue[k + 1] \in Node
                             /\ waiting_queue[k + 1] # n
    BY <1>1, <2>2 DEF WaitersLinked, Injective
  <2> HIDE DEF n, r
  <2>5. ASSUME NEW k \in 1..Len(r)
        PROVE  LET m == r[k] IN
                 calls'[m[1]] = m[2] /\ pc'[m[1]] \in WaitPcs /\ data'[m[1]] \notin Item
    <3> DEFINE m == waiting_queue[k + 1]
    <3>1. calls[m[1]] = m[2] /\ pc[m[1]] \in WaitPcs /\ data[m[1]] \notin Item
      BY <1>1, <2>4 DEF WaitersLinked
    <3>2. m \in Node /\ m # n /\ r[k] = m
      BY <2>2, <2>4
    <3> HIDE DEF m
    <3>3. m[1] \in Thread /\ m = <<m[1], m[2]>>
      BY <3>2 DEF Node
    <3>4. m[1] # n[1]
      BY <2>1, <3>1, <3>2, <3>3 DEF NodeOf
    <3>5. pc'[m[1]] = pc[m[1]] /\ data'[m[1]] = data[m[1]]
      BY <1>2, <2>1, <2>3, <3>1, <3>3, <3>4
    <3> QED
      BY <2>3, <3>1, <3>2, <3>5
  <2>6. Injective(r)
    BY <1>1, <2>2 DEF WaitersLinked, Injective
  <2> QED
    BY <2>3, <2>5, <2>6 DEF WaitersLinked
<1>5. ASSUME NEW t \in Thread, enqueue(t), ~ HandOver(t) PROVE WaitersLinked'
  <2>1. waiting_queue' = waiting_queue /\ UNCHANGED <<calls, data>>
    BY <1>5 DEF enqueue, EnqueueLockW, NoWaiter, Signal, EnqueueLockQ, EnqueueAppend
  <2>2. \A u \in Thread : pc[u] \in WaitPcs => pc'[u] \in WaitPcs
    BY <1>2, <1>5 DEF enqueue, EnqueueLockW, NoWaiter, Signal, EnqueueLockQ, EnqueueAppend
  <2> QED
    BY <1>1, <2>1, <2>2, WaitersStayLinked
<1>6. ASSUME NEW t \in Thread, Register(t) PROVE WaitersLinked'
  <2> DEFINE n == NodeOf(t)  r == Append(waiting_queue, n)
  <2>1. n \in Node
    <3>1. calls[t] > 0 /\ calls[t] \in 0..MaxCalls /\ MaxCalls \in Nat
      BY <1>1, <1>2, <1>6, ConstantsAssumption DEF Register, LocalsFit
    <3> QED
      BY <3>1 DEF NodeOf, Node
  <2>2. /\ waiting_queue \in Seq(Node) /\ Len(waiting_queue) \in Nat
        /\ Len(r) = Len(waiting_queue) + 1 /\ r[Len(waiting_queue) + 1] = n
        /\ \A k \in 1..Len(waiting_queue) : r[k] = waiting_queue[k] /\ waiting_queue[k] \in Node
    BY <1>1, <2>1, AppendProperties DEF TypeOK
  <2>3. /\ waiting_queue' = r /\ UNCHANGED <<calls, data>> /\ pc[t] = "d_inW"
        /\ pc' = [pc EXCEPT ![t] = "d_wait"]
    BY <1>6 DEF Register
  <2>4. data[t] \notin Item
    BY <1>1, <2>3 DEF HoldsFit
  <2>5. \A k \in 1..Len(waiting_queue) : waiting_queue[k][1] # t
    BY <1>1, <2>3, NotLinked
  <2> HIDE DEF n, r
  <2>6. n[1] = t /\ n[2] = calls[t]
    BY DEF n, NodeOf
  <2>7. ASSUME NEW k \in 1..Len(r)
        PROVE  LET m == r[k] IN
                 calls'[m[1]] = m[2] /\ pc'[m[1]] \in WaitPcs /\ data'[m[1]] \notin Item
    <3>1. CASE k = Len(waiting_queue) + 1
      BY <1>2, <2>2, <2>3, <2>4, <2>6, <3>1
    <3>2. CASE k \in 1..Len(waiting_queue)
      <4> DEFINE m == waiting_queue[k]
      <4>1. calls[m[1]] = m[2] /\ pc[m[1]] \in WaitPcs /\ data[m[1]] \notin Item
        BY <1>1, <3>2 DEF WaitersLinked
      <4>2. m \in Node /\ r[k] = m /\ m[1] # t
        BY <2>2, <2>5, <3>2
      <4>3. m[1] \in Thread
        BY <4>2 DEF Node
      <4> HIDE DEF m
      <4> QED
        BY <1>2, <2>3, <4>1, <4>2, <4>3
    <3> QED
      BY <2>2, <3>1, <3>2
  <2>8. Injective(r)
    BY <1>1, <2>2, <2>5, <2>6 DEF WaitersLinked, Injective
  <2> QED
    BY <2>3, <2>7, <2>8 DEF WaitersLinked
<1>7. ASSUME NEW t \in Thread, TakeData(t) PROVE WaitersLinked'
  <2>1. \A k \in 1..Len(waiting_queue) : waiting_queue[k][1] # t
    BY <1>1, <1>7, TakesAnItem, NotLinked
  <2>2. waiting_queue' = waiting_queue
    BY <1>7 DEF TakeData
  <2>3. \A u \in Thread \ {t} : pc'[u] = pc[u] /\ calls'[u] = calls[u] /\ data'[u] = data[u]
    BY <1>2, <1>7 DEF TakeData
  <2> QED
    BY <1>1, <2>1, <2>2, <2>3, OthersStayLinked
<1>8. ASSUME NEW t \in Thread, AllocateNode(t) PROVE WaitersLinked'
  <2>1. \A k \in 1..Len(waiting_queue) : waiting_queue[k][1] # t
    BY <1>1, <1>8, NotLinked DEF AllocateNode
  <2>2. waiting_queue' = waiting_queue
    BY <1>8 DEF AllocateNode
  <2>3. \A u \in Thread \ {t} : pc'[u] = pc[u] /\ calls'[u] = calls[u] /\ data'[u] = data[u]
    BY <1>2, <1>8 DEF AllocateNode
  <2> QED
    BY <1>1, <2>1, <2>2, <2>3, OthersStayLinked
<1>9. ASSUME NEW t \in Thread, dequeue(t), ~ Register(t), ~ TakeData(t), ~ AllocateNode(t)
      PROVE  WaitersLinked'
  <2>1. waiting_queue' = waiting_queue /\ UNCHANGED <<calls, data>>
    BY <1>9 DEF dequeue, DequeueLockQ, DequeueFirst, DequeueLockW, Wait, WaitRelock,
       WaitAgain, DequeueReturn
  <2>2. \A u \in Thread : pc[u] \in WaitPcs => pc'[u] \in WaitPcs
    BY <1>2, <1>9 DEF dequeue, DequeueLockQ, DequeueFirst, DequeueLockW, Wait, WaitRelock,
       WaitAgain, DequeueReturn
  <2> QED
    BY <1>1, <2>1, <2>2, WaitersStayLinked
<1>10. ASSUME NEW t \in Thread, tryDequeue(t) \/ SpuriousWakeup(t) PROVE WaitersLinked'
  <2>1. waiting_queue' = waiting_queue /\ UNCHANGED <<calls, data>>
    BY <1>10 DEF tryDequeue, TryLockQ, TryEmpty, TryFirst, TryReturn, SpuriousWakeup
  <2>2. \A u \in Thread : pc[u] \in WaitPcs => pc'[u] \in WaitPcs
    BY <1>2, <1>10 DEF tryDequeue, TryLockQ, TryEmpty, TryFirst, TryReturn, SpuriousWakeup
  <2> QED
    BY <1>1, <2>1, <2>2, WaitersStayLinked
<1>11. ASSUME destroyQueue PROVE WaitersLinked'
  <2>1. CASE DestroyDequeue
    BY <1>1, <2>1, WaitersStayLinked DEF DestroyDequeue
  <2>2. CASE DestroyLists
    BY <2>2 DEF DestroyLists, WaitersLinked, Injective
  <2> QED
    BY <1>11, <2>1, <2>2 DEF destroyQueue
<1>12. ASSUME UNCHANGED vars PROVE WaitersLinked'
  BY <1>1, <1>12, WaitersStayLinked DEF vars
<1> HIDE DEF WaitPcs, Goto, lists, locks, counters, world
<1> QED
  BY <1>3, <1>4, <1>5, <1>6, <1>7, <1>8, <1>9, <1>10, <1>11, <1>12 DEF Next, Step

-----------------------------------------------------------------------------
\* The steps that move no item.
Quiet ==
  /\ UNCHANGED <<queue, arg, got, fresh, drained, visited_count>>
  /\ \A u \in Thread : /\ data'[u] = data[u] \/ {data[u], data'[u]} \cap Item = {}
                       /\ calls'[u] >= calls[u]
                       /\ pc'[u] # pc[u] => {pc[u], pc'[u]} \cap {"d_return", "t_return"} = {}
                       /\ pc[u] = "idle" /\ pc'[u] # "idle" => calls'[u] > calls[u]

\* Those that move one.
Moving(t) == \/ CallEnqueue(t) \/ HandOver(t) \/ EnqueueAppend(t) \/ DequeueFirst(t)
             \/ TakeData(t) \/ DequeueReturn(t) \/ TryFirst(t) \/ TryReturn(t)

\* Every step moves one item or none.
LEMMA StepMoves ==
  HInv /\ [Next]_vars => Quiet \/ DestroyDequeue \/ \E t \in Thread : Moving(t)
<1> SUFFICES ASSUME HInv, [Next]_vars, ~ DestroyDequeue, \A t \in Thread : ~ Moving(t)
             PROVE  Quiet
  OBVIOUS
<1>1. /\ pc \in [Thread -> PC] /\ calls \in [Thread -> 0..MaxCalls]
      /\ data \in [Thread -> Item \cup {NULL, Junk}]
  BY DEF HInv, IInv, TypeOK
<1> USE DEF Goto, lists, locks, counters, world
<1>2. ASSUME NEW t \in Thread, NewCall(t) PROVE Quiet
  <2>1. CallDequeue(t) \/ CallTryDequeue(t)
    BY <1>2 DEF NewCall, Moving
  <2> QED
    BY <1>1, <2>1, ConstantsAssumption DEF CallDequeue, CallTryDequeue, Call, Quiet
<1>3. ASSUME NEW t \in Thread, enqueue(t) PROVE Quiet
  <2>1. EnqueueLockW(t) \/ NoWaiter(t) \/ Signal(t) \/ EnqueueLockQ(t)
    BY <1>3 DEF enqueue, Moving
  <2>2. CASE Signal(t)
    BY <1>1, <2>2, ConstantsAssumption DEF Signal, Quiet
  <2>3. CASE ~ Signal(t)
    BY <1>1, <2>1, <2>3, ConstantsAssumption DEF EnqueueLockW, NoWaiter, EnqueueLockQ, Quiet
  <2> QED
    BY <2>2, <2>3
<1>4. ASSUME NEW t \in Thread, dequeue(t) PROVE Quiet
  <2>1. CASE AllocateNode(t)
    <3>1. data[t] \notin Item
      BY <2>1 DEF AllocateNode, HInv, HoldsFit, WaitPcs
    <3>2. \A u \in Thread : data'[u] = data[u] \/ {data[u], data'[u]} \cap Item = {}
      BY <1>1, <2>1, <3>1, ConstantsAssumption DEF AllocateNode
    <3> QED
      BY <1>1, <2>1, <3>2, ConstantsAssumption DEF AllocateNode, Quiet
  <2>2. CASE DequeueLockQ(t) \/ DequeueLockW(t) \/ Register(t)
    BY <1>1, <2>2, ConstantsAssumption DEF DequeueLockQ, DequeueLockW, Register, Quiet
  <2>3. CASE Wait(t) \/ WaitRelock(t) \/ WaitAgain(t)
    BY <1>1, <2>3, ConstantsAssumption DEF Wait, WaitRelock, WaitAgain, Quiet
  <2> QED
    BY <1>4, <2>1, <2>2, <2>3 DEF dequeue, Moving
<1>5. ASSUME NEW t \in Thread, tryDequeue(t) PROVE Quiet
  BY <1>1, <1>5, ConstantsAssumption DEF tryDequeue, Moving, TryLockQ, TryEmpty, Quiet
<1>6. ASSUME NEW t \in Thread, SpuriousWakeup(t) PROVE Quiet
  BY <1>1, <1>6, ConstantsAssumption DEF SpuriousWakeup, Quiet
<1>7. ASSUME destroyQueue PROVE Quiet
  BY <1>1, <1>7, ConstantsAssumption DEF destroyQueue, DestroyLists, Quiet
<1>8. ASSUME UNCHANGED vars PROVE Quiet
  BY <1>1, <1>8, ConstantsAssumption DEF vars, Quiet
<1> HIDE DEF Goto, lists, locks, counters, world
<1> QED
  BY <1>2, <1>3, <1>4, <1>5, <1>6, <1>7, <1>8 DEF Next, Step

\* A step that moves no item leaves what the nodes hold alone; it may allocate one.
LEMMA QuietNodes ==
  ASSUME HInv, Quiet
  PROVE  InNodes' = InNodes /\ OneEach(data)'
<1>1. OneEach(data)
  BY PlacesTyped
<1>2. \A u \in Thread : data'[u] = data[u] \/ (data[u] \notin Item /\ data'[u] \notin Item)
  BY DEF Quiet
<1>3. InNodes' = InNodes
  BY <1>2 DEF InNodes, ItemsIn
<1>4. OneEach(data)'
  BY <1>1, <1>2 DEF OneEach
<1> QED
  BY <1>3, <1>4

\* The first item of the queue leaves it.
LEMMA FirstLeaves ==
  ASSUME HInv, queue # <<>>, queue' = Tail(queue)
  PROVE  /\ Head(queue) \in Item /\ Head(queue) \in InQueue
         /\ InQueue' = InQueue \ {Head(queue)} /\ Injective(queue)'
BY PlacesTyped, TailSet, HeadTailProperties DEF InQueue

\* enqueue takes over a fresh item.
LEMMA CallEnqueueMoves ==
  ASSUME HInv, NEW t \in Thread, CallEnqueue(t)
  PROVE  \E i \in Item : /\ i \in fresh /\ fresh' = fresh \ {i}
                         /\ InCalls' = InCalls \cup {i} /\ OneEach(arg)'
                         /\ UNCHANGED <<queue, data, got, drained, visited_count>>
<1>1. PICK i \in fresh : arg' = [arg EXCEPT ![t] = i] /\ fresh' = fresh \ {i}
  BY DEF CallEnqueue
<1>2. UNCHANGED <<queue, data, got, drained, visited_count>> /\ pc[t] = "idle"
  BY DEF CallEnqueue, Call, Goto, lists, counters
<1>3. i \in Item /\ arg[t] \notin Item
  BY <1>1, <1>2, ConstantsAssumption DEF HInv, IInv, TypeOK, HoldsFit, CarryPcs
<1>4. i \notin InCalls
  BY <1>1, <1>3, PlacesTyped DEF InOnePlace
<1>5. InCalls' = InCalls \cup {i} /\ OneEach(arg)'
  BY <1>1, <1>3, <1>4, PlacesTyped, PutItem DEF InCalls
<1> QED
  BY <1>1, <1>2, <1>3, <1>5

\* enqueue hands its item to the first waiter's node.
LEMMA HandOverMoves ==
  ASSUME HInv, NEW t \in Thread, HandOver(t)
  PROVE  /\ arg[t] \in Item
         /\ InCalls' = InCalls \ {arg[t]} /\ OneEach(arg)' /\ arg[t] \in InCalls
         /\ InNodes' = InNodes \cup {arg[t]} /\ OneEach(data)'
         /\ UNCHANGED <<queue, got, fresh, drained, visited_count>>
<1> DEFINE n == Head(waiting_queue)
<1>1. n[1] \in Thread /\ data[n[1]] \notin Item /\ Live(n)
  BY FirstWaits DEF HandOver, HInv, IInv
<1>2. /\ arg' = [arg EXCEPT ![t] = NULL] /\ data' = [data EXCEPT ![n[1]] = arg[t]]
      /\ UNCHANGED <<queue, got, fresh, drained, visited_count>>
  BY <1>1 DEF HandOver, counters, world
<1>3. arg[t] \in Item /\ arg[t] # NULL
  BY ConstantsAssumption DEF HandOver, Goto, HInv, IInv, LocalsFit
<1> HIDE DEF n
<1>4. arg[t] \in InCalls /\ InCalls' = InCalls \ {arg[t]} /\ OneEach(arg)'
  BY <1>2, <1>3, PlacesTyped, ClearItem DEF InCalls
<1>5. arg[t] \notin InNodes
  BY <1>3, <1>4, PlacesTyped DEF InOnePlace
<1>6. InNodes' = InNodes \cup {arg[t]} /\ OneEach(data)'
  <2>1. /\ data \in [Thread -> Item \cup {NULL, Junk}] /\ OneEach(data)
        /\ arg[t] \notin ItemsIn(data)
    BY <1>5, PlacesTyped DEF InNodes
  <2>2. /\ ItemsIn([data EXCEPT ![n[1]] = arg[t]]) = ItemsIn(data) \cup {arg[t]}
        /\ OneEach([data EXCEPT ![n[1]] = arg[t]])
    BY <1>1, <1>3, <2>1, PutItem
  <2> QED
    BY <1>2, <2>2 DEF InNodes, ItemsIn, OneEach
<1> QED
  BY <1>2, <1>3, <1>4, <1>6

\* enqueue links its item at the end of the queue.
LEMMA AppendMoves ==
  ASSUME HInv, NEW t \in Thread, EnqueueAppend(t)
  PROVE  /\ arg[t] \in Item
         /\ InCalls' = InCalls \ {arg[t]} /\ OneEach(arg)' /\ arg[t] \in InCalls
         /\ InQueue' = InQueue \cup {arg[t]} /\ Injective(queue)'
         /\ UNCHANGED <<data, got, fresh, drained, visited_count>>
<1>1. /\ arg' = [arg EXCEPT ![t] = NULL] /\ queue' = Append(queue, arg[t])
      /\ UNCHANGED <<data, got, fresh, drained, visited_count>>
  BY DEF EnqueueAppend, counters, world
<1>2. arg[t] \in Item /\ arg[t] # NULL
  BY ConstantsAssumption DEF EnqueueAppend, Goto, HInv, IInv, LocalsFit
<1>3. arg[t] \in InCalls /\ InCalls' = InCalls \ {arg[t]} /\ OneEach(arg)'
  BY <1>1, <1>2, PlacesTyped, ClearItem DEF InCalls
<1>4. arg[t] \notin InQueue
  BY <1>2, <1>3, PlacesTyped DEF InOnePlace
<1>5. InQueue' = InQueue \cup {arg[t]} /\ Injective(queue)'
  BY <1>1, <1>2, <1>4, PlacesTyped, AppendSet DEF InQueue
<1> QED
  BY <1>1, <1>2, <1>3, <1>5

\* What a call returns is then among what was delivered, once.
LEMMA GotMoves ==
  ASSUME HInv, NEW t \in Thread, NEW i \in Item, i \notin Delivered,
         got' = [got EXCEPT ![t] = Append(@, i)]
  PROVE  /\ Delivered' = Delivered \cup {i} /\ GotOnce(got)'
         /\ got' \in [Thread -> Seq(Item)] /\ Len(got'[t]) = Len(got[t]) + 1
<1>1. got \in [Thread -> Seq(Item)] /\ GotOnce(got) /\ i \notin AllOf(got)
  BY PlacesTyped
<1>2. ASSUME NEW h, h = [got EXCEPT ![t] = Append(@, i)]
      PROVE  /\ h \in [Thread -> Seq(Item)] /\ AllOf(h) = AllOf(got) \cup {i} /\ GotOnce(h)
             /\ Len(h[t]) = Len(got[t]) + 1
  <2> DEFINE g == got
  <2>1. g \in [Thread -> Seq(Item)] /\ i \notin AllOf(g) /\ GotOnce(g)
    BY <1>1
  <2>2. h = [g EXCEPT ![t] = Append(@, i)]
    BY <1>2
  <2> HIDE DEF g
  <2>3. \E f \in [Thread -> Seq(Item)] :
          /\ f = [g EXCEPT ![t] = Append(@, i)] /\ Len(f[t]) = Len(g[t]) + 1
          /\ AllOf(f) = AllOf(g) \cup {i} /\ GotOnce(f)
    BY <2>1, ReturnItem
  <2> QED
    BY <2>2, <2>3 DEF g
<1>3. GotOnce(got') => GotOnce(got)'
  BY Zenon DEF GotOnce
<1>4. Delivered = AllOf(got) /\ Delivered' = AllOf(got')
  BY DEF Delivered, AllOf
<1> QED
  BY <1>2, <1>3, <1>4

\* dequeue returns the first item of the queue.
LEMMA DequeueFirstMoves ==
  ASSUME HInv, NEW t \in Thread, DequeueFirst(t)
  PROVE  LET i == Head(queue) IN
         /\ i \in Item /\ i \in InQueue /\ InQueue' = InQueue \ {i} /\ Injective(queue)'
         /\ Delivered' = Delivered \cup {i} /\ GotOnce(got)'
         /\ got' \in [Thread -> Seq(Item)] /\ got' = [got EXCEPT ![t] = Append(@, i)]
         /\ Len(got'[t]) = Len(got[t]) + 1
         /\ UNCHANGED <<arg, data, fresh, drained>> /\ visited_count' = visited_count + 1
<1> DEFINE i == Head(queue)
<1>1. /\ queue # <<>> /\ queue' = Tail(queue) /\ got' = [got EXCEPT ![t] = Append(@, i)]
      /\ UNCHANGED <<arg, data, fresh, drained>> /\ visited_count' = visited_count + 1
  BY DEF DequeueFirst, world
<1>2. i \in Item /\ i \in InQueue /\ InQueue' = InQueue \ {i} /\ Injective(queue)'
  BY <1>1, FirstLeaves
<1> HIDE DEF i
<1>3. i \notin Delivered
  BY <1>2, PlacesTyped DEF InOnePlace
<1> QED
  BY <1>1, <1>2, <1>3, GotMoves DEF i

\* A served waiter takes the item out of its node.
LEMMA TakeDataMoves ==
  ASSUME HInv, NEW t \in Thread, TakeData(t), ~ Garbage'
  PROVE  /\ data[t] \in Item
         /\ InNodes' = InNodes \ {data[t]} /\ OneEach(data)' /\ data[t] \in InNodes
         /\ InCalls' = InCalls \cup {data[t]} /\ OneEach(arg)'
         /\ UNCHANGED <<queue, got, fresh, drained>> /\ visited_count' = visited_count + 1
<1>1. /\ arg' = [arg EXCEPT ![t] = data[t]] /\ data' = [data EXCEPT ![t] = NULL]
      /\ data[t] # NULL /\ pc[t] = "d_check"
      /\ UNCHANGED <<queue, got, fresh, drained>> /\ visited_count' = visited_count + 1
  BY DEF TakeData, Goto, lists, world
<1>2. data[t] \in Item /\ arg[t] \notin Item
  BY <1>1, TakesAnItem, ConstantsAssumption DEF HInv, HoldsFit, CarryPcs
<1>3. data[t] \in InNodes /\ InNodes' = InNodes \ {data[t]} /\ OneEach(data)'
  BY <1>1, <1>2, PlacesTyped, ClearItem DEF InNodes
<1>4. data[t] \notin InCalls
  BY <1>2, <1>3, PlacesTyped DEF InOnePlace
<1>5. InCalls' = InCalls \cup {data[t]} /\ OneEach(arg)'
  <2>1. arg \in [Thread -> Item \cup {NULL, Junk}] /\ OneEach(arg) /\ data[t] \notin ItemsIn(arg)
    BY <1>4, PlacesTyped DEF InCalls
  <2>2. /\ ItemsIn([arg EXCEPT ![t] = data[t]]) = ItemsIn(arg) \cup {data[t]}
        /\ OneEach([arg EXCEPT ![t] = data[t]])
    BY <1>2, <2>1, PutItem
  <2> QED
    BY <1>1, <2>2 DEF InCalls, ItemsIn, OneEach
<1> QED
  BY <1>1, <1>2, <1>3, <1>5

\* dequeue or tryDequeue returns what it carries.
LEMMA ReturnMoves ==
  ASSUME HInv, NEW t \in Thread, DequeueReturn(t) \/ TryReturn(t)
  PROVE  /\ arg[t] \in Item
         /\ InCalls' = InCalls \ {arg[t]} /\ OneEach(arg)' /\ arg[t] \in InCalls
         /\ Delivered' = Delivered \cup {arg[t]} /\ GotOnce(got)'
         /\ got' \in [Thread -> Seq(Item)] /\ got' = [got EXCEPT ![t] = Append(@, arg[t])]
         /\ Len(got'[t]) = Len(got[t]) + 1
         /\ UNCHANGED <<queue, data, fresh, drained>>
<1>1. /\ arg' = [arg EXCEPT ![t] = NULL] /\ got' = [got EXCEPT ![t] = Append(@, arg[t])]
      /\ pc[t] \in {"d_return", "t_return"}
      /\ UNCHANGED <<queue, data, fresh, drained>>
  BY DEF DequeueReturn, TryReturn, Goto, lists, world
<1>2. arg[t] \in Item /\ arg[t] # NULL
  BY <1>1, ConstantsAssumption DEF HInv, HoldsFit, CarryPcs
<1>3. arg[t] \in InCalls /\ InCalls' = InCalls \ {arg[t]} /\ OneEach(arg)'
  BY <1>1, <1>2, PlacesTyped, ClearItem DEF InCalls
<1>4. arg[t] \notin Delivered
  BY <1>2, <1>3, PlacesTyped DEF InOnePlace
<1> QED
  BY <1>1, <1>2, <1>3, <1>4, GotMoves

\* tryDequeue takes the first item of the queue.
LEMMA TryFirstMoves ==
  ASSUME HInv, NEW t \in Thread, TryFirst(t)
  PROVE  LET i == Head(queue) IN
         /\ i \in Item /\ i \in InQueue /\ InQueue' = InQueue \ {i} /\ Injective(queue)'
         /\ InCalls' = InCalls \cup {i} /\ OneEach(arg)' /\ arg' = [arg EXCEPT ![t] = i]
         /\ UNCHANGED <<data, got, fresh, drained, visited_count>>
<1> DEFINE i == Head(queue)
<1>1. /\ queue # <<>> /\ queue' = Tail(queue) /\ arg' = [arg EXCEPT ![t] = i]
      /\ pc[t] = "t_inQ"
      /\ UNCHANGED <<data, got, fresh, drained, visited_count>>
  BY DEF TryFirst, Goto, counters, world
<1>2. i \in Item /\ i \in InQueue /\ InQueue' = InQueue \ {i} /\ Injective(queue)'
  BY <1>1, FirstLeaves
<1> HIDE DEF i
<1>3. i \notin InCalls /\ arg[t] \notin Item
  BY <1>1, <1>2, PlacesTyped, ConstantsAssumption DEF InOnePlace, HInv, HoldsFit, CarryPcs
<1>4. InCalls' = InCalls \cup {i} /\ OneEach(arg)'
  BY <1>1, <1>2, <1>3, PlacesTyped, PutItem DEF InCalls
<1> QED
  BY <1>1, <1>2, <1>4 DEF i

\* destroyQueue drops the first item of the queue.
LEMMA DestroyMoves ==
  ASSUME HInv, DestroyDequeue
  PROVE  LET i == Head(queue) IN
         /\ i \in Item /\ i \in InQueue /\ InQueue' = InQueue \ {i} /\ Injective(queue)'
         /\ drained' = drained \cup {i} /\ i \notin drained
         /\ UNCHANGED <<pc, calls, arg, data, got, fresh>> /\ visited_count' = visited_count + 1
<1> DEFINE i == Head(queue)
<1>1. /\ queue # <<>> /\ queue' = Tail(queue) /\ drained' = drained \cup {i}
      /\ UNCHANGED <<pc, calls, arg, data, got, fresh>> /\ visited_count' = visited_count + 1
  BY DEF DestroyDequeue
<1>2. i \in Item /\ i \in InQueue /\ InQueue' = InQueue \ {i} /\ Injective(queue)'
  BY <1>1, FirstLeaves
<1>3. i \notin drained
  BY <1>2, PlacesTyped DEF InOnePlace
<1> QED
  BY <1>1, <1>2, <1>3

-----------------------------------------------------------------------------
\* No step puts an item into a second place, or into none.
LEMMA PlacesPreserved == HInv /\ [Next]_vars /\ ~ Garbage' => OnePlace'
<1> SUFFICES ASSUME HInv, [Next]_vars, ~ Garbage' PROVE OnePlace'
  OBVIOUS
<1>1. CASE Quiet
  <2>1. /\ UNCHANGED <<InQueue, InCalls, InNodes, Delivered, fresh, drained>>
        /\ UNCHANGED <<queue, arg, got>> /\ OneEach(data)'
    BY <1>1, QuietNodes DEF Quiet, InQueue, InCalls, Delivered
  <2> QED
    BY <2>1 DEF HInv, OnePlace, InOnePlace, Injective, OneEach, GotOnce
<1>2. CASE DestroyDequeue
  <2>1. UNCHANGED <<InCalls, InNodes, Delivered, fresh, arg, data, got>>
    BY <1>2, DestroyMoves DEF InCalls, InNodes, Delivered
  <2>2. \A i \in Item : InOnePlace(i)'
    BY <1>2, <2>1, DestroyMoves, PlacesTyped DEF InOnePlace
  <2> QED
    BY <1>2, <2>1, <2>2, DestroyMoves, PlacesTyped DEF OnePlace, OneEach, GotOnce
<1>3. ASSUME NEW t \in Thread, CallEnqueue(t) PROVE OnePlace'
  <2>1. UNCHANGED <<InQueue, InNodes, Delivered, drained, queue, data, got>>
    BY <1>3, CallEnqueueMoves DEF InQueue, InNodes, Delivered
  <2>2. \A i \in Item : InOnePlace(i)'
    BY <1>3, <2>1, CallEnqueueMoves, PlacesTyped DEF InOnePlace
  <2> QED
    BY <1>3, <2>1, <2>2, CallEnqueueMoves, PlacesTyped DEF OnePlace, Injective, OneEach, GotOnce
<1>4. ASSUME NEW t \in Thread, HandOver(t) PROVE OnePlace'
  <2>1. UNCHANGED <<InQueue, Delivered, fresh, drained, queue, got>>
    BY <1>4, HandOverMoves DEF InQueue, Delivered
  <2>2. \A i \in Item : InOnePlace(i)'
    BY <1>4, <2>1, HandOverMoves, PlacesTyped DEF InOnePlace
  <2> QED
    BY <1>4, <2>1, <2>2, HandOverMoves, PlacesTyped DEF OnePlace, Injective, GotOnce
<1>5. ASSUME NEW t \in Thread, EnqueueAppend(t) PROVE OnePlace'
  <2>1. UNCHANGED <<InNodes, Delivered, fresh, drained, data, got>>
    BY <1>5, AppendMoves DEF InNodes, Delivered
  <2>2. \A i \in Item : InOnePlace(i)'
    BY <1>5, <2>1, AppendMoves, PlacesTyped DEF InOnePlace
  <2> QED
    BY <1>5, <2>1, <2>2, AppendMoves, PlacesTyped DEF OnePlace, OneEach, GotOnce
<1>6. ASSUME NEW t \in Thread, DequeueFirst(t) PROVE OnePlace'
  <2>1. UNCHANGED <<InCalls, InNodes, fresh, drained, arg, data>>
    BY <1>6, DequeueFirstMoves DEF InCalls, InNodes
  <2>2. \A i \in Item : InOnePlace(i)'
    <3> DEFINE e == Head(queue)
    <3>1. /\ e \in InQueue /\ InQueue' = InQueue \ {e} /\ Delivered' = Delivered \cup {e}
      BY <1>6, DequeueFirstMoves
    <3> HIDE DEF e
    <3> QED
      BY <2>1, <3>1, PlacesTyped DEF InOnePlace
  <2> QED
    BY <1>6, <2>1, <2>2, DequeueFirstMoves, PlacesTyped DEF OnePlace, OneEach
<1>7. ASSUME NEW t \in Thread, TakeData(t) PROVE OnePlace'
  <2>1. UNCHANGED <<InQueue, Delivered, fresh, drained, queue, got>>
    BY <1>7, TakeDataMoves DEF InQueue, Delivered
  <2>2. \A i \in Item : InOnePlace(i)'
    BY <1>7, <2>1, TakeDataMoves, PlacesTyped DEF InOnePlace
  <2> QED
    BY <1>7, <2>1, <2>2, TakeDataMoves, PlacesTyped DEF OnePlace, Injective, GotOnce
<1>8. ASSUME NEW t \in Thread, TryFirst(t) PROVE OnePlace'
  <2>1. UNCHANGED <<InNodes, Delivered, fresh, drained, data, got>>
    BY <1>8, TryFirstMoves DEF InNodes, Delivered
  <2>2. \A i \in Item : InOnePlace(i)'
    BY <1>8, <2>1, TryFirstMoves, PlacesTyped DEF InOnePlace
  <2> QED
    BY <1>8, <2>1, <2>2, TryFirstMoves, PlacesTyped DEF OnePlace, OneEach, GotOnce
<1>9. ASSUME NEW t \in Thread, DequeueReturn(t) \/ TryReturn(t) PROVE OnePlace'
  <2>1. UNCHANGED <<InQueue, InNodes, fresh, drained, queue, data>>
    BY <1>9, ReturnMoves DEF InQueue, InNodes
  <2>2. \A i \in Item : InOnePlace(i)'
    BY <1>9, <2>1, ReturnMoves, PlacesTyped DEF InOnePlace
  <2> QED
    BY <1>9, <2>1, <2>2, ReturnMoves, PlacesTyped DEF OnePlace, Injective, OneEach
<1> QED
  BY <1>1, <1>2, <1>3, <1>4, <1>5, <1>6, <1>7, <1>8, <1>9, StepMoves DEF Moving

\* What the moving steps do to the caller.
LEMMA MovesCaller ==
  ASSUME HInv, NEW t \in Thread, Moving(t)
  PROVE  /\ \A u \in Thread \ {t} : pc'[u] = pc[u] /\ calls'[u] = calls[u] /\ got'[u] = got[u]
         /\ CallEnqueue(t) => /\ pc[t] = "idle" /\ pc'[t] = "e_lockW"
                               /\ calls'[t] = calls[t] + 1 /\ got' = got
         /\ ~ CallEnqueue(t) => pc[t] # "idle" /\ calls'[t] = calls[t]
         /\ HandOver(t) \/ EnqueueAppend(t) \/ TakeData(t) \/ TryFirst(t) => got' = got
         /\ HandOver(t) => pc[t] = "e_inW" /\ pc'[t] = "e_signal"
         /\ EnqueueAppend(t) => pc[t] = "e_inQ" /\ pc'[t] = "idle"
         /\ TryFirst(t) => pc[t] = "t_inQ" /\ pc'[t] = "t_return"
         /\ TakeData(t) => pc[t] = "d_check" /\ pc'[t] = "d_return"
         /\ DequeueReturn(t) => pc[t] = "d_return" /\ pc'[t] = "idle"
         /\ DequeueFirst(t) => pc[t] = "d_inQ" /\ pc'[t] = "idle"
         /\ TryReturn(t) => pc[t] = "t_return" /\ pc'[t] = "idle"
<1> USE PlacesTyped DEF Goto, world
<1>1. CASE CallEnqueue(t)
  BY <1>1 DEF CallEnqueue, Call, HandOver, EnqueueAppend, TakeData, TryFirst, DequeueReturn, DequeueFirst, TryReturn
<1>2. CASE HandOver(t)
  BY <1>2 DEF CallEnqueue, Call, HandOver, EnqueueAppend, TakeData, TryFirst, DequeueReturn, DequeueFirst, TryReturn
<1>3. CASE EnqueueAppend(t)
  BY <1>3 DEF CallEnqueue, Call, HandOver, EnqueueAppend, TakeData, TryFirst, DequeueReturn, DequeueFirst, TryReturn
<1>4. CASE TakeData(t)
  BY <1>4 DEF CallEnqueue, Call, HandOver, EnqueueAppend, TakeData, TryFirst, DequeueReturn, DequeueFirst, TryReturn
<1>5. CASE TryFirst(t)
  BY <1>5 DEF CallEnqueue, Call, HandOver, EnqueueAppend, TakeData, TryFirst, DequeueReturn, DequeueFirst, TryReturn
<1>6. CASE DequeueReturn(t)
  BY <1>6 DEF CallEnqueue, Call, HandOver, EnqueueAppend, TakeData, TryFirst, DequeueReturn, DequeueFirst, TryReturn
<1>7. CASE DequeueFirst(t)
  BY <1>7 DEF CallEnqueue, Call, HandOver, EnqueueAppend, TakeData, TryFirst, DequeueReturn, DequeueFirst, TryReturn
<1>8. CASE TryReturn(t)
  BY <1>8 DEF CallEnqueue, Call, HandOver, EnqueueAppend, TakeData, TryFirst, DequeueReturn, DequeueFirst, TryReturn
<1> QED
  BY <1>1, <1>2, <1>3, <1>4, <1>5, <1>6, <1>7, <1>8 DEF Moving

\* A call returns at most one pointer.
LEMMA GotPreserved == HInv /\ [Next]_vars /\ ~ Garbage' => GotFits'
<1> SUFFICES ASSUME HInv, [Next]_vars, ~ Garbage' PROVE GotFits'
  OBVIOUS
<1>1. \A t \in Thread : /\ Len(got[t]) <= calls[t]
                        /\ pc[t] # "idle" => Len(got[t]) + 1 <= calls[t]
  BY DEF HInv, GotFits
<1>2. \A t \in Thread : Len(got[t]) \in Nat /\ calls[t] \in Nat /\ calls'[t] \in Nat
  BY PlacesTyped, TypePreserved, ConstantsAssumption DEF HInv, IInv, TypeOK
<1>3. CASE Quiet
  <2>1. got' = got /\ got' \in [Thread -> Seq(Item)]
    BY <1>3, PlacesTyped DEF Quiet
  <2>2. ASSUME NEW t \in Thread
        PROVE  /\ Len(got[t]) <= calls'[t]
               /\ pc'[t] # "idle" => Len(got[t]) + 1 <= calls'[t]
    <3>1. calls'[t] >= calls[t] /\ (pc[t] = "idle" /\ pc'[t] # "idle" => calls'[t] > calls[t])
      BY <1>3 DEF Quiet
    <3> QED
      BY <1>1, <1>2, <3>1
  <2> QED
    BY <2>1, <2>2 DEF GotFits
<1>4. CASE DestroyDequeue
  BY <1>1, <1>2, <1>4, PlacesTyped, DestroyMoves DEF GotFits
<1>5. ASSUME NEW t \in Thread, Moving(t) PROVE GotFits'
  <2>1. /\ got' \in [Thread -> Seq(Item)]
        /\ Len(got'[t]) <= calls'[t]
        /\ pc'[t] # "idle" => Len(got'[t]) + 1 <= calls'[t]
    <3>1. CASE DequeueReturn(t) \/ TryReturn(t) \/ DequeueFirst(t)
      <4>1. got' \in [Thread -> Seq(Item)] /\ Len(got'[t]) = Len(got[t]) + 1
        BY <3>1, ReturnMoves, DequeueFirstMoves
      <4>2. pc[t] # "idle" /\ pc'[t] = "idle" /\ calls'[t] = calls[t]
        BY <1>5, <3>1, MovesCaller
      <4> QED
        BY <1>1, <4>1, <4>2
    <3>2. CASE CallEnqueue(t) \/ HandOver(t) \/ EnqueueAppend(t) \/ TakeData(t) \/ TryFirst(t)
      <4>1. got' = got /\ got' \in [Thread -> Seq(Item)]
        BY <1>5, <3>2, PlacesTyped, MovesCaller
      <4>2. (pc[t] = "idle" /\ calls'[t] = calls[t] + 1) \/ (pc[t] # "idle" /\ calls'[t] = calls[t])
        BY <1>5, <3>2, MovesCaller
      <4> QED
        BY <1>1, <1>2, <4>1, <4>2
    <3> QED
      BY <1>5, <3>1, <3>2 DEF Moving
  <2>2. \A u \in Thread \ {t} : /\ Len(got'[u]) <= calls'[u]
                                /\ pc'[u] # "idle" => Len(got'[u]) + 1 <= calls'[u]
    BY <1>1, <1>5, MovesCaller
  <2> QED
    BY <2>1, <2>2 DEF GotFits
<1> QED
  BY <1>3, <1>4, <1>5, StepMoves

\* Taking an item and returning it is counted once.
LEMMA VisitedPreserved == HInv /\ [Next]_vars /\ ~ Garbage' => VisitedIsExact'
<1> SUFFICES ASSUME HInv, [Next]_vars, ~ Garbage' PROVE VisitedIsExact'
  OBVIOUS
<1> DEFINE cd == Cardinality(Delivered)  cr == Cardinality(drained)  cc == Cardinality(Counted)
<1>1. /\ IsFiniteSet(Delivered) /\ IsFiniteSet(drained) /\ IsFiniteSet(Counted)
      /\ visited_count = cd + cr + cc
      /\ cd \in Nat /\ cr \in Nat /\ cc \in Nat
  <2>1. IsFiniteSet(Counted)
    BY ConstantsAssumption, FS_Subset DEF Counted
  <2> QED
    BY <2>1, FS_CardinalityType DEF HInv, VisitedIsExact
<1> HIDE DEF cd, cr, cc
<1>2. /\ IsFiniteSet(Delivered') /\ IsFiniteSet(drained')
      /\ visited_count' = Cardinality(Delivered') + Cardinality(drained') + Cardinality(Counted')
      => VisitedIsExact'
  BY DEF VisitedIsExact
<1>3. CASE Quiet
  <2>1. Delivered' = Delivered /\ drained' = drained /\ visited_count' = visited_count
    BY <1>3 DEF Quiet, Delivered
  <2>2. Counted' = Counted
    BY <1>3 DEF Quiet, Counted
  <2> QED
    BY <1>1, <1>2, <2>1, <2>2 DEF cd, cr, cc
<1>4. CASE DestroyDequeue
  <2> DEFINE e == Head(queue)
  <2>1. /\ drained' = drained \cup {e} /\ e \notin drained
        /\ UNCHANGED <<pc, got>> /\ visited_count' = visited_count + 1
    BY <1>4, DestroyMoves
  <2> HIDE DEF e
  <2>2. Delivered' = Delivered /\ Counted' = Counted
    BY <2>1 DEF Delivered, Counted
  <2>3. IsFiniteSet(drained') /\ Cardinality(drained') = cr + 1
    BY <1>1, <2>1, FS_AddElement DEF cr
  <2> QED
    BY <1>1, <1>2, <2>1, <2>2, <2>3 DEF cd, cc
<1>5. ASSUME NEW t \in Thread, Moving(t), ~ TakeData(t), ~ DequeueReturn(t) PROVE Counted' = Counted
  BY <1>5, MovesCaller DEF Moving, Counted
<1>6. ASSUME NEW t \in Thread, CallEnqueue(t) \/ HandOver(t) \/ EnqueueAppend(t) \/ TryFirst(t)
      PROVE  VisitedIsExact'
  <2>1. Moving(t) /\ ~ TakeData(t) /\ ~ DequeueReturn(t)
    BY <1>6, MovesCaller DEF Moving
  <2>2. Delivered' = Delivered /\ drained' = drained /\ visited_count' = visited_count
    BY <1>6, CallEnqueueMoves, HandOverMoves, AppendMoves, TryFirstMoves DEF Delivered
  <2> QED
    BY <1>1, <1>2, <1>5, <2>1, <2>2 DEF cd, cr, cc
<1>7. ASSUME NEW t \in Thread, DequeueFirst(t) PROVE VisitedIsExact'
  <2>1. Counted' = Counted
    BY <1>5, <1>7, MovesCaller DEF Moving
  <2> DEFINE e == Head(queue)
  <2>2. /\ Delivered' = Delivered \cup {e} /\ e \in Item /\ e \in InQueue
        /\ drained' = drained /\ visited_count' = visited_count + 1
    BY <1>7, DequeueFirstMoves
  <2> HIDE DEF e
  <2>3. e \notin Delivered
    BY <2>2, PlacesTyped DEF InOnePlace
  <2>4. IsFiniteSet(Delivered') /\ Cardinality(Delivered') = cd + 1
    BY <1>1, <2>2, <2>3, FS_AddElement DEF cd
  <2> QED
    BY <1>1, <1>2, <2>1, <2>2, <2>4 DEF cr, cc
<1>8. ASSUME NEW t \in Thread, TakeData(t) PROVE VisitedIsExact'
  <2>1. Delivered' = Delivered /\ drained' = drained /\ visited_count' = visited_count + 1
    BY <1>8, TakeDataMoves DEF Delivered
  <2>2. Counted' = Counted \cup {t} /\ t \notin Counted
    BY <1>8, MovesCaller DEF Moving, Counted
  <2>3. Cardinality(Counted') = cc + 1
    BY <1>1, <2>2, FS_AddElement DEF cc
  <2> QED
    BY <1>1, <1>2, <2>1, <2>3 DEF cd, cr
<1>9. ASSUME NEW t \in Thread, DequeueReturn(t) \/ TryReturn(t) PROVE VisitedIsExact'
  <2>1. /\ arg[t] \in Item /\ arg[t] \in InCalls
        /\ Delivered' = Delivered \cup {arg[t]} /\ drained' = drained
    BY <1>9, ReturnMoves
  <2>2. arg[t] \notin Delivered
    BY <2>1, PlacesTyped DEF InOnePlace
  <2>3. IsFiniteSet(Delivered') /\ Cardinality(Delivered') = cd + 1
    BY <1>1, <2>1, <2>2, FS_AddElement DEF cd
  <2>4. CASE DequeueReturn(t)
    <3>1. visited_count' = visited_count
      BY <2>4 DEF DequeueReturn
    <3>2. Counted' = Counted \ {t} /\ t \in Counted
      BY <2>4, MovesCaller DEF Moving, Counted
    <3>3. Cardinality(Counted') = cc - 1
      BY <1>1, <3>2, FS_RemoveElement DEF cc
    <3> QED
      BY <1>1, <1>2, <2>1, <2>3, <3>1, <3>3 DEF cr
  <2>5. CASE TryReturn(t)
    <3>1. visited_count' = visited_count + 1
      BY <2>5 DEF TryReturn
    <3>2. Counted' = Counted
      BY <1>5, <2>5, MovesCaller DEF Moving
    <3> QED
      BY <1>1, <1>2, <2>1, <2>3, <3>1, <3>2 DEF cr, cc
  <2> QED
    BY <1>9, <2>4, <2>5
<1> QED
  BY <1>3, <1>4, <1>6, <1>7, <1>8, <1>9, StepMoves DEF Moving

-----------------------------------------------------------------------------
\* No step leaves a state in which garbage was returned.
LEMMA GarbageStays == Garbage /\ [Next]_vars => Garbage'
<1> SUFFICES ASSUME Garbage, Next PROVE FALSE
  BY DEF vars, Garbage
<1>1. ASSUME NEW t \in Thread, NewCall(t) \/ enqueue(t) PROVE FALSE
  BY <1>1 DEF NewCall, CallEnqueue, CallDequeue, CallTryDequeue, Call, enqueue, EnqueueLockW,
     HandOver, NoWaiter, Signal, EnqueueLockQ, EnqueueAppend, Goto
<1>2. ASSUME NEW t \in Thread, dequeue(t) PROVE FALSE
  BY <1>2 DEF dequeue, DequeueLockQ, DequeueFirst, AllocateNode, DequeueLockW, Register, Wait,
     WaitRelock, WaitAgain, TakeData, DequeueReturn, Goto
<1>3. ASSUME NEW t \in Thread, tryDequeue(t) \/ SpuriousWakeup(t) PROVE FALSE
  BY <1>3 DEF tryDequeue, TryLockQ, TryEmpty, TryFirst, TryReturn, SpuriousWakeup, Goto
<1>4. ASSUME destroyQueue PROVE FALSE
  BY <1>4 DEF destroyQueue, DestroyDequeue, DestroyLists
<1> QED
  BY <1>1, <1>2, <1>3, <1>4 DEF Next, Step

\* The invariant of the hand-over holds in every reachable state, whatever malloc leaves in
\* a new node, until a wakeup for nothing has returned it.
THEOREM HandOverInvariant == Spec => [](~ Garbage => HInv)
<1> DEFINE Inv == ~ Garbage => HInv
<1>1. Inv /\ [Next]_vars => Inv'
  <2> SUFFICES ASSUME Inv, [Next]_vars, ~ Garbage' PROVE HInv'
    BY DEF Inv
  <2>1. HInv
    BY GarbageStays
  <2>2. IInv'
    BY <2>1, TypePreserved, LocalsPreserved, LocksPreserved, CountPreserved DEF HInv, IInv
  <2> QED
    BY <2>1, <2>2, HoldsPreserved, WaitersPreserved, PlacesPreserved, GotPreserved,
       VisitedPreserved DEF HInv
<1>2. Init => Inv
  BY HInit
<1> QED
  BY <1>1, <1>2, PTL DEF Spec

\* Every node linked in the waiting list is one of a waiter that was not served.
THEOREM QueueNodesWait == Spec => []LinkedNodesWait
<1>1. (~ Garbage => HInv) => LinkedNodesWait
  <2> SUFFICES ASSUME HInv PROVE LinkedNodesWait
    BY DEF LinkedNodesWait
  <2>1. \A k \in 1..Len(waiting_queue) :
          LET n == waiting_queue[k] IN
            calls[n[1]] = n[2] /\ pc[n[1]] \in WaitPcs /\ data[n[1]] \notin Item
    BY DEF HInv, WaitersLinked
  <2>2. WaitPcs \subseteq NodePcs
    BY DEF WaitPcs, NodePcs
  <2>3. Injective(waiting_queue)
    BY DEF HInv, WaitersLinked
  <2> QED
    BY <2>1, <2>2, <2>3 DEF LinkedNodesWait, Live, Injective
<1> QED
  BY HandOverInvariant, <1>1, PTL

\* A set of places that hold the item has one element or none.
LEMMA CountOfOne ==
  ASSUME NEW S, NEW b \in BOOLEAN,
         b => \E x : x \in S, ~ b => S = {},
         \A x, y \in S : x = y
  PROVE  Cardinality(S) = IF b THEN 1 ELSE 0
<1>1. CASE b
  <2>1. PICK x : x \in S
    BY <1>1
  <2>2. S = {x}
    BY <2>1
  <2> QED
    BY <1>1, <2>2, FS_Singleton
<1>2. CASE ~ b
  BY <1>2, FS_EmptySet
<1> QED
  BY <1>1, <1>2

\* Every pointer that was enqueued is in one place, and once no call is in progress the
\* counters agree with what was returned (test.c reads them after its joins).
THEOREM QueueExactlyOnce == Spec => []ExactlyOnce
<1>1. HInv => JoinedCounters
  <2> SUFFICES ASSUME HInv, \A t \in Thread : pc[t] = "idle"
               PROVE  /\ waiting_queue = <<>> /\ waiting = 0
                      /\ visited = Cardinality(Delivered) + Cardinality(drained)
    BY DEF JoinedCounters
  <2>1. waiting_queue = <<>>
    <3>1. SUFFICES ASSUME waiting_queue # <<>> PROVE FALSE
      OBVIOUS
    <3>2. Head(waiting_queue)[1] \in Thread /\ pc[Head(waiting_queue)[1]] \in WaitPcs
      BY <3>1, FirstWaits DEF HInv, IInv
    <3> QED
      BY <3>2 DEF WaitPcs
  <2>2. waiting = 0
    <3>1. Registered = {}
      BY DEF Registered
    <3> QED
      BY <3>1, FS_EmptySet DEF HInv, IInv, WaitingIsExact
  <2>3. visited = Cardinality(Delivered) + Cardinality(drained)
    <3>1. Counted = {}
      BY DEF Counted
    <3>2. Cardinality(Delivered) \in Nat /\ Cardinality(drained) \in Nat
      BY FS_CardinalityType DEF HInv, VisitedIsExact
    <3> QED
      BY <3>1, <3>2, FS_EmptySet DEF HInv, VisitedIsExact, visited
  <2> QED
    BY <2>1, <2>2, <2>3
<1>2. ASSUME HInv, NEW i \in Item
      PROVE  LET inQueue == {k \in 1..Len(queue) : queue[k] = i}
                 inCalls == {t \in Thread : arg[t] = i}
                 inData  == {t \in Thread : data[t] = i}
                 inGot   == {e \in Thread \X (1..MaxCalls) :
                               e[2] <= Len(got[e[1]]) /\ got[e[1]][e[2]] = i}
             IN  Cardinality(inQueue) + Cardinality(inCalls) + Cardinality(inData)
                   + Cardinality(inGot) + Cardinality({i} \cap (fresh \cup drained)) = 1
  <2> DEFINE inQueue == {k \in 1..Len(queue) : queue[k] = i}
             inCalls == {t \in Thread : arg[t] = i}
             inData  == {t \in Thread : data[t] = i}
             inGot   == {e \in Thread \X (1..MaxCalls) :
                           e[2] <= Len(got[e[1]]) /\ got[e[1]][e[2]] = i}
             outside == {i} \cap (fresh \cup drained)
             one(b)  == IF b THEN 1 ELSE 0
  <2>1. Cardinality(inQueue) = one(i \in InQueue)
    <3>1. (i \in InQueue => \E k : k \in inQueue) /\ (i \notin InQueue => inQueue = {})
      BY DEF InQueue, SetOf
    <3>2. \A k, l \in inQueue : k = l
      BY <1>2, PlacesTyped DEF Injective
    <3> HIDE DEF inQueue
    <3> QED
      BY <3>1, <3>2, CountOfOne
  <2>2. Cardinality(inCalls) = one(i \in InCalls)
    <3>1. (i \in InCalls => \E t : t \in inCalls) /\ (i \notin InCalls => inCalls = {})
      BY DEF InCalls, ItemsIn
    <3>2. \A t, u \in inCalls : t = u
      BY <1>2, PlacesTyped, ConstantsAssumption DEF OneEach
    <3> HIDE DEF inCalls
    <3> QED
      BY <3>1, <3>2, CountOfOne
  <2>3. Cardinality(inData) = one(i \in InNodes)
    <3>1. (i \in InNodes => \E t : t \in inData) /\ (i \notin InNodes => inData = {})
      BY DEF InNodes, ItemsIn
    <3>2. \A t, u \in inData : t = u
      BY <1>2, PlacesTyped, ConstantsAssumption DEF OneEach
    <3> HIDE DEF inData
    <3> QED
      BY <3>1, <3>2, CountOfOne
  <2>4. Cardinality(inGot) = one(i \in Delivered)
    <3>1. ASSUME i \in Delivered PROVE \E e : e \in inGot
      <4>1. PICK t \in Thread : \E k \in 1..Len(got[t]) : got[t][k] = i
        BY <3>1 DEF Delivered, ItemsOf
      <4>2. PICK k \in 1..Len(got[t]) : got[t][k] = i
        BY <4>1
      <4>3. Len(got[t]) \in Nat /\ calls[t] \in 0..MaxCalls /\ Len(got[t]) <= calls[t]
        BY <1>2, PlacesTyped DEF HInv, GotFits
      <4>4. k \in 1..MaxCalls /\ k <= Len(got[t])
        BY <4>2, <4>3, ConstantsAssumption
      <4>5. <<t, k>> \in inGot
        BY <4>2, <4>4
      <4> QED
        BY <4>5, Zenon
    <3>2. ASSUME NEW e \in inGot PROVE e[1] \in Thread /\ e[2] \in 1..Len(got[e[1]]) /\ got[e[1]][e[2]] = i
      <4>1. Len(got[e[1]]) \in Nat
        BY <1>2, PlacesTyped
      <4> QED
        BY <4>1, ConstantsAssumption
    <3>3. i \notin Delivered => inGot = {}
      <4>1. \A e \in inGot : i \in Delivered
        <5> HIDE DEF inGot
        <5> QED
          BY <3>2 DEF Delivered, ItemsOf
      <4> HIDE DEF inGot
      <4> QED
        BY <4>1, Zenon
    <3>4. \A e, f \in inGot : e = f
      <4>1. ASSUME NEW e \in inGot, NEW f \in inGot PROVE e[1] = f[1] /\ e[2] = f[2]
        <5> HIDE DEF inGot
        <5>1. GotOnce(got)
          BY <1>2, PlacesTyped
        <5> QED
          BY <3>2, <5>1 DEF GotOnce
      <4>2. \A e \in inGot : e = <<e[1], e[2]>>
        OBVIOUS
      <4> HIDE DEF inGot
      <4> QED
        BY <4>1, <4>2
    <3> HIDE DEF inGot
    <3> QED
      BY <3>1, <3>3, <3>4, CountOfOne
  <2>5. Cardinality(outside) = one(i \in fresh \cup drained)
    <3>1. outside = IF i \in fresh \cup drained THEN {i} ELSE {}
      OBVIOUS
    <3> HIDE DEF outside
    <3> QED
      BY <3>1, FS_Singleton, FS_EmptySet
  <2>6. InOnePlace(i)
    BY <1>2, PlacesTyped
  <2> HIDE DEF inQueue, inCalls, inData, inGot, outside
  <2>7. Cardinality(inQueue) + Cardinality(inCalls) + Cardinality(inData)
          + Cardinality(inGot) + Cardinality(outside) = 1
    BY <2>1, <2>2, <2>3, <2>4, <2>5, <2>6 DEF InOnePlace
  <2> QED
    BY <2>7 DEF inQueue, inCalls, inData, inGot, outside
<1>3. (~ Garbage => HInv) => ExactlyOnce
  BY <1>1, <1>2, Zenon DEF ExactlyOnce
<1> QED
  BY HandOverInvariant, <1>3, PTL

-----------------------------------------------------------------------------
(***************************************************************************)
(* The refinement of Transfer.  An item is put in by the enqueue that      *)
(* links it or writes it into a node, and taken by the step that removes   *)
(* it; every other step leaves what is held and what is taken alone.       *)
(***************************************************************************)
TakenOf == [c \in Thread \cup {Main} |-> IF c = Main THEN drained ELSE Taken(c)]

\* What a call returns is added to what its thread has got.
LEMMA ItemReturned ==
  ASSUME NEW s \in Seq(Item), NEW i \in Item
  PROVE  ItemsOf(Append(s, i)) = ItemsOf(s) \cup {i}
BY AppendSet DEF SetOf, ItemsOf

\* An item put in, with what every caller has taken left alone.
LEMMA PutRefines ==
  ASSUME NEW i \in Item, i \notin Held, i \notin UNION {TakenOf[c] : c \in Thread \cup {Main}},
         Held' = Held \cup {i}, TakenOf' = TakenOf
  PROVE  HandOverAbs!Next
<1>1. HandOverAbs!Put(i)
  BY DEF HandOverAbs!Put, HandOverAbs!Gone, TakenOf
<1> QED
  BY <1>1 DEF HandOverAbs!Next

\* An item taken out by one caller.
LEMMA TakeRefines ==
  ASSUME NEW c \in Thread \cup {Main}, NEW i \in Item, i \in Held, Held' = Held \ {i},
         TakenOf' = [TakenOf EXCEPT ![c] = @ \cup {i}]
  PROVE  HandOverAbs!Next
<1>1. HandOverAbs!Take(c, i)
  BY DEF HandOverAbs!Take, TakenOf
<1> QED
  BY <1>1 DEF HandOverAbs!Next

\* Only the caller's own share of what is taken can change.
LEMMA TakenChanges ==
  ASSUME NEW t \in Thread, NEW S, drained' = drained,
         \A u \in Thread \ {t} : Taken(u)' = Taken(u), Taken(t)' = Taken(t) \cup S
  PROVE  TakenOf' = [TakenOf EXCEPT ![t] = @ \cup S]
<1>1. Main \notin Thread
  BY MainAssumption
<1>2. \A c \in Thread \cup {Main} :
        TakenOf'[c] = IF c = t THEN TakenOf[c] \cup S ELSE TakenOf[c]
  BY <1>1 DEF TakenOf
<1> QED
  BY <1>2 DEF TakenOf

\* A step that moves no item is a stuttering step of Transfer.
LEMMA QuietStutters == HInv /\ Quiet => Held' = Held /\ TakenOf' = TakenOf
<1> SUFFICES ASSUME HInv, Quiet PROVE Held' = Held /\ TakenOf' = TakenOf
  OBVIOUS
<1>1. \A t \in Thread : Taken(t)' = Taken(t)
  BY DEF Quiet, Taken
<1>2. Held = ItemsOf(queue) \cup InNodes /\ Held' = ItemsOf(queue') \cup InNodes'
  BY DEF Held, InNodes, ItemsIn
<1> QED
  BY <1>1, <1>2, QuietNodes DEF Quiet, TakenOf

\* The threads that do not move an item have what they had.
LEMMA OthersKeep ==
  ASSUME HInv, NEW t \in Thread, Moving(t)
  PROVE  \A u \in Thread \ {t} : Taken(u)' = Taken(u)
<1>1. \A u \in Thread \ {t} : arg'[u] = arg[u]
  BY PlacesTyped DEF Moving, CallEnqueue, HandOver, EnqueueAppend, DequeueFirst, TakeData,
     DequeueReturn, TryFirst, TryReturn
<1> QED
  BY <1>1, MovesCaller DEF Taken

\* An item that is not yet held was taken by nobody.
LEMMA CarriedIsNew ==
  ASSUME HInv, NEW t \in Thread, arg[t] \in Item, pc[t] \notin {"d_return", "t_return"}
  PROVE  /\ arg[t] \notin Held
         /\ arg[t] \notin UNION {TakenOf[c] : c \in Thread \cup {Main}}
<1>1. arg[t] \in InCalls
  BY DEF InCalls, ItemsIn
<1>2. arg[t] \notin InQueue \cup InNodes \cup Delivered \cup drained
  BY <1>1, PlacesTyped DEF InOnePlace
<1>3. \A u \in Thread : arg[t] \notin Taken(u)
  <2> SUFFICES ASSUME NEW u \in Thread PROVE arg[t] \notin Taken(u)
    OBVIOUS
  <2>1. arg[t] \notin ItemsOf(got[u])
    BY <1>2 DEF Delivered
  <2>2. pc[u] \in {"d_return", "t_return"} => arg[u] # arg[t]
    BY PlacesTyped, ConstantsAssumption DEF OneEach
  <2> QED
    BY <2>1, <2>2 DEF Taken
<1> QED
  BY <1>2, <1>3 DEF Held, InQueue, InNodes, ItemsIn, SetOf, ItemsOf, TakenOf

\* Every step puts one item in, takes one out, or is invisible.
LEMMA StepRefines ==
  HInv /\ [Next]_vars /\ ~ Garbage' => [HandOverAbs!Next]_<<Held, TakenOf>>
<1> SUFFICES ASSUME HInv, [Next]_vars, ~ Garbage', <<Held, TakenOf>>' # <<Held, TakenOf>>
             PROVE  HandOverAbs!Next
  OBVIOUS
<1>1. Held = InQueue \cup InNodes /\ Held' = InQueue' \cup InNodes'
  BY DEF Held, InQueue, InNodes, ItemsIn, SetOf, ItemsOf
<1>2. CASE Quiet
  BY <1>2, QuietStutters
<1>3. CASE DestroyDequeue
  <2> DEFINE e == Head(queue)
  <2>1. /\ e \in Item /\ e \in InQueue /\ InQueue' = InQueue \ {e} /\ drained' = drained \cup {e}
        /\ UNCHANGED <<pc, calls, arg, data, got, fresh>>
    BY <1>3, DestroyMoves
  <2> HIDE DEF e
  <2>2. e \in Held /\ Held' = Held \ {e}
    <3>1. InNodes' = InNodes
      BY <2>1 DEF InNodes
    <3>2. e \notin InNodes
      BY <2>1, PlacesTyped DEF InOnePlace
    <3> QED
      BY <1>1, <2>1, <3>1, <3>2
  <2>3. \A u \in Thread : Taken(u)' = Taken(u)
    BY <2>1 DEF Taken
  <2>4. TakenOf' = [TakenOf EXCEPT ![Main] = @ \cup {e}]
    BY <2>1, <2>3, MainAssumption DEF TakenOf
  <2> QED
    BY <2>1, <2>2, <2>4, TakeRefines
<1>4. ASSUME NEW t \in Thread, CallEnqueue(t) PROVE FALSE
  <2>1. Taken(t)' = Taken(t) /\ Moving(t) /\ UNCHANGED <<queue, data, drained>>
    BY <1>4, CallEnqueueMoves, MovesCaller DEF Taken, Moving
  <2> QED
    BY <1>4, <2>1, OthersKeep DEF Held, TakenOf
<1>5. ASSUME NEW t \in Thread, HandOver(t) \/ EnqueueAppend(t) PROVE HandOverAbs!Next
  <2>1. Moving(t) /\ arg[t] \in Item /\ UNCHANGED <<got, drained>>
    BY <1>5, HandOverMoves, AppendMoves DEF Moving
  <2>2. pc[t] \in {"e_inW", "e_inQ"} /\ pc'[t] \in {"e_signal", "idle"}
    BY <1>5, <2>1, MovesCaller
  <2>3. Held' = Held \cup {arg[t]}
    <3>1. CASE HandOver(t)
      BY <1>1, <3>1, HandOverMoves DEF InQueue
    <3>2. CASE EnqueueAppend(t)
      BY <1>1, <3>2, AppendMoves DEF InNodes
    <3> QED
      BY <1>5, <3>1, <3>2
  <2>4. Taken(t)' = Taken(t)
    BY <2>1, <2>2 DEF Taken
  <2>5. TakenOf' = TakenOf
    BY <2>1, <2>4, OthersKeep DEF TakenOf
  <2> QED
    BY <2>1, <2>2, <2>3, <2>5, CarriedIsNew, PutRefines
<1>6. ASSUME NEW t \in Thread, DequeueFirst(t) PROVE HandOverAbs!Next
  <2> DEFINE e == Head(queue)
  <2>1. /\ e \in Item /\ e \in InQueue /\ InQueue' = InQueue \ {e}
        /\ got' = [got EXCEPT ![t] = Append(@, e)] /\ UNCHANGED <<arg, data, drained>>
    BY <1>6, DequeueFirstMoves
  <2> HIDE DEF e
  <2>2. e \in Held /\ Held' = Held \ {e}
    <3>1. InNodes' = InNodes
      BY <2>1 DEF InNodes
    <3>2. e \notin InNodes
      BY <2>1, PlacesTyped DEF InOnePlace
    <3> QED
      BY <1>1, <2>1, <3>1, <3>2
  <2>3. Moving(t) /\ pc[t] = "d_inQ" /\ pc'[t] = "idle"
    BY <1>6, MovesCaller DEF Moving
  <2>4. ItemsOf(got'[t]) = ItemsOf(got[t]) \cup {e}
    <3>1. got'[t] = Append(got[t], e) /\ got[t] \in Seq(Item)
      BY <2>1, PlacesTyped
    <3> QED
      BY <2>1, <3>1, ItemReturned
  <2>5. Taken(t)' = Taken(t) \cup {e}
    BY <2>3, <2>4 DEF Taken
  <2>6. TakenOf' = [TakenOf EXCEPT ![t] = @ \cup {e}]
    BY <2>1, <2>3, <2>5, OthersKeep, TakenChanges
  <2> QED
    BY <2>1, <2>2, <2>6, TakeRefines
<1>7. ASSUME NEW t \in Thread, TakeData(t) PROVE HandOverAbs!Next
  <2> DEFINE e == data[t]
  <2>1. /\ e \in Item /\ e \in InNodes /\ InNodes' = InNodes \ {e}
        /\ UNCHANGED <<queue, got, drained>>
    BY <1>7, TakeDataMoves
  <2>2. arg'[t] = e
    BY <1>7, PlacesTyped DEF TakeData
  <2> HIDE DEF e
  <2>3. e \in Held /\ Held' = Held \ {e}
    <3>1. InQueue' = InQueue
      BY <2>1 DEF InQueue
    <3>2. e \notin InQueue
      BY <2>1, PlacesTyped DEF InOnePlace
    <3> QED
      BY <1>1, <2>1, <3>1, <3>2
  <2>4. Moving(t) /\ pc[t] = "d_check" /\ pc'[t] = "d_return"
    BY <1>7, MovesCaller DEF Moving
  <2>5. Taken(t)' = Taken(t) \cup {e}
    BY <2>1, <2>2, <2>4 DEF Taken
  <2>6. TakenOf' = [TakenOf EXCEPT ![t] = @ \cup {e}]
    BY <2>1, <2>4, <2>5, OthersKeep, TakenChanges
  <2> QED
    BY <2>1, <2>3, <2>6, TakeRefines
<1>8. ASSUME NEW t \in Thread, TryFirst(t) PROVE HandOverAbs!Next
  <2> DEFINE e == Head(queue)
  <2>1. /\ e \in Item /\ e \in InQueue /\ InQueue' = InQueue \ {e}
        /\ arg' = [arg EXCEPT ![t] = e] /\ UNCHANGED <<data, got, drained>>
    BY <1>8, TryFirstMoves
  <2> HIDE DEF e
  <2>2. e \in Held /\ Held' = Held \ {e}
    <3>1. InNodes' = InNodes
      BY <2>1 DEF InNodes
    <3>2. e \notin InNodes
      BY <2>1, PlacesTyped DEF InOnePlace
    <3> QED
      BY <1>1, <2>1, <3>1, <3>2
  <2>3. Moving(t) /\ pc[t] = "t_inQ" /\ pc'[t] = "t_return" /\ arg'[t] = e
    BY <1>8, <2>1, PlacesTyped, MovesCaller DEF Moving
  <2>4. Taken(t)' = Taken(t) \cup {e}
    BY <2>1, <2>3 DEF Taken
  <2>5. TakenOf' = [TakenOf EXCEPT ![t] = @ \cup {e}]
    BY <2>1, <2>3, <2>4, OthersKeep, TakenChanges
  <2> QED
    BY <2>1, <2>2, <2>5, TakeRefines
<1>9. ASSUME NEW t \in Thread, DequeueReturn(t) \/ TryReturn(t) PROVE FALSE
  <2>1. /\ arg[t] \in Item /\ got' = [got EXCEPT ![t] = Append(@, arg[t])]
        /\ UNCHANGED <<queue, data, drained>>
    BY <1>9, ReturnMoves
  <2>2. Moving(t) /\ pc[t] \in {"d_return", "t_return"} /\ pc'[t] = "idle"
    BY <1>9, MovesCaller DEF Moving
  <2>3. ItemsOf(got'[t]) = ItemsOf(got[t]) \cup {arg[t]}
    <3>1. got'[t] = Append(got[t], arg[t]) /\ got[t] \in Seq(Item)
      BY <2>1, PlacesTyped
    <3> QED
      BY <2>1, <3>1, ItemReturned
  <2>4. Taken(t)' = Taken(t)
    BY <2>2, <2>3 DEF Taken
  <2> QED
    BY <2>1, <2>2, <2>4, OthersKeep DEF Held, TakenOf
<1> QED
  BY <1>2, <1>3, <1>4, <1>5, <1>6, <1>7, <1>8, <1>9, StepMoves DEF Moving

\* The queue implements Transfer: what its calls return is what was enqueued, each item
\* handed to one caller.
THEOREM QueueIsTransfer == Spec => HandOverIsTransfer
<1>1. Init => HandOverAbs!Init
  BY ConstantsAssumption DEF Init, HandOverAbs!Init, Held, Taken, ItemsOf
<1>2. (~ Garbage => HInv) /\ [Next]_vars => [HandOverAbs!Next \/ Garbage']_HandOverAbs!vars
  BY StepRefines, GarbageStays DEF HandOverAbs!vars, TakenOf
<1> QED
  BY <1>1, <1>2, HandOverInvariant, PTL DEF Spec, HandOverIsTransfer

=============================================================================
