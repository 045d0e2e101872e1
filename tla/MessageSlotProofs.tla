--------------------------- MODULE MessageSlotProofs ---------------------------
(***************************************************************************)
(* Theorems about the drivers, for any processes, minors, slots, channels  *)
(* and messages. MessageSlot: however calls overlap, the spinlock of       *)
(* message_slot.c:66-92 keeps a channel from being created twice; calls    *)
(* that do not overlap leak nothing and implement SlotPromise.             *)
(* MessageSlotCpp, whose calls never overlap, implements it too.           *)
(***************************************************************************)
EXTENDS Integers, MessageSlots, SequenceTheorems, TLAPS

\* A call past its entry uses a slot that is allocated; it owns the spinlock from
\* GetLock on, until it leaves get_channel; and a call about to create a channel has
\* looked for it under the lock.
LockFits ==
  /\ \A m \in Minor : message_slots[m] \in alive \cup {NULL}
  /\ \A p \in Process :
       /\ pc[p] \notin {"idle", "o_alloc"} => slot[p] \in alive
       /\ pc[p] \in {"g_find", "g_create"} => lock[slot[p]] = p
       /\ pc[p] = "g_create" => Matches(p) = {}

IInv == TypeOK /\ LockFits /\ OneChannelPerId

CallType == [op : {"none", "open", "write", "read"}, minor : Minor \cup {NULL},
             buffer : Message \cup {NULL}, length : Nat]
AnswerType == Message \cup Errors \cup {"none", "done", Freed}

-----------------------------------------------------------------------------
\* The initial state: no call is under way.
LEMMA InitIInv == Init => IInv
  BY ConstantsAssumption
  DEF Init, IInv, TypeOK, LockFits, OneChannelPerId, PC, NoCall, Call, Errors

\* What a call leaves of its locals when it returns (every return statement).
LEMMA ReturnTyped ==
  ASSUME TypeOK, NEW p \in Process, NEW r \in Message \cup Errors \cup {"done", Freed},
         Return(p, r)
  PROVE  /\ pc' = [pc EXCEPT ![p] = "idle"]
         /\ slot' = [slot EXCEPT ![p] = NULL]
         /\ pc' \in [Process -> PC]
         /\ call' \in [Process -> CallType]
         /\ slot' \in [Process -> Slots \cup {NULL}]
         /\ channel' \in [Process -> Nat]
         /\ temp_buf' \in [Process -> Buffers \cup {NULL}]
         /\ answer' \in [Process -> AnswerType]
  BY DEF TypeOK, Return, PC, NoCall, Call, CallType, AnswerType

\* A step that touches no slot, and leaves its call outside get_channel and in an
\* allocated slot, keeps the two other parts of the invariant.
LEMMA KeepsLock ==
  ASSUME TypeOK, LockFits, OneChannelPerId, NEW p \in Process,
         UNCHANGED slotVs,
         pc' \in [Process -> PC], slot' \in [Process -> Slots \cup {NULL}],
         \A q \in Process \ {p} :
           pc'[q] = pc[q] /\ slot'[q] = slot[q] /\ private_data'[q] = private_data[q],
         pc'[p] \notin {"g_find", "g_create"},
         pc'[p] \notin {"idle", "o_alloc"} => slot'[p] \in alive
  PROVE  LockFits' /\ OneChannelPerId'
  <1>1. \A q \in Process \ {p} : Matches(q)' = Matches(q)
    BY DEF Matches, ChannelIdOf, slotVs
  <1>2. LockFits'
    BY <1>1 DEF LockFits, slotVs
  <1>3. OneChannelPerId'
    BY DEF OneChannelPerId, slotVs
  <1> QED BY <1>2, <1>3

-----------------------------------------------------------------------------
(* Steps that touch no slot.                                               *)

\* A call that returns without having touched a slot keeps the two other parts.
LEMMA ReturnKeepsLock ==
  ASSUME IInv, NEW p \in Process, NEW r \in Message \cup Errors \cup {"done", Freed},
         Return(p, r), UNCHANGED slotVs,
         \A q \in Process \ {p} : private_data'[q] = private_data[q]
  PROVE  LockFits' /\ OneChannelPerId'
  <1>1. TypeOK /\ LockFits /\ OneChannelPerId
    BY DEF IInv
  <1>2. /\ pc' = [pc EXCEPT ![p] = "idle"] /\ pc' \in [Process -> PC]
        /\ slot' = [slot EXCEPT ![p] = NULL] /\ slot' \in [Process -> Slots \cup {NULL}]
    BY <1>1, ReturnTyped
  <1>3. pc \in [Process -> PC] /\ slot \in [Process -> Slots \cup {NULL}]
    BY <1>1 DEF TypeOK
  <1>4. /\ \A q \in Process \ {p} : pc'[q] = pc[q] /\ slot'[q] = slot[q]
        /\ pc'[p] = "idle"
    BY <1>2, <1>3
  <1> QED BY <1>1, <1>2, <1>4, KeepsLock

\* A call that returns without having touched a slot.
LEMMA ReturnKeeps ==
  ASSUME IInv, UNCHANGED serial,
         NEW p \in Process, NEW r \in Message \cup Errors \cup {"done", Freed},
         Return(p, r), UNCHANGED <<loaded, slotVs, private_data>>,
         heap' \in [Buffers -> Message \cup {NULL, Freed}],
         minor' \in [Process -> Minor \cup {NULL}]
  PROVE  IInv'
  <1>1. TypeOK'
    BY ReturnTyped DEF IInv, TypeOK, CallType, AnswerType, slotVs
  <1>2. LockFits' /\ OneChannelPerId'
    BY ReturnKeepsLock
  <1> QED BY <1>1, <1>2 DEF IInv

\* device_open of a minor that has a slot, device_release and device_ioctl.
LEMMA FileKeeps ==
  ASSUME IInv, UNCHANGED serial,
         NEW p \in Process, NEW r \in Errors \cup {"done"}, NEW d \in {0} \cup Param,
         Return(p, r), private_data' = [private_data EXCEPT ![p] = d],
         UNCHANGED <<loaded, slotVs, heap>>,
         minor' \in [Process -> Minor \cup {NULL}]
  PROVE  IInv'
  <1>1. TypeOK'
    BY ReturnTyped DEF IInv, TypeOK, CallType, AnswerType, slotVs
  <1>2. \A q \in Process \ {p} : private_data'[q] = private_data[q]
    BY DEF IInv, TypeOK
  <1>3. LockFits' /\ OneChannelPerId'
    BY <1>2, ReturnKeepsLock
  <1> QED BY <1>1, <1>3 DEF IInv

LEMMA OpenCheckKeeps ==
  ASSUME IInv, UNCHANGED serial, NEW p \in Process, NEW m \in Minor, OpenCheck(p, m)
  PROVE  IInv'
  <1>1. CASE OpenFile(p, m)
    BY <1>1, FileKeeps DEF OpenCheck, OpenFile, IInv, TypeOK
  <1>2. CASE /\ pc' = [pc EXCEPT ![p] = "o_alloc"]
             /\ call' = [call EXCEPT ![p] = Call("open", m, NULL, 0)]
             /\ UNCHANGED <<files, slot, channel, temp_buf, answer>>
    <2>1. TypeOK'
      BY <1>2 DEF OpenCheck, IInv, TypeOK, Call, PC, files, slotVs
    <2>2. LockFits' /\ OneChannelPerId'
      BY <1>2, <2>1, KeepsLock DEF OpenCheck, IInv, TypeOK, files
    <2> QED BY <2>1, <2>2 DEF IInv
  <1> QED BY <1>1, <1>2 DEF OpenCheck

LEMMA ReleaseKeeps ==
  ASSUME IInv, UNCHANGED serial, NEW p \in Process, device_release(p)
  PROVE  IInv'
  BY FileKeeps DEF device_release, IInv, TypeOK

LEMMA IoctlKeeps ==
  ASSUME IInv, UNCHANGED serial,
         NEW p \in Process, NEW known \in BOOLEAN, NEW param \in Param,
         device_ioctl(p, known, param)
  PROVE  IInv'
  <1>1. CASE Return(p, "EINVAL") /\ UNCHANGED private_data
    BY <1>1, ReturnKeeps DEF device_ioctl, IInv, TypeOK, Errors
  <1>2. CASE private_data' = [private_data EXCEPT ![p] = param] /\ Return(p, "done")
    BY <1>2, FileKeeps DEF device_ioctl, IInv, TypeOK
  <1> QED BY <1>1, <1>2 DEF device_ioctl

\* device_write and device_read up to get_channel.
LEMMA EnterKeeps ==
  ASSUME IInv, UNCHANGED serial,
         NEW p \in Process, NEW valid \in BOOLEAN, NEW op \in {"write", "read"},
         NEW buffer \in Message \cup {NULL}, NEW length \in Nat,
         Enter(p, valid, op, buffer, length)
  PROVE  IInv'
  <1>1. CASE Return(p, "EINVAL")
    BY <1>1, ReturnKeeps DEF Enter, IInv, TypeOK, Errors, files
  <1>2. CASE /\ message_slots[minor[p]] # NULL
             /\ pc' = [pc EXCEPT ![p] = "g_lock"]
             /\ call' = [call EXCEPT ![p] = Call(op, minor[p], buffer, length)]
             /\ slot' = [slot EXCEPT ![p] = message_slots[minor[p]]]
             /\ UNCHANGED <<channel, temp_buf, answer>>
    <2>1. minor[p] \in Minor /\ message_slots[minor[p]] \in alive
      BY <1>2 DEF Enter, IInv, TypeOK, LockFits
    <2>2. TypeOK'
      BY <1>2, <2>1 DEF Enter, IInv, TypeOK, Call, PC, files, slotVs
    <2>3. LockFits' /\ OneChannelPerId'
      <3>1. /\ UNCHANGED slotVs /\ UNCHANGED private_data
            /\ pc' \in [Process -> PC] /\ slot' \in [Process -> Slots \cup {NULL}]
        BY <2>2 DEF Enter, TypeOK, files
      <3>2. \A q \in Process \ {p} :
              pc'[q] = pc[q] /\ slot'[q] = slot[q] /\ private_data'[q] = private_data[q]
        BY <1>2, <3>1 DEF IInv, TypeOK
      <3>3. pc'[p] = "g_lock" /\ slot'[p] \in alive
        BY <1>2, <2>1 DEF IInv, TypeOK
      <3> QED BY <3>1, <3>2, <3>3, KeepsLock DEF IInv
    <2> QED BY <2>2, <2>3 DEF IInv
  <1> QED BY <1>1, <1>2 DEF Enter

\* A call that goes on to another place behind get_channel.
LEMMA GoesOn ==
  ASSUME IInv, UNCHANGED serial, NEW p \in Process, NEW to \in PC \ {"g_find", "g_create"},
         pc[p] \notin {"idle", "o_alloc"}, pc' = [pc EXCEPT ![p] = to],
         UNCHANGED <<loaded, slotVs, files, call, slot, channel, answer>>,
         temp_buf' \in [Process -> Buffers \cup {NULL}],
         heap' \in [Buffers -> Message \cup {NULL, Freed}]
  PROVE  IInv'
  <1>1. TypeOK'
    BY DEF IInv, TypeOK, files, slotVs
  <1>2. LockFits' /\ OneChannelPerId'
    BY <1>1, KeepsLock DEF IInv, TypeOK, LockFits, files
  <1> QED BY <1>1, <1>2 DEF IInv

LEMMA WriteKeeps ==
  ASSUME IInv, UNCHANGED serial, NEW p \in Process,
         WriteAlloc(p) \/ WriteCopy(p) \/ WriteFault(p) \/ WriteFree(p)
  PROVE  IInv'
  <1>1. CASE WriteAlloc(p)
    <2>1. CASE Return(p, "ENOMEM") /\ UNCHANGED heap
      BY <1>1, <2>1, ReturnKeeps DEF WriteAlloc, IInv, TypeOK, Errors, files
    <2>2. ASSUME NEW b \in Buffers,
                 heap' = [heap EXCEPT ![b] = NULL],
                 temp_buf' = [temp_buf EXCEPT ![p] = b],
                 pc' = [pc EXCEPT ![p] = "w_copy"],
                 UNCHANGED <<call, slot, channel, answer>>
          PROVE  IInv'
      BY <1>1, <2>2, GoesOn DEF WriteAlloc, IInv, TypeOK, PC, files
    <2> QED BY <1>1, <2>1, <2>2 DEF WriteAlloc
  <1>2. CASE WriteCopy(p)
    <2>1. heap' \in [Buffers -> Message \cup {NULL, Freed}]
      BY <1>2 DEF WriteCopy, IInv, TypeOK
    <2> QED BY <1>2, <2>1, GoesOn DEF WriteCopy, Goto, IInv, TypeOK, PC, locals
  <1>3. CASE WriteFault(p)
    BY <1>3, ReturnKeeps DEF WriteFault, IInv, TypeOK, Errors, files
  <1>4. CASE WriteFree(p)
    <2>1. heap' \in [Buffers -> Message \cup {NULL, Freed}]
      BY <1>4 DEF WriteFree, IInv, TypeOK
    <2> QED BY <1>4, <2>1, GoesOn DEF WriteFree, Goto, IInv, TypeOK, PC, locals
  <1> QED BY <1>1, <1>2, <1>3, <1>4

LEMMA ReadKeeps ==
  ASSUME IInv, UNCHANGED serial,
         NEW p \in Process, ReadCheck(p) \/ ReadSize(p) \/ ReadCopy(p)
  PROVE  IInv'
  <1>1. CASE ReadCheck(p)
    <2>1. CASE Return(p, "EWOULDBLOCK")
      BY <1>1, <2>1, ReturnKeeps DEF ReadCheck, IInv, TypeOK, Errors, files
    <2>2. CASE pc' = [pc EXCEPT ![p] = "r_size"] /\ UNCHANGED <<locals, answer>>
      BY <1>1, <2>2, GoesOn DEF ReadCheck, IInv, TypeOK, PC, locals
    <2> QED BY <1>1, <2>1, <2>2 DEF ReadCheck
  <1>2. CASE ReadSize(p)
    <2>1. CASE Return(p, "ENOSPC")
      BY <1>2, <2>1, ReturnKeeps DEF ReadSize, IInv, TypeOK, Errors, files
    <2>2. CASE pc' = [pc EXCEPT ![p] = "r_copy"] /\ UNCHANGED <<locals, answer>>
      BY <1>2, <2>2, GoesOn DEF ReadSize, IInv, TypeOK, PC, locals
    <2> QED BY <1>2, <2>1, <2>2 DEF ReadSize
  <1>3. CASE ReadCopy(p)
    <2>1. Copied(p) \in Message \cup {Freed}
      BY DEF Copied
    <2> QED BY <1>3, <2>1, ReturnKeeps DEF ReadCopy, IInv, TypeOK, Errors, files
  <1> QED BY <1>1, <1>2, <1>3

-----------------------------------------------------------------------------
(* Steps that touch the slots.                                             *)

\* What a step leaves of the calls that it does not belong to.
LEMMA OthersKeepLock ==
  ASSUME LockFits, NEW p \in Process, NEW q \in Process \ {p},
         pc'[q] = pc[q], slot'[q] = slot[q], private_data'[q] = private_data[q],
         slot[q] \in alive => slot[q] \in alive',
         pc[q] \in {"g_find", "g_create"} =>
           lock'[slot[q]] = lock[slot[q]] /\ channels'[slot[q]] = channels[slot[q]]
  PROVE  /\ pc'[q] \notin {"idle", "o_alloc"} => slot'[q] \in alive'
         /\ pc'[q] \in {"g_find", "g_create"} => lock'[slot'[q]] = q
         /\ pc'[q] = "g_create" => Matches(q)' = {}
  <1>1. pc[q] = "g_create" => Matches(q)' = Matches(q)
    BY DEF Matches, ChannelIdOf
  <1> QED BY <1>1 DEF LockFits

\* The owner of a slot's lock is the only call in get_channel there.
LEMMA OwnerIsAlone ==
  ASSUME IInv, NEW p \in Process, NEW q \in Process \ {p},
         (pc[p] = "g_lock" /\ lock[slot[p]] = NULL) \/ pc[p] \in {"g_find", "g_create"},
         pc[q] \in {"g_find", "g_create"}
  PROVE  slot[q] # slot[p]
  <1>1. lock[slot[q]] = q /\ q # NULL
    BY ConstantsAssumption DEF IInv, LockFits
  <1>2. lock[slot[p]] # q
    BY <1>1 DEF IInv, LockFits
  <1> QED BY <1>1, <1>2

LEMMA OpenKeeps ==
  ASSUME IInv, UNCHANGED serial, NEW p \in Process, OpenNoMemory(p) \/ OpenInstall(p)
  PROVE  IInv'
  <1>1. CASE OpenNoMemory(p)
    BY <1>1, ReturnKeeps DEF OpenNoMemory, IInv, TypeOK, Errors, files
  <1>2. CASE OpenInstall(p)
    <2>1. PICK s \in Slots \ alive :
            /\ alive' = alive \cup {s}
            /\ message_slots' = [message_slots EXCEPT ![call[p].minor] = s]
            /\ channels' = [channels EXCEPT ![s] = <<>>]
            /\ lock' = [lock EXCEPT ![s] = NULL]
      BY <1>2 DEF OpenInstall
    <2>2. /\ Return(p, "done")
          /\ private_data' = [private_data EXCEPT ![p] = 0]
          /\ minor' = [minor EXCEPT ![p] = call[p].minor]
          /\ UNCHANGED <<loaded, heap>>
      BY <1>2 DEF OpenInstall, OpenFile
    <2>3. TypeOK /\ LockFits /\ OneChannelPerId
      BY DEF IInv
    <2>4. call[p].minor \in Minor \cup {NULL}
      BY <2>3 DEF TypeOK
    <2>5. <<>> \in Seq(ChannelType)
      OBVIOUS
    <2>6. TypeOK'
      BY <2>1, <2>2, <2>3, <2>4, <2>5, ReturnTyped DEF TypeOK, CallType, AnswerType
    <2>7. pc' = [pc EXCEPT ![p] = "idle"] /\ slot' = [slot EXCEPT ![p] = NULL]
      BY <2>2 DEF Return
    <2>8. \A m \in Minor : message_slots'[m] \in alive' \cup {NULL}
      BY <2>1, <2>3 DEF TypeOK, LockFits
    <2>9. ASSUME NEW q \in Process \ {p}
          PROVE  /\ pc'[q] \notin {"idle", "o_alloc"} => slot'[q] \in alive'
                 /\ pc'[q] \in {"g_find", "g_create"} => lock'[slot'[q]] = q
                 /\ pc'[q] = "g_create" => Matches(q)' = {}
      <3>1. pc'[q] = pc[q] /\ slot'[q] = slot[q] /\ private_data'[q] = private_data[q]
        BY <2>2, <2>3, <2>7 DEF TypeOK
      <3>2. pc[q] \in {"g_find", "g_create"} => slot[q] \in alive
        BY <2>3 DEF LockFits
      <3>3. pc[q] \in {"g_find", "g_create"} =>
              lock'[slot[q]] = lock[slot[q]] /\ channels'[slot[q]] = channels[slot[q]]
        BY <2>1, <2>3, <3>2 DEF TypeOK
      <3> QED BY <2>1, <2>3, <3>1, <3>3, OthersKeepLock
    <2>10. LockFits'
      <3>1. pc'[p] = "idle"
        BY <2>3, <2>7 DEF TypeOK
      <3> QED BY <2>8, <2>9, <3>1 DEF LockFits
    <2>11. OneChannelPerId'
      BY <2>1, <2>3 DEF OneChannelPerId, TypeOK
    <2> QED BY <2>6, <2>10, <2>11 DEF IInv
  <1> QED BY <1>1, <1>2

\* A step of get_channel that changes no list: it takes the lock, or leaves it.
LEMMA LockKeeps ==
  ASSUME IInv, NEW p \in Process, pc[p] \in {"g_lock", "g_find", "g_create"},
         pc[p] = "g_lock" => lock[slot[p]] = NULL,
         NEW owner \in {NULL, p}, lock' = [lock EXCEPT ![slot[p]] = owner],
         TypeOK', UNCHANGED <<loaded, message_slots, alive, channels, private_data>>,
         \A q \in Process \ {p} : pc'[q] = pc[q] /\ slot'[q] = slot[q],
         pc'[p] # "g_create",
         pc'[p] = "g_find" => owner = p,
         pc'[p] # "idle" => slot'[p] = slot[p]
  PROVE  IInv'
  <1>1. TypeOK /\ LockFits /\ OneChannelPerId /\ slot[p] \in alive
    BY DEF IInv, LockFits
  <1>2. ASSUME NEW q \in Process \ {p}
        PROVE  /\ pc'[q] \notin {"idle", "o_alloc"} => slot'[q] \in alive'
               /\ pc'[q] \in {"g_find", "g_create"} => lock'[slot'[q]] = q
               /\ pc'[q] = "g_create" => Matches(q)' = {}
    <2>1. pc[q] \in {"g_find", "g_create"} => slot[q] # slot[p]
      BY OwnerIsAlone
    <2>2. pc[q] \in {"g_find", "g_create"} => lock'[slot[q]] = lock[slot[q]]
      BY <1>1, <2>1 DEF TypeOK
    <2> QED BY <1>1, <2>2, OthersKeepLock
  <1>3. LockFits'
    <2>1. pc'[p] # "idle" => slot'[p] \in alive'
      BY <1>1
    <2>2. pc'[p] = "g_find" => lock'[slot'[p]] = p
      BY <1>1 DEF TypeOK
    <2> QED BY <1>1, <1>2, <2>1, <2>2 DEF LockFits
  <1>4. OneChannelPerId'
    BY <1>1 DEF OneChannelPerId
  <1> QED BY <1>3, <1>4 DEF IInv

LEMMA GetLockKeeps ==
  ASSUME IInv, UNCHANGED serial, NEW p \in Process, GetLock(p) \/ GetNoMemory(p)
  PROVE  IInv'
  <1>1. TypeOK /\ p \in {NULL, p} /\ NULL \in {NULL, p}
    BY DEF IInv
  <1>2. CASE GetLock(p)
    <2>1. TypeOK'
      BY <1>1, <1>2 DEF GetLock, Goto, TypeOK, PC, files, locals
    <2>2. pc[p] = "g_lock" /\ lock[slot[p]] = NULL /\ lock' = [lock EXCEPT ![slot[p]] = p]
      BY <1>2 DEF GetLock, Goto
    <2>3. /\ \A q \in Process \ {p} : pc'[q] = pc[q] /\ slot'[q] = slot[q]
          /\ pc'[p] = "g_find" /\ slot'[p] = slot[p]
          /\ UNCHANGED <<loaded, message_slots, alive, channels, private_data>>
      BY <1>1, <1>2 DEF GetLock, Goto, TypeOK, files, locals
    <2> QED BY <2>1, <2>2, <2>3, LockKeeps
  <1>3. CASE GetNoMemory(p)
    <2>1. PICK r \in Errors : Return(p, r)
      BY <1>3 DEF GetNoMemory, Errors
    <2>2. /\ pc[p] = "g_create" /\ lock' = [lock EXCEPT ![slot[p]] = NULL]
          /\ UNCHANGED <<loaded, message_slots, alive, channels, heap, files, private_data>>
      BY <1>3 DEF GetNoMemory, files
    <2>3. TypeOK'
      BY <1>1, <2>1, <2>2, ReturnTyped DEF TypeOK, CallType, AnswerType, files
    <2>4. /\ \A q \in Process \ {p} : pc'[q] = pc[q] /\ slot'[q] = slot[q]
          /\ pc'[p] = "idle"
      BY <1>1, <2>1 DEF Return, TypeOK
    <2> QED BY <2>2, <2>3, <2>4, LockKeeps
  <1> QED BY <1>2, <1>3

LEMMA GetFindKeeps ==
  ASSUME IInv, UNCHANGED serial, NEW p \in Process, GetFind(p)
  PROVE  IInv'
  <1>1. TypeOK /\ LockFits /\ OneChannelPerId /\ pc[p] = "g_find"
    BY DEF IInv, GetFind
  <1>2. ASSUME NEW k \in Matches(p),
               channel' = [channel EXCEPT ![p] = k],
               lock' = [lock EXCEPT ![slot[p]] = NULL],
               pc' = [pc EXCEPT ![p] = AfterGet(p)]
        PROVE  IInv'
    <2>1. k \in Nat /\ AfterGet(p) \in PC \ {"idle", "g_find", "g_create"}
      <3>1. slot[p] \in Slots
        BY <1>1 DEF LockFits, TypeOK
      <3>2. Len(channels[slot[p]]) \in Nat
        BY <1>1, <3>1 DEF TypeOK
      <3> QED BY <3>2 DEF Matches, AfterGet, PC
    <2>2. TypeOK'
      BY <1>1, <1>2, <2>1 DEF GetFind, TypeOK, files
    <2>3. /\ \A q \in Process \ {p} : pc'[q] = pc[q] /\ slot'[q] = slot[q]
          /\ pc'[p] \notin {"g_find", "g_create"} /\ slot'[p] = slot[p]
          /\ UNCHANGED <<loaded, message_slots, alive, channels, private_data>>
      BY <1>1, <1>2, <2>1 DEF GetFind, TypeOK, files
    <2>4. NULL \in {NULL, p}
      OBVIOUS
    <2> QED BY <1>1, <1>2, <2>2, <2>3, <2>4, LockKeeps
  <1>3. CASE /\ Matches(p) = {}
             /\ pc' = [pc EXCEPT ![p] = "g_create"]
             /\ UNCHANGED <<channel, lock>>
    <2>1. TypeOK'
      BY <1>1, <1>3 DEF GetFind, TypeOK, PC, files
    <2>2. UNCHANGED <<slotVs, private_data, slot>>
      BY <1>3 DEF GetFind, slotVs, files
    <2>3. \A q \in Process : Matches(q)' = Matches(q)
      BY <2>2 DEF Matches, ChannelIdOf, slotVs
    <2>4. LockFits'
      BY <1>1, <1>3, <2>2, <2>3 DEF LockFits, TypeOK, slotVs
    <2>5. OneChannelPerId'
      BY <1>1, <2>2 DEF OneChannelPerId, slotVs
    <2> QED BY <2>1, <2>4, <2>5 DEF IInv
  <1> QED BY <1>2, <1>3 DEF GetFind

\* The new channel's id is in no other channel of the slot: the call looked for it
\* under the lock, and nobody else changed the list since.
LEMMA GetCreateKeeps ==
  ASSUME IInv, UNCHANGED serial, NEW p \in Process, GetCreate(p)
  PROVE  IInv'
  <1> DEFINE s == slot[p]
             new == NewChannel(ChannelIdOf(p))
  <1>1. /\ TypeOK /\ LockFits /\ OneChannelPerId
        /\ pc[p] = "g_create" /\ Matches(p) = {} /\ s \in alive /\ s \in Slots
    BY DEF IInv, LockFits, GetCreate, TypeOK
  <1>2. channels[s] \in Seq(ChannelType) /\ Len(channels[s]) \in Nat
    BY <1>1 DEF TypeOK
  <1>3. new \in ChannelType
    <2>1. private_data[p] \in Nat /\ UINT \in Nat /\ UINT > 0
      <3>1. private_data[p] \in {0} \cup Param
        BY <1>1 DEF TypeOK
      <3>2. Param \subseteq Nat /\ UINT \in Nat \ {0}
        BY ConstantsAssumption
      <3>3. {0} \cup Param \subseteq Nat
        BY <3>2
      <3>4. private_data[p] \in Nat
        BY <3>1, <3>3
      <3>5. \A n \in Nat \ {0} : n \in Nat /\ n > 0
        OBVIOUS
      <3> QED BY <3>2, <3>4, <3>5
    <2>2. ChannelIdOf(p) \in 0..(UINT - 1)
      BY <2>1 DEF ChannelIdOf
    <2> QED BY <2>2 DEF NewChannel, ChannelType
  <1>4. /\ Append(channels[s], new) \in Seq(ChannelType)
        /\ Len(Append(channels[s], new)) = Len(channels[s]) + 1
        /\ \A k \in 1..Len(channels[s]) : Append(channels[s], new)[k] = channels[s][k]
        /\ Append(channels[s], new)[Len(channels[s]) + 1] = new
    BY <1>2, <1>3, AppendProperties
  <1>5. channels' = [channels EXCEPT ![s] = Append(channels[s], new)]
    BY DEF GetCreate
  <1>6. /\ lock' = [lock EXCEPT ![s] = NULL]
        /\ pc' = [pc EXCEPT ![p] = AfterGet(p)]
        /\ AfterGet(p) \in PC \ {"idle", "g_find", "g_create"}
        /\ UNCHANGED <<loaded, message_slots, alive, heap, files, call, slot, temp_buf,
                       answer, private_data>>
    BY DEF GetCreate, AfterGet, PC, files
  <1>7. TypeOK'
    <2>1. channel' \in [Process -> Nat]
      BY <1>1, <1>2 DEF GetCreate, TypeOK
    <2>2. channels' \in [Slots -> Seq(ChannelType)]
      BY <1>1, <1>4, <1>5 DEF TypeOK
    <2> QED BY <1>1, <1>6, <2>1, <2>2 DEF TypeOK, files
  <1>8. ASSUME NEW q \in Process \ {p}
        PROVE  /\ pc'[q] \notin {"idle", "o_alloc"} => slot'[q] \in alive'
               /\ pc'[q] \in {"g_find", "g_create"} => lock'[slot'[q]] = q
               /\ pc'[q] = "g_create" => Matches(q)' = {}
    <2>1. pc[q] \in {"g_find", "g_create"} => slot[q] # s /\ slot[q] \in Slots
      BY <1>1, OwnerIsAlone DEF LockFits, TypeOK
    <2>2. pc[q] \in {"g_find", "g_create"} =>
            lock'[slot[q]] = lock[slot[q]] /\ channels'[slot[q]] = channels[slot[q]]
      BY <1>1, <1>5, <1>6, <2>1 DEF TypeOK
    <2>3. pc'[q] = pc[q] /\ slot'[q] = slot[q] /\ private_data'[q] = private_data[q]
      BY <1>1, <1>6 DEF TypeOK
    <2> QED BY <1>1, <1>6, <2>2, <2>3, OthersKeepLock
  <1>9. LockFits'
    <2>1. pc'[p] \notin {"idle", "g_find", "g_create"} /\ slot'[p] \in alive'
      BY <1>1, <1>6 DEF TypeOK
    <2> QED BY <1>1, <1>6, <1>8, <2>1 DEF LockFits
  <1>10. OneChannelPerId'
    <2>1. \A k \in 1..Len(channels[s]) : channels[s][k].channel_id # new.channel_id
      BY <1>1 DEF Matches, NewChannel
    <2>2. channels'[s] = Append(channels[s], new)
      BY <1>1, <1>5 DEF TypeOK
    <2>3. ASSUME NEW k \in 1..Len(channels'[s]), NEW l \in 1..Len(channels'[s]),
                 channels'[s][k].channel_id = channels'[s][l].channel_id
          PROVE  k = l
      <3> DEFINE L == Len(channels[s])
      <3>1. k \in 1..L \cup {L + 1} /\ l \in 1..L \cup {L + 1}
        BY <1>2, <1>4, <2>2
      <3>2. \A j \in 1..L : channels'[s][j].channel_id = channels[s][j].channel_id
        BY <1>4, <2>2
      <3>3. channels'[s][L + 1].channel_id = new.channel_id
        BY <1>4, <2>2
      <3>4. CASE k \in 1..L /\ l \in 1..L
        BY <1>1, <2>3, <3>2, <3>4 DEF OneChannelPerId
      <3>5. CASE k = L + 1 \/ l = L + 1
        <4> HIDE DEF L, new
        <4> QED BY <2>1, <2>3, <3>1, <3>2, <3>3, <3>5 DEF L
      <3> QED BY <3>1, <3>4, <3>5
    <2>4. \A t \in Slots \ {s} : channels'[t] = channels[t]
      BY <1>1, <1>5 DEF TypeOK
    <2> QED BY <1>1, <2>3, <2>4 DEF OneChannelPerId
  <1> QED BY <1>7, <1>9, <1>10 DEF IInv

-----------------------------------------------------------------------------
SetMessage(list, k, b) == [list EXCEPT ![k].message = b]
SetLength(list, k, n) == [list EXCEPT ![k].msg_len = n]

\* Setting a field of a channel keeps every channel's id.
LEMMA FieldSet ==
  ASSUME NEW list \in Seq(ChannelType), NEW k \in Nat,
         NEW b \in Buffers \cup {NULL}, NEW n \in Nat,
         NEW new,
         new = SetMessage(list, k, b) \/ new = SetLength(list, k, n)
  PROVE  /\ new \in Seq(ChannelType) /\ Len(new) = Len(list)
         /\ \A j \in 1..Len(list) : new[j].channel_id = list[j].channel_id
  <1>1. CASE k \in 1..Len(list)
    <2>1. list[k] \in ChannelType
      BY <1>1
    <2>2. PICK c : c \in ChannelType /\ c.channel_id = list[k].channel_id
                   /\ new = [list EXCEPT ![k] = c]
      <3>1. /\ [list[k] EXCEPT !.message = b] \in ChannelType
            /\ [list[k] EXCEPT !.message = b].channel_id = list[k].channel_id
            /\ [list[k] EXCEPT !.msg_len = n] \in ChannelType
            /\ [list[k] EXCEPT !.msg_len = n].channel_id = list[k].channel_id
        BY <2>1 DEF ChannelType
      <3> QED BY <3>1 DEF SetMessage, SetLength
    <2>3. new \in Seq(ChannelType) /\ Len(new) = Len(list)
      BY <1>1, <2>2, ExceptSeq
    <2>4. \A j \in 1..Len(list) : new[j] = IF j = k THEN c ELSE list[j]
      BY <1>1, <2>2, ExceptSeq
    <2> QED BY <2>2, <2>3, <2>4
  <1>2. CASE k \notin 1..Len(list)
    <2>1. DOMAIN list = 1..Len(list)
      OBVIOUS
    <2>2. new = list
      BY <1>2, <2>1 DEF SetMessage, SetLength
    <2> QED BY <2>2
  <1> QED BY <1>1, <1>2

\* The two assignments to a channel in device_write keep its id.
LEMMA SetKeeps ==
  ASSUME IInv, UNCHANGED serial, NEW p \in Process, WriteSet(p) \/ WriteLen(p)
  PROVE  IInv'
  <1> DEFINE s == slot[p]
  <1>1. /\ TypeOK /\ LockFits /\ OneChannelPerId
        /\ pc[p] \in {"w_set", "w_len"} /\ s \in alive /\ s \in Slots
    BY DEF IInv, LockFits, WriteSet, WriteLen, Goto, TypeOK
  <1>2. \/ channels' = [channels EXCEPT ![s] = SetMessage(@, channel[p], temp_buf[p])]
        \/ channels' = [channels EXCEPT ![s] = SetLength(@, channel[p], call[p].length)]
    BY DEF WriteSet, WriteLen, SetMessage, SetLength
  <1>3. /\ channels'[s] \in Seq(ChannelType) /\ Len(channels'[s]) = Len(channels[s])
        /\ \A j \in 1..Len(channels[s]) :
             channels'[s][j].channel_id = channels[s][j].channel_id
    <2>1. /\ channels[s] \in Seq(ChannelType) /\ channel[p] \in Nat
          /\ temp_buf[p] \in Buffers \cup {NULL} /\ call[p].length \in Nat
      BY <1>1 DEF TypeOK
    <2>2. \/ channels'[s] = SetMessage(channels[s], channel[p], temp_buf[p])
          \/ channels'[s] = SetLength(channels[s], channel[p], call[p].length)
      BY <1>1, <1>2 DEF TypeOK, SetMessage, SetLength
    <2> QED BY <2>1, <2>2, FieldSet
  <1>4. /\ channels' \in [Slots -> Seq(ChannelType)]
        /\ \A t \in Slots \ {s} : channels'[t] = channels[t]
    BY <1>1, <1>2, <1>3 DEF TypeOK
  <1>5. /\ UNCHANGED <<loaded, message_slots, alive, lock, heap, minor, private_data>>
        /\ \A q \in Process \ {p} : pc'[q] = pc[q] /\ slot'[q] = slot[q]
        /\ pc'[p] \in {"idle", "w_len"} /\ (pc'[p] # "idle" => slot'[p] = slot[p])
    BY <1>1 DEF WriteSet, WriteLen, Goto, Return, TypeOK, files, locals
  <1>6. TypeOK'
    <2>1. CASE WriteSet(p)
      BY <1>1, <1>4, <2>1 DEF WriteSet, Goto, TypeOK, PC, files, locals
    <2>2. CASE WriteLen(p)
      BY <1>1, <1>4, <1>5, <2>2, ReturnTyped DEF WriteLen, TypeOK, CallType, AnswerType
    <2> QED BY <2>1, <2>2
  <1>7. ASSUME NEW q \in Process, pc[q] = "g_create"
        PROVE  Matches(q)' = {}
    <2>1. Matches(q) = {} /\ slot[q] \in Slots /\ q # p
      BY <1>1, <1>7 DEF LockFits, TypeOK
    <2>2. /\ Len(channels'[slot[q]]) = Len(channels[slot[q]])
          /\ \A k \in 1..Len(channels[slot[q]]) :
               channels'[slot[q]][k].channel_id = channels[slot[q]][k].channel_id
      BY <1>3, <1>4, <2>1
    <2>3. slot'[q] = slot[q] /\ private_data'[q] = private_data[q]
      BY <1>5, <2>1
    <2> QED BY <2>1, <2>2, <2>3 DEF Matches, ChannelIdOf
  <1>8. LockFits'
    <2>1. \A m \in Minor : message_slots'[m] \in alive' \cup {NULL}
      BY <1>1, <1>5 DEF LockFits
    <2>2. \A q \in Process \ {p} :
            /\ pc'[q] \notin {"idle", "o_alloc"} => slot'[q] \in alive'
            /\ pc'[q] \in {"g_find", "g_create"} => lock'[slot'[q]] = q
            /\ pc'[q] = "g_create" => Matches(q)' = {}
      BY <1>1, <1>5, <1>7 DEF LockFits
    <2>3. pc'[p] \in {"idle", "w_len"} /\ (pc'[p] # "idle" => slot'[p] \in alive')
      BY <1>1, <1>5
    <2> QED BY <2>1, <2>2, <2>3 DEF LockFits
  <1>9. OneChannelPerId'
    <2>1. ASSUME NEW r \in Slots
          PROVE  /\ Len(channels'[r]) = Len(channels[r])
                 /\ \A k \in 1..Len(channels[r]) :
                      channels'[r][k].channel_id = channels[r][k].channel_id
      BY <1>3, <1>4
    <2> QED BY <1>1, <2>1 DEF OneChannelPerId
  <1> QED BY <1>6, <1>8, <1>9 DEF IInv

\* Unloading and loading: no call is under way.
LEMMA ModuleKeeps ==
  ASSUME IInv, UNCHANGED serial, message_slot_cleanup \/ message_slot_init
  PROVE  IInv'
  <1>1. TypeOK /\ LockFits /\ OneChannelPerId
    BY DEF IInv
  <1>2. CASE message_slot_cleanup
    <2>1. TypeOK'
      <3>1. heap' \in [Buffers -> Message \cup {NULL, Freed}]
        BY <1>1, <1>2 DEF message_slot_cleanup, TypeOK
      <3>2. <<>> \in Seq(ChannelType)
        OBVIOUS
      <3>3. channels' \in [Slots -> Seq(ChannelType)]
        BY <1>1, <1>2, <3>2 DEF message_slot_cleanup, TypeOK
      <3> QED BY <1>1, <1>2, <3>1, <3>3 DEF message_slot_cleanup, TypeOK, files, locals
    <2>2. LockFits'
      BY <1>2 DEF message_slot_cleanup, LockFits
    <2>3. OneChannelPerId'
      <3>1. \A s \in Slots : channels'[s] \in {<<>>, channels[s]}
        BY <1>2 DEF message_slot_cleanup
      <3> QED BY <1>1, <3>1 DEF OneChannelPerId
    <2> QED BY <2>1, <2>2, <2>3 DEF IInv
  <1>3. CASE message_slot_init
    <2>1. TypeOK'
      BY <1>1, <1>3 DEF message_slot_init, TypeOK, slotVs, files, locals
    <2>2. UNCHANGED <<slotVs, files, pc, locals>>
      BY <1>3 DEF message_slot_init
    <2>3. \A q \in Process : Matches(q)' = Matches(q)
      BY <2>2 DEF Matches, ChannelIdOf, slotVs, files, locals
    <2>4. LockFits' /\ OneChannelPerId'
      BY <1>1, <2>2, <2>3 DEF LockFits, OneChannelPerId, slotVs, files, locals
    <2> QED BY <2>1, <2>4 DEF IInv
  <1> QED BY <1>2, <1>3

LEMMA NextKeeps ==
  ASSUME IInv, [Next]_vars
  PROVE  IInv'
  <1>1. UNCHANGED serial
    BY DEF Next, vars
  <1>2. ASSUME NEW p \in Process, device_write(p)
        PROVE  IInv'
    <2>1. ASSUME NEW m \in Message, WriteEnter(p, m)
          PROVE  IInv'
      <3>1. Length[m] \in Nat /\ (Length[m] \in 1..MAXIMAL_BUFFER) \in BOOLEAN
        BY ConstantsAssumption
      <3> QED BY <1>1, <2>1, <3>1, EnterKeeps DEF WriteEnter
    <2> QED BY <1>1, <1>2, <2>1, WriteKeeps, SetKeeps DEF device_write
  <1>3. ASSUME NEW p \in Process, device_read(p)
        PROVE  IInv'
    <2>1. ASSUME NEW n \in 0..MAXIMAL_BUFFER, ReadEnter(p, n)
          PROVE  IInv'
      <3>1. n \in Nat
        BY ConstantsAssumption
      <3> QED BY <1>1, <2>1, <3>1, EnterKeeps DEF ReadEnter
    <2> QED BY <1>1, <1>3, <2>1, ReadKeeps DEF device_read
  <1>4. ASSUME NEW p \in Process, FileOperation(p)
        PROVE  IInv'
    <2>1. CASE device_open(p)
      BY <1>1, <2>1, OpenCheckKeeps, OpenKeeps DEF device_open
    <2>2. CASE get_channel(p)
      BY <1>1, <2>2, GetLockKeeps, GetFindKeeps, GetCreateKeeps DEF get_channel
    <2> QED BY <1>1, <1>2, <1>3, <1>4, <2>1, <2>2, ReleaseKeeps, IoctlKeeps
            DEF FileOperation
  <1>5. CASE message_slot_cleanup \/ message_slot_init
    BY <1>1, <1>5, ModuleKeeps
  <1>6. CASE UNCHANGED vars
    <2>1. \A q \in Process : Matches(q)' = Matches(q)
      BY <1>6 DEF vars, Matches, ChannelIdOf
    <2> QED BY <1>6, <2>1 DEF IInv, TypeOK, LockFits, OneChannelPerId, vars
  <1> QED BY <1>4, <1>5, <1>6 DEF Next

-----------------------------------------------------------------------------
\* The inductive invariant holds in every state of every behaviour.
THEOREM DriverInvariant == Spec => []IInv
  BY InitIInv, NextKeeps, PTL DEF Spec

\* Every variable keeps its type, however calls overlap and whichever allocation or
\* copy fails (message_slot.c:101-245).
THEOREM DriverTyped == Spec => []TypeOK
  <1>1. IInv => TypeOK
    BY DEF IInv
  <1> QED BY <1>1, DriverInvariant, PTL

\* However many calls look for one channel at once, a slot never has two channels with
\* one id: the spinlock of get_channel (message_slot.c:66-92).
THEOREM OneChannel == Spec => []OneChannelPerId
  <1>1. IInv => OneChannelPerId
    BY DEF IInv
  <1> QED BY <1>1, DriverInvariant, PTL

-----------------------------------------------------------------------------
(* Calls that do not overlap.                                              *)

HoldsBuffer == {"w_copy", "w_free", "w_set", "w_len"}
AtChannel == {"w_alloc", "r_check", "r_size", "r_copy"} \cup HoldsBuffer

OneCall == \A p, q \in Process : pc[p] # "idle" /\ pc[q] # "idle" => p = q

\* The slots allocated are those of the minors, one each, and none without the module.
SlotsFit ==
  /\ \A s \in Slots : s \in alive <=> \E m \in Minor : message_slots[m] = s
  /\ \A m, n \in Minor :
       message_slots[m] # NULL /\ message_slots[m] = message_slots[n] => m = n
  /\ ~ loaded => alive = {}

\* What a call knows of its file, its slot and its arguments.
FileFits(p) ==
  /\ minor[p] = NULL => private_data[p] = 0
  /\ minor[p] # NULL => loaded /\ message_slots[minor[p]] # NULL
  /\ pc[p] = "o_alloc" => /\ loaded /\ minor[p] = NULL /\ call[p].minor \in Minor
                          /\ message_slots[call[p].minor] = NULL
  /\ pc[p] \notin {"idle", "o_alloc"} =>
       /\ minor[p] # NULL /\ private_data[p] # 0 /\ slot[p] = message_slots[minor[p]]
       /\ call[p].op = "write" => /\ call[p].buffer \in Message
                                  /\ call[p].length = Length[call[p].buffer]
  /\ pc[p] \in HoldsBuffer \cup {"w_alloc"} => call[p].op = "write"

\* What a call knows of its channel and its buffer.
CallFits(p) ==
  /\ pc[p] \in AtChannel => /\ channel[p] \in 1..Len(channels[slot[p]])
                            /\ Target(p).channel_id = ChannelIdOf(p)
  /\ temp_buf[p] # NULL <=> pc[p] \in HoldsBuffer
  /\ pc[p] = "w_copy" => heap[temp_buf[p]] = NULL
  /\ pc[p] \in {"w_free", "w_set", "w_len"} => heap[temp_buf[p]] = call[p].buffer
  /\ pc[p] = "w_set" /\ Target(p).message # NULL => heap[Target(p).message] = Freed
  /\ pc[p] = "w_len" => Target(p).message = temp_buf[p]
  /\ pc[p] \in {"r_size", "r_copy"} => Target(p).message # NULL

\* The channel whose message or length a call has changed last is not whole.
Changing(s, k) ==
  \E p \in Process : pc[p] \in {"w_set", "w_len"} /\ slot[p] = s /\ channel[p] = k

\* No two channels share a message; a channel has one that was written whole, with its
\* length; the buffer of a call is no channel's yet; and every buffer is somebody's.
NoSharing ==
  \A s, t \in alive : \A k \in 1..Len(channels[s]), l \in 1..Len(channels[t]) :
    channels[s][k].message # NULL /\ channels[s][k].message = channels[t][l].message
    => s = t /\ k = l
Whole ==
  \A s \in alive : \A k \in 1..Len(channels[s]) :
    channels[s][k].message # NULL /\ ~ Changing(s, k) =>
      /\ heap[channels[s][k].message] \in Message
      /\ channels[s][k].msg_len = Length[heap[channels[s][k].message]]
NewBuffer ==
  \A p \in Process : pc[p] \in {"w_copy", "w_free", "w_set"} =>
    \A s \in alive : \A k \in 1..Len(channels[s]) : channels[s][k].message # temp_buf[p]
Owned ==
  \A b \in Buffers : heap[b] # Freed =>
    \/ \E s \in alive : \E k \in 1..Len(channels[s]) : channels[s][k].message = b
    \/ \E p \in Process : temp_buf[p] = b

SInv ==
  /\ OneCall /\ SlotsFit
  /\ \A p \in Process : FileFits(p) /\ CallFits(p)
  /\ NoSharing /\ Whole /\ NewBuffer /\ Owned


\* Of the calls, only p's moves on, and the others are not under way.
Moves(p) ==
  \A q \in Process \ {p} :
    /\ pc[q] = "idle" /\ pc'[q] = "idle"
    /\ minor'[q] = minor[q] /\ private_data'[q] = private_data[q]
    /\ temp_buf'[q] = temp_buf[q]

\* Calls do not overlap, so the others are not under way.
LEMMA OthersIdle ==
  ASSUME OneCall, serial, NEW p \in Process, pc[p] # "idle" \/ MayCall(p)
  PROVE  \A q \in Process \ {p} : pc[q] = "idle"
  BY DEF OneCall, MayCall

\* What such a step leaves of the calls that it does not belong to.
LEMMA OthersFit ==
  ASSUME SInv, NEW p \in Process, Moves(p), loaded => loaded',
         \A m \in Minor : message_slots[m] # NULL => message_slots'[m] # NULL,
         minor \in [Process -> Minor \cup {NULL}]
  PROVE  OneCall' /\ \A q \in Process \ {p} : FileFits(q)' /\ CallFits(q)'
  <1>1. OneCall'
    BY DEF Moves, OneCall
  <1>2. ASSUME NEW q \in Process \ {p}
        PROVE  FileFits(q)' /\ CallFits(q)'
    <2>1. /\ pc[q] = "idle" /\ pc'[q] = "idle"
          /\ minor'[q] = minor[q] /\ private_data'[q] = private_data[q]
          /\ temp_buf'[q] = temp_buf[q]
      BY DEF Moves
    <2>2. FileFits(q) /\ CallFits(q)
      BY DEF SInv
    <2>3. FileFits(q)'
      BY <2>1, <2>2 DEF FileFits, HoldsBuffer
    <2>4. CallFits(q)'
      BY <2>1, <2>2 DEF CallFits, HoldsBuffer, AtChannel
    <2> QED BY <2>3, <2>4
  <1> QED BY <1>1, <1>2

\* A step of a call without a buffer that touches no slot and no message.
LEMMA SlotsSame ==
  ASSUME SInv, NEW p \in Process, Moves(p),
         UNCHANGED <<loaded, message_slots, alive, channels, heap>>,
         pc[p] \notin HoldsBuffer, pc'[p] \notin HoldsBuffer, temp_buf'[p] = temp_buf[p]
  PROVE  SlotsFit' /\ NoSharing' /\ Whole' /\ NewBuffer' /\ Owned'
  <1>1. SlotsFit' /\ NoSharing'
    BY DEF SInv, SlotsFit, NoSharing
  <1>2. \A q \in Process : pc[q] \notin HoldsBuffer /\ pc'[q] \notin HoldsBuffer
    BY DEF Moves, HoldsBuffer
  <1>3. Whole'
    BY <1>2 DEF SInv, Whole, Changing, HoldsBuffer
  <1>4. NewBuffer'
    BY <1>2 DEF NewBuffer, HoldsBuffer
  <1>5. \A q \in Process : temp_buf'[q] = temp_buf[q]
    BY DEF Moves
  <1>6. Owned'
    BY <1>5 DEF SInv, Owned
  <1> QED BY <1>1, <1>3, <1>4, <1>6

\* A call that returns, and what it leaves of its own locals.
LEMMA ReturnMoves ==
  ASSUME TypeOK, SInv, serial, NEW p \in Process, NEW r, Return(p, r),
         pc[p] # "idle" \/ MayCall(p),
         \A q \in Process \ {p} :
           minor'[q] = minor[q] /\ private_data'[q] = private_data[q]
  PROVE  Moves(p) /\ pc'[p] = "idle" /\ temp_buf'[p] = NULL
  <1>1. \A q \in Process \ {p} : pc[q] = "idle"
    BY OthersIdle DEF SInv
  <1> QED BY <1>1 DEF Moves, Return, TypeOK

\* A call that returns without a buffer and has touched no slot and no message.
LEMMA ReturnFits ==
  ASSUME TypeOK, SInv, serial, NEW p \in Process, NEW r, Return(p, r),
         pc[p] # "idle" \/ MayCall(p), pc[p] \notin HoldsBuffer,
         UNCHANGED <<loaded, message_slots, alive, channels, heap>>,
         \A q \in Process \ {p} :
           minor'[q] = minor[q] /\ private_data'[q] = private_data[q],
         minor'[p] = NULL => private_data'[p] = 0,
         minor'[p] # NULL => loaded /\ message_slots[minor'[p]] # NULL
  PROVE  SInv'
  <1>1. Moves(p) /\ pc'[p] = "idle" /\ temp_buf'[p] = NULL
    BY ReturnMoves
  <1>2. OneCall' /\ \A q \in Process \ {p} : FileFits(q)' /\ CallFits(q)'
    BY <1>1, OthersFit DEF TypeOK
  <1>3. FileFits(p)'
    BY <1>1 DEF FileFits, HoldsBuffer
  <1>4. CallFits(p)'
    BY <1>1 DEF CallFits, HoldsBuffer, AtChannel
  <1>5. temp_buf[p] = NULL
    BY DEF SInv, CallFits
  <1>6. SlotsFit' /\ NoSharing' /\ Whole' /\ NewBuffer' /\ Owned'
    <2>1. pc'[p] \notin HoldsBuffer
      BY <1>1 DEF HoldsBuffer
    <2> QED BY <1>1, <1>5, <2>1, SlotsSame
  <1> QED BY <1>2, <1>3, <1>4, <1>6 DEF SInv

LEMMA FileStepsFit ==
  ASSUME TypeOK, SInv, serial, NEW p \in Process,
         \/ \E m \in Minor : OpenCheck(p, m) /\ OpenFile(p, m)
         \/ OpenNoMemory(p) \/ device_release(p)
         \/ \E known \in BOOLEAN, param \in Param : device_ioctl(p, known, param)
  PROVE  SInv'
  <1>1. FileFits(p)
    BY DEF SInv
  <1>2. ASSUME NEW m \in Minor, OpenCheck(p, m), OpenFile(p, m)
        PROVE  SInv'
    <2>1. message_slots[m] # NULL /\ loaded /\ MayCall(p)
      BY <1>2 DEF OpenCheck, OpenFile, Return, MayCall, TypeOK, PC
    <2> QED BY <1>2, <2>1, ReturnFits
            DEF OpenCheck, OpenFile, TypeOK, HoldsBuffer, MayCall, slotVs
  <1>3. CASE OpenNoMemory(p)
    BY <1>1, <1>3, ReturnFits DEF OpenNoMemory, FileFits, HoldsBuffer, slotVs, files
  <1>4. CASE device_release(p)
    BY <1>4, ReturnFits DEF device_release, TypeOK, HoldsBuffer, MayCall, slotVs
  <1>5. ASSUME NEW known \in BOOLEAN, NEW param \in Param, device_ioctl(p, known, param)
        PROVE  SInv'
    <2>1. /\ \E r : Return(p, r)
          /\ \A q \in Process \ {p} : private_data'[q] = private_data[q]
      BY <1>5 DEF device_ioctl, TypeOK
    <2> QED BY <1>1, <1>5, <2>1, ReturnFits
            DEF device_ioctl, FileFits, HoldsBuffer, MayCall, slotVs
  <1> QED BY <1>2, <1>3, <1>4, <1>5

\* A call without a buffer that goes on, and changes nothing but its own locals.
LEMMA GoesOnFits ==
  ASSUME TypeOK, SInv, serial, NEW p \in Process, NEW to \in PC \ HoldsBuffer,
         pc' = [pc EXCEPT ![p] = to], pc[p] # "idle" \/ MayCall(p), pc[p] \notin HoldsBuffer,
         UNCHANGED <<loaded, message_slots, alive, channels, heap, files, temp_buf>>,
         FileFits(p)',
         to \in AtChannel => /\ channel'[p] \in 1..Len(channels[slot'[p]])
                             /\ Target(p)'.channel_id = ChannelIdOf(p),
         to \in {"r_size", "r_copy"} => Target(p)'.message # NULL
  PROVE  SInv'
  <1>1. Moves(p) /\ pc'[p] = to
    BY OthersIdle DEF Moves, SInv, TypeOK, files
  <1>2. OneCall' /\ \A q \in Process \ {p} : FileFits(q)' /\ CallFits(q)'
    BY <1>1, OthersFit DEF TypeOK
  <1>3. CallFits(p)'
    <2>1. temp_buf'[p] = NULL
      BY DEF SInv, CallFits
    <2>2. ChannelIdOf(p)' = ChannelIdOf(p)
      BY DEF ChannelIdOf, files
    <2> QED BY <1>1, <2>1, <2>2 DEF CallFits, HoldsBuffer
  <1>4. SlotsFit' /\ NoSharing' /\ Whole' /\ NewBuffer' /\ Owned'
    BY <1>1, SlotsSame
  <1> QED BY <1>2, <1>3, <1>4 DEF SInv

LEMMA OpenCheckFits ==
  ASSUME TypeOK, SInv, serial, NEW p \in Process, NEW m \in Minor, OpenCheck(p, m)
  PROVE  SInv'
  <1>1. CASE OpenFile(p, m)
    BY <1>1, FileStepsFit
  <1>2. CASE /\ message_slots[m] = NULL
             /\ pc' = [pc EXCEPT ![p] = "o_alloc"]
             /\ call' = [call EXCEPT ![p] = Call("open", m, NULL, 0)]
             /\ UNCHANGED <<files, slot, channel, temp_buf, answer>>
    <2>1. MayCall(p) /\ minor[p] = NULL /\ UNCHANGED <<loaded, slotVs, heap>>
      BY DEF OpenCheck
    <2>2. FileFits(p)'
      <3>1. FileFits(p) /\ loaded
        BY <2>1 DEF SInv, MayCall
      <3>2. pc'[p] = "o_alloc" /\ call'[p].minor = m
        BY <1>2 DEF TypeOK, Call
      <3> QED BY <1>2, <2>1, <3>1, <3>2 DEF FileFits, HoldsBuffer, files, slotVs
    <2>3. pc[p] \notin HoldsBuffer /\ "o_alloc" \in PC \ HoldsBuffer /\ "o_alloc" \notin AtChannel
      BY <2>1 DEF MayCall, HoldsBuffer, PC, AtChannel
    <2> QED BY <1>2, <2>1, <2>2, <2>3, GoesOnFits DEF slotVs
  <1> QED BY <1>1, <1>2 DEF OpenCheck

LEMMA EnterFits ==
  ASSUME TypeOK, SInv, serial, NEW p \in Process, NEW valid \in BOOLEAN,
         NEW op \in {"write", "read"}, NEW buffer, NEW length,
         op = "write" => buffer \in Message /\ length = Length[buffer],
         Enter(p, valid, op, buffer, length)
  PROVE  SInv'
  <1>1. /\ MayCall(p) /\ minor[p] # NULL /\ FileFits(p)
        /\ UNCHANGED <<loaded, slotVs, heap, files>>
    BY DEF Enter, SInv
  <1>2. CASE Return(p, "EINVAL")
    BY <1>1, <1>2, ReturnFits DEF FileFits, HoldsBuffer, MayCall, slotVs, files
  <1>3. CASE /\ private_data[p] # 0 /\ message_slots[minor[p]] # NULL
             /\ pc' = [pc EXCEPT ![p] = "g_lock"]
             /\ call' = [call EXCEPT ![p] = Call(op, minor[p], buffer, length)]
             /\ slot' = [slot EXCEPT ![p] = message_slots[minor[p]]]
             /\ UNCHANGED <<channel, temp_buf, answer>>
    <2>1. FileFits(p)'
      <3>1. /\ pc'[p] = "g_lock" /\ slot'[p] = message_slots[minor[p]]
            /\ call'[p].op = op /\ call'[p].buffer = buffer /\ call'[p].length = length
        BY <1>3 DEF TypeOK, Call
      <3> QED BY <1>1, <1>3, <3>1 DEF FileFits, HoldsBuffer, files, slotVs
    <2>2. pc[p] \notin HoldsBuffer /\ "g_lock" \in PC \ HoldsBuffer /\ "g_lock" \notin AtChannel
      BY <1>1 DEF MayCall, HoldsBuffer, PC, AtChannel
    <2> QED BY <1>1, <1>3, <2>1, <2>2, GoesOnFits DEF slotVs
  <1> QED BY <1>2, <1>3 DEF Enter

\* The locals of the file and the call stay, and so what it knows of them.
LEMMA FileStays ==
  ASSUME SInv, NEW p \in Process, pc[p] \notin {"idle", "o_alloc"},
         pc'[p] \notin {"idle", "o_alloc"},
         pc'[p] \in HoldsBuffer \cup {"w_alloc"} => call[p].op = "write",
         UNCHANGED <<loaded, message_slots, files, call, slot>>
  PROVE  FileFits(p)'
  <1>1. FileFits(p)
    BY DEF SInv
  <1> QED BY <1>1 DEF FileFits, files

LEMMA GetFits ==
  ASSUME TypeOK, SInv, serial, LockFits, NEW p \in Process,
         GetLock(p) \/ GetFind(p) \/ GetNoMemory(p)
  PROVE  SInv'
  <1>1. CASE GetLock(p)
    <2>1. /\ pc[p] = "g_lock" /\ pc' = [pc EXCEPT ![p] = "g_find"]
          /\ UNCHANGED <<loaded, message_slots, alive, channels, heap, files, call, slot, temp_buf>>
      BY <1>1 DEF GetLock, Goto, locals
    <2>2. "g_find" \in PC \ HoldsBuffer /\ "g_find" \notin AtChannel /\ "g_lock" \notin HoldsBuffer
      BY DEF HoldsBuffer, PC, AtChannel
    <2>3. FileFits(p)'
      BY <2>1, FileStays DEF HoldsBuffer, TypeOK
    <2> QED BY <2>1, <2>2, <2>3, GoesOnFits
  <1>2. ASSUME NEW k \in Matches(p), GetFind(p),
               channel' = [channel EXCEPT ![p] = k],
               pc' = [pc EXCEPT ![p] = AfterGet(p)]
        PROVE  SInv'
    <2>1. /\ AfterGet(p) \in PC \ HoldsBuffer /\ AfterGet(p) \notin {"idle", "o_alloc"}
          /\ AfterGet(p) = "w_alloc" => call[p].op = "write"
          /\ AfterGet(p) \notin {"r_size", "r_copy"}
      BY DEF AfterGet, Writing, PC, HoldsBuffer
    <2>2. FileFits(p)'
      <3>1. /\ pc[p] = "g_find"
            /\ UNCHANGED <<loaded, message_slots, files, call, slot>>
        BY <1>2 DEF GetFind
      <3>2. pc'[p] = AfterGet(p)
        BY <1>2 DEF TypeOK
      <3> QED BY <2>1, <3>1, <3>2, FileStays
    <2>3. /\ channel'[p] \in 1..Len(channels[slot'[p]])
          /\ Target(p)'.channel_id = ChannelIdOf(p)
      BY <1>2 DEF GetFind, TypeOK, Matches, Target
    <2>4. /\ pc[p] = "g_find" /\ "g_find" \notin HoldsBuffer
          /\ UNCHANGED <<loaded, message_slots, alive, channels, heap, files, temp_buf>>
      BY <1>2 DEF GetFind, HoldsBuffer
    <2> QED BY <1>2, <2>1, <2>2, <2>3, <2>4, GoesOnFits
  <1>3. CASE GetFind(p) /\ pc' = [pc EXCEPT ![p] = "g_create"] /\ UNCHANGED <<channel, lock>>
    <2>1. FileFits(p)'
      BY <1>3, FileStays DEF GetFind, HoldsBuffer, TypeOK
    <2>2. "g_create" \in PC \ HoldsBuffer /\ "g_create" \notin AtChannel /\ "g_find" \notin HoldsBuffer
      BY DEF HoldsBuffer, PC, AtChannel
    <2>3. /\ pc[p] = "g_find"
          /\ UNCHANGED <<loaded, message_slots, alive, channels, heap, files, temp_buf>>
      BY <1>3 DEF GetFind
    <2> QED BY <1>3, <2>1, <2>2, <2>3, GoesOnFits
  <1>4. CASE GetNoMemory(p)
    <2>1. FileFits(p)
      BY DEF SInv
    <2> QED BY <1>4, <2>1, ReturnFits DEF GetNoMemory, FileFits, HoldsBuffer, files
  <1> QED BY <1>1, <1>2, <1>3, <1>4 DEF GetFind

LEMMA ReadFits ==
  ASSUME TypeOK, SInv, serial, NEW p \in Process,
         \/ ReadCheck(p) \/ ReadSize(p) \/ ReadCopy(p)
         \/ WriteAlloc(p) /\ Return(p, "ENOMEM") /\ UNCHANGED heap
  PROVE  SInv'
  <1>1. FileFits(p) /\ CallFits(p)
    BY DEF SInv
  <1>2. CASE ReadCheck(p) \/ ReadSize(p)
    <2>1. UNCHANGED <<loaded, slotVs, heap, files>> /\ pc[p] \in {"r_check", "r_size"}
      BY <1>2 DEF ReadCheck, ReadSize
    <2>2. CASE \E r : Return(p, r)
      BY <1>1, <2>1, <2>2, ReturnFits DEF FileFits, HoldsBuffer, slotVs, files
    <2>3. ASSUME NEW to \in {"r_size", "r_copy"}, pc' = [pc EXCEPT ![p] = to],
                 UNCHANGED <<locals, answer>>
          PROVE  SInv'
      <3>1. FileFits(p)'
        BY <2>1, <2>3, FileStays DEF HoldsBuffer, locals, slotVs, TypeOK
      <3>2. /\ channel'[p] \in 1..Len(channels[slot'[p]])
            /\ Target(p)'.channel_id = ChannelIdOf(p) /\ Target(p)' = Target(p)
        BY <1>1, <2>1, <2>3 DEF CallFits, AtChannel, Target, locals, slotVs
      <3>5. Target(p).message # NULL
        <4>1. CASE ReadCheck(p)
          BY <1>1, <2>1, <2>3, <4>1, ConstantsAssumption DEF ReadCheck, Return, TypeOK
        <4>2. CASE ReadSize(p)
          BY <1>1, <4>2 DEF ReadSize, CallFits
        <4> QED BY <1>2, <4>1, <4>2
      <3>3. to \in PC \ HoldsBuffer /\ pc[p] # "idle" /\ pc[p] \notin HoldsBuffer
        BY <2>1, <2>3 DEF PC, HoldsBuffer
      <3>4. UNCHANGED <<loaded, message_slots, alive, channels, heap, files, temp_buf>>
        BY <2>1, <2>3 DEF locals, slotVs
      <3> QED BY <2>3, <3>1, <3>2, <3>3, <3>4, <3>5, GoesOnFits
    <2> QED BY <1>2, <2>2, <2>3 DEF ReadCheck, ReadSize
  <1>3. CASE ReadCopy(p)
    BY <1>1, <1>3, ReturnFits DEF ReadCopy, FileFits, HoldsBuffer, slotVs, files
  <1>4. CASE WriteAlloc(p) /\ Return(p, "ENOMEM") /\ UNCHANGED heap
    BY <1>1, <1>4, ReturnFits DEF WriteAlloc, FileFits, HoldsBuffer, slotVs, files
  <1> QED BY <1>2, <1>3, <1>4

\* Whether a channel is changing depends only on the one call under way.
LEMMA OnlyItsOwn ==
  ASSUME NEW p \in Process, Moves(p), NEW s, NEW k
  PROVE  /\ Changing(s, k) <=>
              pc[p] \in {"w_set", "w_len"} /\ slot[p] = s /\ channel[p] = k
         /\ Changing(s, k)' <=>
              pc'[p] \in {"w_set", "w_len"} /\ slot'[p] = s /\ channel'[p] = k
  BY DEF Moves, Changing

\* A step of a call that stays in its slot leaves the slots alone.
LEMMA InSlot ==
  ASSUME TypeOK, SInv, LockFits, serial, NEW p \in Process,
         pc[p] \notin {"idle", "o_alloc"}, UNCHANGED <<loaded, message_slots, alive, files>>,
         NEW to, pc' = [pc EXCEPT ![p] = to],
         \A q \in Process \ {p} : temp_buf'[q] = temp_buf[q]
  PROVE  /\ Moves(p) /\ pc'[p] = to /\ slot[p] \in alive /\ slot[p] \in Slots
         /\ OneCall' /\ SlotsFit' /\ \A q \in Process \ {p} : FileFits(q)' /\ CallFits(q)'
  <1>1. Moves(p) /\ pc'[p] = to
    BY OthersIdle DEF SInv, Moves, TypeOK, files
  <1>2. slot[p] \in alive /\ slot[p] \in Slots
    BY DEF LockFits, TypeOK
  <1>3. SlotsFit'
    BY DEF SInv, SlotsFit
  <1>4. OneCall' /\ \A q \in Process \ {p} : FileFits(q)' /\ CallFits(q)'
    BY <1>1, OthersFit DEF TypeOK
  <1> QED BY <1>1, <1>2, <1>3, <1>4

LEMMA InstallFits ==
  ASSUME TypeOK, SInv, serial, NEW p \in Process, OpenInstall(p)
  PROVE  SInv'
  <1>1. PICK s \in Slots \ alive :
          /\ alive' = alive \cup {s}
          /\ message_slots' = [message_slots EXCEPT ![call[p].minor] = s]
          /\ channels' = [channels EXCEPT ![s] = <<>>]
    BY DEF OpenInstall
  <1>2. /\ pc[p] = "o_alloc" /\ Return(p, "done") /\ UNCHANGED <<loaded, heap>>
        /\ minor' = [minor EXCEPT ![p] = call[p].minor]
        /\ private_data' = [private_data EXCEPT ![p] = 0]
    BY DEF OpenInstall, OpenFile
  <1>3. Moves(p) /\ pc'[p] = "idle" /\ temp_buf'[p] = NULL
    BY <1>2, ReturnMoves DEF TypeOK
  <1>4. /\ FileFits(p) /\ CallFits(p) /\ loaded /\ temp_buf[p] = NULL
        /\ call[p].minor \in Minor /\ message_slots[call[p].minor] = NULL /\ s # NULL
    BY <1>2, ConstantsAssumption DEF SInv, FileFits, CallFits, HoldsBuffer
  <1>5. OneCall' /\ \A q \in Process \ {p} : FileFits(q)' /\ CallFits(q)'
    <2>1. \A m \in Minor : message_slots[m] # NULL => message_slots'[m] # NULL
      BY <1>1, <1>4 DEF TypeOK
    <2> QED BY <1>2, <1>3, <2>1, OthersFit DEF TypeOK
  <1>6. FileFits(p)' /\ CallFits(p)'
    <2>1. minor'[p] = call[p].minor /\ message_slots'[minor'[p]] = s
      BY <1>1, <1>2, <1>4 DEF TypeOK
    <2>2. FileFits(p)'
      BY <1>2, <1>3, <1>4, <2>1 DEF FileFits, HoldsBuffer, TypeOK
    <2>3. CallFits(p)'
      BY <1>3 DEF CallFits, HoldsBuffer, AtChannel
    <2> QED BY <2>2, <2>3
  <1>7. SlotsFit'
    <2> DEFINE n == call[p].minor
    <2>1. message_slots'[n] = s /\ \A m \in Minor \ {n} : message_slots'[m] = message_slots[m]
      BY <1>1, <1>4 DEF TypeOK
    <2>2. /\ \A t \in Slots : t \in alive <=> \E m \in Minor : message_slots[m] = t
          /\ \A l, m \in Minor :
               message_slots[l] # NULL /\ message_slots[l] = message_slots[m] => l = m
      BY DEF SInv, SlotsFit
    <2>3. n \in Minor /\ message_slots[n] = NULL /\ loaded' /\ s \notin alive
          /\ alive' = alive \cup {s}
      BY <1>1, <1>2, <1>4
    <2> HIDE DEF n
    <2>4. \A t \in Slots : t \in alive' <=> \E m \in Minor : message_slots'[m] = t
      <3>1. NULL \notin Slots
        BY ConstantsAssumption
      <3> QED BY <2>1, <2>2, <2>3, <3>1
    <2>5. \A l, m \in Minor :
            message_slots'[l] # NULL /\ message_slots'[l] = message_slots'[m] => l = m
      BY <2>1, <2>2, <2>3
    <2> QED BY <2>3, <2>4, <2>5 DEF SlotsFit
  <1>8. /\ \A t \in alive : channels'[t] = channels[t]
        /\ Len(channels'[s]) = 0
        /\ \A t \in alive' : t # s => t \in alive
    BY <1>1 DEF TypeOK
  <1>9. \A t, k : ~ Changing(t, k) /\ ~ Changing(t, k)'
    BY <1>2, <1>3, OnlyItsOwn
  <1>10. NoSharing' /\ Whole'
    BY <1>2, <1>8, <1>9 DEF SInv, NoSharing, Whole
  <1>11. NewBuffer'
    BY <1>3 DEF NewBuffer, Moves
  <1>12. Owned'
    BY <1>1, <1>2, <1>3, <1>4, <1>8 DEF SInv, Owned, Moves
  <1> QED BY <1>5, <1>6, <1>7, <1>10, <1>11, <1>12 DEF SInv

LEMMA CreateFits ==
  ASSUME TypeOK, SInv, LockFits, serial, NEW p \in Process, GetCreate(p)
  PROVE  SInv'
  <1> DEFINE s == slot[p]
             L == Len(channels[s])
             new == NewChannel(ChannelIdOf(p))
  <1>1. /\ pc[p] = "g_create" /\ pc' = [pc EXCEPT ![p] = AfterGet(p)]
        /\ UNCHANGED <<loaded, message_slots, alive, heap, files, call, slot, temp_buf>>
        /\ channel' = [channel EXCEPT ![p] = L + 1]
    BY DEF GetCreate
  <1>2. /\ AfterGet(p) \notin HoldsBuffer \cup {"idle", "o_alloc", "r_size", "r_copy"}
        /\ AfterGet(p) = "w_alloc" => call[p].op = "write"
    BY DEF AfterGet, Writing, HoldsBuffer
  <1>3. /\ Moves(p) /\ pc'[p] = AfterGet(p) /\ s \in alive /\ s \in Slots
        /\ OneCall' /\ SlotsFit' /\ \A q \in Process \ {p} : FileFits(q)' /\ CallFits(q)'
    BY <1>1, InSlot
  <1>4. /\ Len(channels'[s]) = L + 1 /\ L \in Nat
        /\ \A k \in 1..L : channels'[s][k] = channels[s][k]
        /\ channels'[s][L + 1] = new
        /\ \A t \in Slots \ {s} : channels'[t] = channels[t]
    BY <1>3, AppendProperties DEF GetCreate, TypeOK
  <1>5. new.message = NULL /\ new.channel_id = ChannelIdOf(p) /\ temp_buf[p] = NULL
    BY <1>1 DEF NewChannel, SInv, CallFits, HoldsBuffer
  <1> HIDE DEF s, L, new
  <1>6. FileFits(p)'
    BY <1>1, <1>2, <1>3, FileStays
  <1>7. CallFits(p)'
    <2>1. channel'[p] = L + 1 /\ slot'[p] = s /\ temp_buf'[p] = NULL
      BY <1>1, <1>5 DEF TypeOK, s
    <2>2. channel'[p] \in 1..Len(channels'[s]) /\ channels'[s][channel'[p]] = new
      BY <1>4, <2>1
    <2>3. ChannelIdOf(p)' = ChannelIdOf(p)
      BY <1>1 DEF ChannelIdOf, files
    <2> QED BY <1>2, <1>3, <1>5, <2>1, <2>2, <2>3 DEF CallFits, Target, HoldsBuffer
  <1>8. \A t, k : ~ Changing(t, k) /\ ~ Changing(t, k)'
    BY <1>1, <1>2, <1>3, OnlyItsOwn DEF HoldsBuffer
  <1>9. ASSUME NEW t \in alive, NEW k \in 1..Len(channels'[t]), channels'[t][k].message # NULL
        PROVE  k \in 1..Len(channels[t]) /\ channels'[t][k] = channels[t][k]
    <2>1. CASE t = s
      <3>1. k # L + 1
        BY <1>4, <1>5, <1>9, <2>1
      <3> QED BY <1>4, <2>1, <3>1 DEF L
    <2>2. CASE t # s
      BY <1>4, <2>2 DEF SInv, SlotsFit, TypeOK
    <2> QED BY <2>1, <2>2
  <1>10. ASSUME NEW t \in alive, NEW k \in 1..Len(channels[t])
         PROVE  k \in 1..Len(channels'[t]) /\ channels'[t][k] = channels[t][k]
    <2>1. t \in Slots
      BY DEF TypeOK
    <2>2. CASE t = s
      BY <1>4, <2>2 DEF L
    <2>3. CASE t # s
      BY <1>4, <2>1, <2>3
    <2> QED BY <2>2, <2>3
  <1>11. NoSharing' /\ Whole'
    <2>1. alive' = alive /\ heap' = heap /\ NoSharing /\ Whole
      BY <1>1 DEF SInv
    <2>2. NoSharing'
      <3> SUFFICES ASSUME NEW t \in alive, NEW u \in alive,
                          NEW k \in 1..Len(channels'[t]), NEW l \in 1..Len(channels'[u]),
                          channels'[t][k].message # NULL,
                          channels'[t][k].message = channels'[u][l].message
                   PROVE  t = u /\ k = l
        BY <2>1 DEF NoSharing
      <3>1. /\ k \in 1..Len(channels[t]) /\ channels'[t][k] = channels[t][k]
            /\ l \in 1..Len(channels[u]) /\ channels'[u][l] = channels[u][l]
        BY <1>9
      <3> QED BY <2>1, <3>1 DEF NoSharing
    <2>3. Whole'
      BY <2>1, <1>8, <1>9 DEF Whole
    <2> QED BY <2>2, <2>3
  <1>12. NewBuffer'
    BY <1>2, <1>3 DEF NewBuffer, Moves, HoldsBuffer
  <1>13. Owned'
    BY <1>1, <1>10 DEF SInv, Owned
  <1> QED BY <1>3, <1>6, <1>7, <1>11, <1>12, <1>13 DEF SInv

\* What a call with a buffer, or about to have one, knows.
LEMMA AtTarget ==
  ASSUME TypeOK, SInv, LockFits, NEW p \in Process, pc[p] \in HoldsBuffer \cup {"w_alloc"}
  PROVE  /\ FileFits(p) /\ CallFits(p)
         /\ slot[p] \in alive /\ slot[p] \in Slots /\ channels[slot[p]] \in Seq(ChannelType)
         /\ channel[p] \in 1..Len(channels[slot[p]]) /\ Target(p).channel_id = ChannelIdOf(p)
         /\ call[p].op = "write" /\ call[p].buffer \in Message
         /\ call[p].length = Length[call[p].buffer]
         /\ pc[p] # "w_alloc" => temp_buf[p] \in Buffers
  <1>1. pc[p] \notin {"idle", "o_alloc"} /\ pc[p] \in AtChannel
    BY DEF HoldsBuffer, AtChannel
  <1>2. FileFits(p) /\ CallFits(p)
    BY DEF SInv
  <1>3. call[p].op = "write"
    BY <1>2 DEF FileFits
  <1>4. call[p].buffer \in Message /\ call[p].length = Length[call[p].buffer]
    BY <1>1, <1>2, <1>3 DEF FileFits
  <1>5. channel[p] \in 1..Len(channels[slot[p]]) /\ Target(p).channel_id = ChannelIdOf(p)
    BY <1>1, <1>2 DEF CallFits
  <1>6. slot[p] \in alive /\ slot[p] \in Slots /\ channels[slot[p]] \in Seq(ChannelType)
    BY <1>1 DEF LockFits, TypeOK
  <1>7. pc[p] # "w_alloc" => temp_buf[p] \in Buffers
    BY <1>2 DEF CallFits, TypeOK
  <1> QED BY <1>2, <1>3, <1>4, <1>5, <1>6, <1>7

LEMMA AllocFits ==
  ASSUME TypeOK, SInv, LockFits, serial, NEW p \in Process, WriteAlloc(p),
         NEW b \in Buffers, heap[b] = Freed, heap' = [heap EXCEPT ![b] = NULL],
         temp_buf' = [temp_buf EXCEPT ![p] = b], pc' = [pc EXCEPT ![p] = "w_copy"],
         UNCHANGED <<call, slot, channel, answer>>
  PROVE  SInv'
  <1>1. pc[p] = "w_alloc" /\ UNCHANGED <<loaded, slotVs, files>>
    BY DEF WriteAlloc
  <1>2. UNCHANGED <<loaded, message_slots, alive, files>> /\ UNCHANGED channels
    BY <1>1 DEF slotVs
  <1>3. \A q \in Process \ {p} : temp_buf'[q] = temp_buf[q]
    BY DEF TypeOK
  <1>4. /\ Moves(p) /\ pc'[p] = "w_copy"
        /\ OneCall' /\ SlotsFit' /\ \A q \in Process \ {p} : FileFits(q)' /\ CallFits(q)'
    BY <1>1, <1>2, <1>3, InSlot
  <1>5. FileFits(p)'
    <2>1. call[p].op = "write"
      BY <1>1, AtTarget
    <2> QED BY <1>1, <1>2, <1>4, <2>1, FileStays
  <1>6. CallFits(p)'
    <2>1. /\ channel[p] \in 1..Len(channels[slot[p]]) /\ Target(p).channel_id = ChannelIdOf(p)
          /\ b # NULL /\ temp_buf'[p] = b /\ heap'[b] = NULL
      BY <1>1, AtTarget, ConstantsAssumption DEF TypeOK
    <2>2. Target(p)' = Target(p) /\ ChannelIdOf(p)' = ChannelIdOf(p)
      BY <1>2 DEF Target, ChannelIdOf, files
    <2> QED BY <1>2, <1>4, <2>1, <2>2 DEF CallFits, HoldsBuffer
  <1>7. \A s, k : ~ Changing(s, k) /\ ~ Changing(s, k)'
    BY <1>1, <1>4, OnlyItsOwn
  <1>8. ASSUME NEW s \in alive, NEW k \in 1..Len(channels[s])
        PROVE  channels[s][k].message # b
    BY <1>7, <1>8, ConstantsAssumption DEF SInv, Whole
  <1>9. NoSharing'
    BY <1>2 DEF SInv, NoSharing
  <1>10. Whole'
    <2> SUFFICES ASSUME NEW s \in alive, NEW k \in 1..Len(channels[s]),
                        channels[s][k].message # NULL
                 PROVE  /\ heap'[channels[s][k].message] \in Message
                        /\ channels[s][k].msg_len = Length[heap'[channels[s][k].message]]
      BY <1>2 DEF Whole
    <2>1. heap'[channels[s][k].message] = heap[channels[s][k].message]
      BY <1>8 DEF TypeOK
    <2> QED BY <1>7, <2>1 DEF SInv, Whole
  <1>11. NewBuffer'
    <2>1. \A q \in Process : pc'[q] = "idle" \/ temp_buf'[q] = b
      BY <1>4 DEF Moves, TypeOK
    <2> QED BY <1>2, <1>8, <2>1 DEF NewBuffer
  <1>12. Owned'
    <2> SUFFICES ASSUME NEW x \in Buffers, heap'[x] # Freed
                 PROVE  \/ \E s \in alive : \E k \in 1..Len(channels[s]) : channels[s][k].message = x
                        \/ \E q \in Process : temp_buf'[q] = x
      BY <1>2 DEF Owned
    <2>1. CASE x = b
      BY <2>1 DEF TypeOK
    <2>2. CASE x # b
      <3>1. heap[x] # Freed /\ temp_buf[p] = NULL /\ x # NULL
        BY <1>1, <2>2, ConstantsAssumption DEF TypeOK, SInv, CallFits, HoldsBuffer
      <3> QED BY <1>3, <3>1 DEF SInv, Owned
    <2> QED BY <2>1, <2>2
  <1> QED BY <1>4, <1>5, <1>6, <1>9, <1>10, <1>11, <1>12 DEF SInv

LEMMA CopyFits ==
  ASSUME TypeOK, SInv, LockFits, serial, NEW p \in Process, WriteCopy(p)
  PROVE  SInv'
  <1> DEFINE b == temp_buf[p]
  <1>1. /\ pc[p] = "w_copy" /\ pc' = [pc EXCEPT ![p] = "w_free"]
        /\ UNCHANGED <<loaded, slotVs, files, call, slot, channel, temp_buf>>
        /\ heap' = [heap EXCEPT ![b] = call[p].buffer]
    BY DEF WriteCopy, Goto, locals
  <1>2. /\ UNCHANGED <<loaded, message_slots, alive, files>> /\ UNCHANGED channels
        /\ UNCHANGED <<call, slot, channel, temp_buf>>
    BY <1>1 DEF slotVs
  <1>3. /\ FileFits(p) /\ CallFits(p) /\ b \in Buffers /\ call[p].op = "write"
        /\ channel[p] \in 1..Len(channels[slot[p]]) /\ Target(p).channel_id = ChannelIdOf(p)
    BY <1>1, AtTarget DEF HoldsBuffer
  <1>4. /\ Moves(p) /\ pc'[p] = "w_free"
        /\ OneCall' /\ SlotsFit' /\ \A q \in Process \ {p} : FileFits(q)' /\ CallFits(q)'
    BY <1>1, <1>2, InSlot
  <1>5. FileFits(p)'
    BY <1>1, <1>2, <1>3, <1>4, FileStays
  <1>6. CallFits(p)'
    <2>1. Target(p)' = Target(p) /\ ChannelIdOf(p)' = ChannelIdOf(p)
      BY <1>2 DEF Target, ChannelIdOf, files
    <2>2. heap'[b] = call[p].buffer /\ b # NULL
      BY <1>1, <1>3, ConstantsAssumption DEF TypeOK
    <2> QED BY <1>2, <1>3, <1>4, <2>1, <2>2 DEF CallFits, HoldsBuffer
  <1>7. \A s, k : ~ Changing(s, k) /\ ~ Changing(s, k)'
    BY <1>1, <1>4, OnlyItsOwn
  <1>8. \A s \in alive : \A k \in 1..Len(channels[s]) : channels[s][k].message # b
    BY <1>1 DEF SInv, NewBuffer
  <1> HIDE DEF b
  <1>9. NoSharing'
    BY <1>2 DEF SInv, NoSharing
  <1>10. Whole'
    <2> SUFFICES ASSUME NEW s \in alive, NEW k \in 1..Len(channels[s]),
                        channels[s][k].message # NULL
                 PROVE  /\ heap'[channels[s][k].message] \in Message
                        /\ channels[s][k].msg_len = Length[heap'[channels[s][k].message]]
      BY <1>2 DEF Whole
    <2>1. heap'[channels[s][k].message] = heap[channels[s][k].message]
      BY <1>1, <1>8 DEF TypeOK
    <2> QED BY <1>7, <2>1 DEF SInv, Whole
  <1>11. NewBuffer'
    <2>1. \A q \in Process : pc'[q] = "idle" \/ temp_buf'[q] = b
      BY <1>2, <1>4 DEF Moves, b
    <2> QED BY <1>2, <1>8, <2>1 DEF NewBuffer
  <1>12. Owned'
    <2>1. \A x \in Buffers : heap'[x] # Freed => heap[x] # Freed \/ x = temp_buf[p]
      BY <1>1 DEF TypeOK, b
    <2> QED BY <1>2, <2>1 DEF SInv, Owned
  <1> QED BY <1>4, <1>5, <1>6, <1>9, <1>10, <1>11, <1>12 DEF SInv

\* The new buffer is freed again.
LEMMA FaultFits ==
  ASSUME TypeOK, SInv, LockFits, serial, NEW p \in Process, WriteFault(p)
  PROVE  SInv'
  <1> DEFINE b == temp_buf[p]
  <1>1. /\ pc[p] = "w_copy" /\ Return(p, "EFAULT")
        /\ UNCHANGED <<loaded, message_slots, alive, channels, files>>
        /\ heap' = [heap EXCEPT ![b] = Freed]
    BY DEF WriteFault, slotVs
  <1>2. Moves(p) /\ pc'[p] = "idle" /\ temp_buf'[p] = NULL
    BY <1>1, ReturnMoves DEF files
  <1>3. OneCall' /\ SlotsFit' /\ \A q \in Process \ {p} : FileFits(q)' /\ CallFits(q)'
    <2>1. SlotsFit'
      BY <1>1 DEF SInv, SlotsFit
    <2> QED BY <1>1, <1>2, <2>1, OthersFit DEF TypeOK
  <1>4. FileFits(p)' /\ CallFits(p)'
    <2>1. FileFits(p)
      BY DEF SInv
    <2>2. FileFits(p)'
      BY <1>1, <1>2, <2>1 DEF FileFits, HoldsBuffer, files
    <2>3. CallFits(p)'
      BY <1>2 DEF CallFits, HoldsBuffer, AtChannel
    <2> QED BY <2>2, <2>3
  <1>5. \A s, k : ~ Changing(s, k) /\ ~ Changing(s, k)'
    BY <1>1, <1>2, OnlyItsOwn
  <1>6. \A s \in alive : \A k \in 1..Len(channels[s]) : channels[s][k].message # b
    BY <1>1 DEF SInv, NewBuffer
  <1>7. b \in Buffers
    BY <1>1, AtTarget DEF HoldsBuffer
  <1>8. \A q \in Process \ {p} : temp_buf'[q] = temp_buf[q]
    BY <1>2 DEF Moves
  <1> HIDE DEF b
  <1>9. NoSharing'
    BY <1>1 DEF SInv, NoSharing
  <1>10. Whole'
    <2> SUFFICES ASSUME NEW s \in alive, NEW k \in 1..Len(channels[s]),
                        channels[s][k].message # NULL
                 PROVE  /\ heap'[channels[s][k].message] \in Message
                        /\ channels[s][k].msg_len = Length[heap'[channels[s][k].message]]
      BY <1>1 DEF Whole
    <2>1. heap'[channels[s][k].message] = heap[channels[s][k].message]
      BY <1>1, <1>6 DEF TypeOK
    <2> QED BY <1>5, <2>1 DEF SInv, Whole
  <1>11. NewBuffer'
    BY <1>2 DEF NewBuffer, Moves
  <1>12. Owned'
    <2>1. \A x \in Buffers : heap'[x] # Freed => heap[x] # Freed /\ x # temp_buf[p]
      BY <1>1 DEF TypeOK, b
    <2> QED BY <1>1, <1>8, <2>1 DEF SInv, Owned
  <1> QED BY <1>3, <1>4, <1>9, <1>10, <1>11, <1>12 DEF SInv

\* The old message is freed: its channel has no message until WriteSet.
LEMMA FreeFits ==
  ASSUME TypeOK, SInv, LockFits, serial, NEW p \in Process, WriteFree(p)
  PROVE  SInv'
  <1> DEFINE b == temp_buf[p]
             s0 == slot[p]
             k0 == channel[p]
             old == Target(p).message
  <1>1. /\ pc[p] = "w_free" /\ pc' = [pc EXCEPT ![p] = "w_set"]
        /\ UNCHANGED <<loaded, message_slots, alive, files>> /\ UNCHANGED channels
        /\ UNCHANGED <<call, slot, channel, temp_buf>>
        /\ heap' = IF old # NULL THEN [heap EXCEPT ![old] = Freed] ELSE heap
    BY DEF WriteFree, Goto, locals, slotVs
  <1>2. /\ FileFits(p) /\ CallFits(p) /\ b \in Buffers /\ call[p].op = "write"
        /\ s0 \in alive /\ channels[s0] \in Seq(ChannelType)
        /\ k0 \in 1..Len(channels[s0]) /\ Target(p).channel_id = ChannelIdOf(p)
    BY <1>1, AtTarget DEF HoldsBuffer
  <1>3. /\ Moves(p) /\ pc'[p] = "w_set"
        /\ OneCall' /\ SlotsFit' /\ \A q \in Process \ {p} : FileFits(q)' /\ CallFits(q)'
    BY <1>1, InSlot
  <1>4. FileFits(p)'
    BY <1>1, <1>2, <1>3, FileStays
  <1>5. old = channels[s0][k0].message /\ old \in Buffers \cup {NULL} /\ old # b
    <2>1. channels[s0][k0] \in ChannelType
      BY <1>2
    <2>2. channels[s0][k0].message # b
      BY <1>1, <1>2 DEF SInv, NewBuffer
    <2> QED BY <2>1, <2>2 DEF Target, ChannelType
  <1>6. CallFits(p)'
    <2>1. Target(p)' = Target(p) /\ ChannelIdOf(p)' = ChannelIdOf(p)
      BY <1>1 DEF Target, ChannelIdOf, files
    <2>2. heap[b] = call[p].buffer /\ b # NULL
      BY <1>1, <1>2 DEF CallFits, HoldsBuffer
    <2>3. heap'[b] = call[p].buffer /\ (old # NULL => heap'[old] = Freed)
      BY <1>1, <1>2, <1>5, <2>2 DEF TypeOK
    <2> QED BY <1>1, <1>2, <1>3, <2>1, <2>2, <2>3 DEF CallFits, HoldsBuffer
  <1>7. \A s, k : ~ Changing(s, k) /\ (Changing(s, k)' <=> s = s0 /\ k = k0)
    BY <1>1, <1>3, OnlyItsOwn
  <1>8. \A s \in alive : \A k \in 1..Len(channels[s]) : channels[s][k].message # b
    BY <1>1 DEF SInv, NewBuffer
  <1>9. NoSharing'
    BY <1>1 DEF SInv, NoSharing
  <1> HIDE DEF b, s0, k0, old
  <1>10. Whole'
    <2> SUFFICES ASSUME NEW s \in alive, NEW k \in 1..Len(channels[s]),
                        channels[s][k].message # NULL, ~ (s = s0 /\ k = k0)
                 PROVE  /\ heap'[channels[s][k].message] \in Message
                        /\ channels[s][k].msg_len = Length[heap'[channels[s][k].message]]
      BY <1>1, <1>7 DEF Whole
    <2>1. channels[s][k].message # old
      BY <1>2, <1>5 DEF SInv, NoSharing
    <2>2. heap'[channels[s][k].message] = heap[channels[s][k].message]
      BY <1>1, <2>1 DEF TypeOK
    <2> QED BY <1>7, <2>2 DEF SInv, Whole
  <1>11. NewBuffer'
    <2>1. \A q \in Process : pc'[q] = "idle" \/ temp_buf'[q] = b
      BY <1>1, <1>3 DEF Moves, b
    <2> QED BY <1>1, <1>8, <2>1 DEF NewBuffer
  <1>12. Owned'
    <2>1. \A x \in Buffers : heap'[x] # Freed => heap[x] # Freed
      BY <1>1 DEF TypeOK
    <2> QED BY <1>1, <2>1 DEF SInv, Owned
  <1> QED BY <1>3, <1>4, <1>6, <1>9, <1>10, <1>11, <1>12 DEF SInv

\* What an assignment to one channel does to the list of channels.
LEMMA ElementSet ==
  ASSUME NEW list \in Seq(ChannelType), NEW k \in 1..Len(list), NEW c \in ChannelType
  PROVE  /\ Len([list EXCEPT ![k] = c]) = Len(list)
         /\ \A j \in 1..Len(list) : j # k => [list EXCEPT ![k] = c][j] = list[j]
         /\ [list EXCEPT ![k] = c][k] = c
  BY ExceptSeq

\* The channel gets the new message.
LEMMA SetFits ==
  ASSUME TypeOK, SInv, LockFits, serial, NEW p \in Process, WriteSet(p)
  PROVE  SInv'
  <1> DEFINE b == temp_buf[p]
             s0 == slot[p]
             k0 == channel[p]
             old == channels[s0][k0]
             new == [old EXCEPT !.message = b]
  <1>1. /\ pc[p] = "w_set" /\ pc' = [pc EXCEPT ![p] = "w_len"]
        /\ UNCHANGED <<loaded, message_slots, alive, files>> /\ UNCHANGED heap
        /\ UNCHANGED <<call, slot, channel, temp_buf>>
        /\ channels' = [channels EXCEPT ![s0] = SetMessage(channels[s0], k0, b)]
    BY DEF WriteSet, Goto, locals, SetMessage
  <1>2. /\ FileFits(p) /\ CallFits(p) /\ b \in Buffers /\ call[p].op = "write"
        /\ s0 \in alive /\ s0 \in Slots /\ channels[s0] \in Seq(ChannelType)
        /\ k0 \in 1..Len(channels[s0]) /\ old.channel_id = ChannelIdOf(p)
    BY <1>1, AtTarget DEF HoldsBuffer, Target
  <1>3. /\ Moves(p) /\ pc'[p] = "w_len"
        /\ OneCall' /\ SlotsFit' /\ \A q \in Process \ {p} : FileFits(q)' /\ CallFits(q)'
    BY <1>1, InSlot
  <1>4. /\ Len(channels'[s0]) = Len(channels[s0]) /\ channels'[s0][k0] = new
        /\ \A k \in 1..Len(channels[s0]) : k # k0 => channels'[s0][k] = channels[s0][k]
        /\ \A t \in alive : t # s0 => channels'[t] = channels[t]
    <2>0. old \in ChannelType
      BY <1>2
    <2>1. new \in ChannelType
      BY <1>1, <1>2, <2>0 DEF ChannelType, TypeOK
    <2>2. SetMessage(channels[s0], k0, b) = [channels[s0] EXCEPT ![k0] = new]
      BY DEF SetMessage
    <2> HIDE DEF old, new
    <2>3. /\ channels'[s0] = [channels[s0] EXCEPT ![k0] = new]
          /\ \A t \in alive : t # s0 => channels'[t] = channels[t]
      BY <1>1, <1>2, <2>2 DEF TypeOK
    <2> QED BY <1>2, <2>0, <2>1, <2>3, ElementSet
  <1>5. new.message = b /\ new.channel_id = old.channel_id /\ b # NULL
    <2>1. old \in ChannelType
      BY <1>2
    <2> QED BY <1>2, <2>1, ConstantsAssumption DEF ChannelType
  <1>6. old.message = NULL \/ heap[old.message] = Freed
    BY <1>1, <1>2 DEF CallFits, Target
  <1>7. \A s, k : (Changing(s, k) <=> s = s0 /\ k = k0) /\ (Changing(s, k)' <=> s = s0 /\ k = k0)
    BY <1>1, <1>3, OnlyItsOwn
  <1>8. \A s \in alive : \A k \in 1..Len(channels[s]) : channels[s][k].message # b
    BY <1>1 DEF SInv, NewBuffer
  <1>9. heap[b] = call[p].buffer
    BY <1>1, <1>2 DEF CallFits
  <1> HIDE DEF b, s0, k0, old, new
  <1>10. FileFits(p)'
    BY <1>1, <1>2, <1>3, FileStays
  <1>11. CallFits(p)'
    <2>1. Target(p)' = new /\ ChannelIdOf(p)' = ChannelIdOf(p)
      BY <1>1, <1>4 DEF Target, ChannelIdOf, files, s0, k0
    <2>2. channel'[p] \in 1..Len(channels'[slot'[p]]) /\ temp_buf'[p] = b
      BY <1>1, <1>2, <1>4 DEF s0, k0, b
    <2> QED BY <1>1, <1>2, <1>3, <1>5, <1>9, <2>1, <2>2 DEF CallFits, HoldsBuffer
  <1>12. ASSUME NEW s \in alive, NEW k \in 1..Len(channels'[s])
         PROVE  /\ k \in 1..Len(channels[s])
                /\ ~ (s = s0 /\ k = k0) => channels'[s][k] = channels[s][k]
                /\ s = s0 /\ k = k0 => channels'[s][k].message = b
    BY <1>4, <1>5
  <1>13. NoSharing'
    <2> SUFFICES ASSUME NEW s \in alive, NEW t \in alive,
                        NEW k \in 1..Len(channels'[s]), NEW l \in 1..Len(channels'[t]),
                        channels'[s][k].message # NULL,
                        channels'[s][k].message = channels'[t][l].message
                 PROVE  s = t /\ k = l
      BY <1>1 DEF NoSharing
    <2>1. CASE s = s0 /\ k = k0
      <3>1. channels'[t][l].message = b
        BY <1>12, <2>1
      <3> QED BY <1>8, <1>12, <2>1, <3>1
    <2>2. CASE t = s0 /\ l = k0
      <3>1. channels'[s][k].message = b
        BY <1>12, <2>2
      <3> QED BY <1>8, <1>12, <2>2, <3>1
    <2>3. CASE ~ (s = s0 /\ k = k0) /\ ~ (t = s0 /\ l = k0)
      <3>1. /\ k \in 1..Len(channels[s]) /\ channels'[s][k] = channels[s][k]
            /\ l \in 1..Len(channels[t]) /\ channels'[t][l] = channels[t][l]
        BY <1>12, <2>3
      <3> QED BY <3>1 DEF SInv, NoSharing
    <2> QED BY <2>1, <2>2, <2>3
  <1>14. Whole'
    BY <1>1, <1>7, <1>12 DEF SInv, Whole
  <1>15. NewBuffer'
    BY <1>3 DEF NewBuffer, Moves
  <1>16. Owned'
    <2> SUFFICES ASSUME NEW x \in Buffers, heap[x] # Freed, \A q \in Process : temp_buf[q] # x
                 PROVE  \E s \in alive : \E k \in 1..Len(channels'[s]) : channels'[s][k].message = x
      BY <1>1 DEF Owned
    <2>1. PICK s \in alive : \E k \in 1..Len(channels[s]) : channels[s][k].message = x
      BY DEF SInv, Owned
    <2>2. PICK k \in 1..Len(channels[s]) : channels[s][k].message = x
      BY <2>1
    <2>3. ~ (s = s0 /\ k = k0)
      BY <1>6, <2>2, ConstantsAssumption DEF old
    <2>4. k \in 1..Len(channels'[s]) /\ channels'[s][k] = channels[s][k]
      BY <1>4, <2>3
    <2> QED BY <2>2, <2>4
  <1> QED BY <1>3, <1>10, <1>11, <1>13, <1>14, <1>15, <1>16 DEF SInv

\* The channel gets the new length, and is whole again.
LEMMA LenFits ==
  ASSUME TypeOK, SInv, LockFits, serial, NEW p \in Process, WriteLen(p)
  PROVE  SInv'
  <1> DEFINE b == temp_buf[p]
             s0 == slot[p]
             k0 == channel[p]
             old == channels[s0][k0]
             new == [old EXCEPT !.msg_len = call[p].length]
  <1>1. /\ pc[p] = "w_len" /\ Return(p, "done")
        /\ UNCHANGED <<loaded, message_slots, alive, files>> /\ UNCHANGED heap
        /\ channels' = [channels EXCEPT ![s0] = SetLength(channels[s0], k0, call[p].length)]
    BY DEF WriteLen, SetLength
  <1>2. /\ FileFits(p) /\ CallFits(p) /\ b \in Buffers
        /\ call[p].buffer \in Message /\ call[p].length = Length[call[p].buffer]
        /\ s0 \in alive /\ s0 \in Slots /\ channels[s0] \in Seq(ChannelType)
        /\ k0 \in 1..Len(channels[s0])
    BY <1>1, AtTarget DEF HoldsBuffer
  <1>3. Moves(p) /\ pc'[p] = "idle" /\ temp_buf'[p] = NULL
    BY <1>1, ReturnMoves DEF files
  <1>4. OneCall' /\ SlotsFit' /\ \A q \in Process \ {p} : FileFits(q)' /\ CallFits(q)'
    <2>1. SlotsFit'
      BY <1>1 DEF SInv, SlotsFit
    <2> QED BY <1>1, <1>3, <2>1, OthersFit DEF TypeOK
  <1>5. FileFits(p)' /\ CallFits(p)'
    <2>1. FileFits(p)'
      BY <1>1, <1>2, <1>3 DEF FileFits, HoldsBuffer, files
    <2>2. CallFits(p)'
      BY <1>3 DEF CallFits, HoldsBuffer, AtChannel
    <2> QED BY <2>1, <2>2
  <1>6. /\ Len(channels'[s0]) = Len(channels[s0]) /\ channels'[s0][k0] = new
        /\ \A k \in 1..Len(channels[s0]) : k # k0 => channels'[s0][k] = channels[s0][k]
        /\ \A t \in alive : t # s0 => channels'[t] = channels[t]
    <2>0. old \in ChannelType
      BY <1>2
    <2>1. new \in ChannelType
      BY <1>1, <1>2, <2>0 DEF ChannelType, TypeOK
    <2>2. SetLength(channels[s0], k0, call[p].length) = [channels[s0] EXCEPT ![k0] = new]
      BY DEF SetLength
    <2> HIDE DEF old, new
    <2>3. /\ channels'[s0] = [channels[s0] EXCEPT ![k0] = new]
          /\ \A t \in alive : t # s0 => channels'[t] = channels[t]
      BY <1>1, <1>2, <2>2 DEF TypeOK
    <2> QED BY <1>2, <2>0, <2>1, <2>3, ElementSet
  <1>7. /\ old.message = b /\ heap[b] = call[p].buffer
        /\ new.message = b /\ new.msg_len = Length[heap[b]]
    <2>1. old \in ChannelType
      BY <1>2
    <2>2. old.message = b /\ heap[b] = call[p].buffer
      BY <1>1, <1>2 DEF CallFits, Target
    <2> QED BY <1>2, <2>1, <2>2 DEF ChannelType
  <1>8. \A s, k : (Changing(s, k) <=> s = s0 /\ k = k0) /\ ~ Changing(s, k)'
    BY <1>1, <1>3, OnlyItsOwn
  <1>9. \A q \in Process \ {p} : temp_buf'[q] = temp_buf[q]
    BY <1>3 DEF Moves
  <1>10. b = temp_buf[p]
    OBVIOUS
  <1> HIDE DEF b, s0, k0, old, new
  <1>11. ASSUME NEW s \in alive, NEW k \in 1..Len(channels'[s])
         PROVE  /\ k \in 1..Len(channels[s])
                /\ channels'[s][k].message = channels[s][k].message
                /\ ~ (s = s0 /\ k = k0) => channels'[s][k] = channels[s][k]
                /\ s = s0 /\ k = k0 => channels'[s][k] = new
    BY <1>6, <1>7 DEF old
  <1>12. NoSharing'
    <2> SUFFICES ASSUME NEW s \in alive, NEW t \in alive,
                        NEW k \in 1..Len(channels'[s]), NEW l \in 1..Len(channels'[t]),
                        channels'[s][k].message # NULL,
                        channels'[s][k].message = channels'[t][l].message
                 PROVE  s = t /\ k = l
      BY <1>1 DEF NoSharing
    <2> QED BY <1>11 DEF SInv, NoSharing
  <1>13. Whole'
    <2> SUFFICES ASSUME NEW s \in alive, NEW k \in 1..Len(channels'[s]),
                        channels'[s][k].message # NULL
                 PROVE  /\ heap[channels'[s][k].message] \in Message
                        /\ channels'[s][k].msg_len = Length[heap[channels'[s][k].message]]
      BY <1>1 DEF Whole
    <2>1. CASE s = s0 /\ k = k0
      BY <1>2, <1>7, <1>11, <2>1
    <2>2. CASE ~ (s = s0 /\ k = k0)
      BY <1>8, <1>11, <2>2 DEF SInv, Whole
    <2> QED BY <2>1, <2>2
  <1>14. NewBuffer'
    BY <1>3 DEF NewBuffer, Moves
  <1>15. Owned'
    <2> SUFFICES ASSUME NEW x \in Buffers, heap[x] # Freed, \A q \in Process : temp_buf'[q] # x
                 PROVE  \E s \in alive : \E k \in 1..Len(channels'[s]) : channels'[s][k].message = x
      BY <1>1 DEF Owned
    <2>1. CASE x = b
      BY <1>2, <1>6, <1>7, <2>1
    <2>2. CASE x # b
      <3>1. \A q \in Process : temp_buf[q] # x
        BY <1>9, <1>10, <2>2
      <3>2. PICK s \in alive : \E k \in 1..Len(channels[s]) : channels[s][k].message = x
        BY <3>1 DEF SInv, Owned
      <3>3. PICK k \in 1..Len(channels[s]) : channels[s][k].message = x
        BY <3>2
      <3>4. k \in 1..Len(channels'[s])
        BY <1>6
      <3> QED BY <1>11, <3>3, <3>4
    <2> QED BY <2>1, <2>2
  <1> QED BY <1>4, <1>5, <1>12, <1>13, <1>14, <1>15 DEF SInv

\* Unloading and loading.
LEMMA ModuleFits ==
  ASSUME TypeOK, SInv, message_slot_cleanup \/ message_slot_init
  PROVE  SInv'
  <1>1. CASE message_slot_cleanup
    <2>1. /\ \A p \in Process : minor[p] = NULL /\ pc[p] = "idle"
          /\ UNCHANGED <<lock, files, pc, locals, answer>>
          /\ message_slots' = [m \in Minor |-> NULL] /\ alive' = alive \ Reachable
      BY <1>1 DEF message_slot_cleanup
    <2>2. alive' = {}
      <3>1. \A s \in alive : s # NULL /\ \E m \in Minor : message_slots[m] = s
        BY ConstantsAssumption DEF SInv, SlotsFit, TypeOK
      <3> QED BY <2>1, <3>1 DEF Reachable
    <2>3. OneCall' /\ NewBuffer' /\ NoSharing' /\ Whole'
      BY <2>1, <2>2 DEF OneCall, NewBuffer, NoSharing, Whole
    <2>4. SlotsFit'
      BY <2>1, <2>2, ConstantsAssumption DEF SlotsFit
    <2>5. \A p \in Process : temp_buf[p] = NULL
      BY <2>1 DEF SInv, CallFits, HoldsBuffer
    <2>6. ASSUME NEW p \in Process
          PROVE  FileFits(p)' /\ CallFits(p)'
      <3>1. FileFits(p)
        BY DEF SInv
      <3> QED BY <2>1, <2>5, <3>1 DEF FileFits, CallFits, HoldsBuffer, AtChannel, files, locals
    <2>7. Owned'
      <3> SUFFICES ASSUME NEW b \in Buffers, heap'[b] # Freed
                   PROVE  FALSE
        BY DEF Owned
      <3>1. heap[b] # Freed /\ \A s \in Reachable : b \notin MessagesOf(s)
        BY <1>1 DEF message_slot_cleanup
      <3>2. b # NULL
        BY ConstantsAssumption
      <3>3. PICK s \in alive : \E k \in 1..Len(channels[s]) : channels[s][k].message = b
        BY <2>5, <3>1, <3>2 DEF SInv, Owned
      <3>4. s \in Reachable
        BY <2>1, <2>2
      <3> QED BY <3>1, <3>2, <3>3, <3>4 DEF MessagesOf
    <2> QED BY <2>3, <2>4, <2>6, <2>7 DEF SInv
  <1>2. CASE message_slot_init
    <2>1. ~ loaded /\ loaded' /\ UNCHANGED <<slotVs, heap, files, pc, locals, answer>>
      BY <1>2 DEF message_slot_init
    <2>2. OneCall' /\ SlotsFit' /\ NoSharing' /\ NewBuffer' /\ Owned'
      BY <2>1 DEF SInv, OneCall, SlotsFit, NoSharing, NewBuffer, Owned, slotVs, locals
    <2>3. Whole'
      BY <2>1 DEF SInv, Whole, Changing, slotVs, locals
    <2>4. \A p \in Process : FileFits(p)' /\ CallFits(p)'
      BY <2>1 DEF SInv, FileFits, CallFits, Target, ChannelIdOf, slotVs, files, locals
    <2> QED BY <2>2, <2>3, <2>4 DEF SInv
  <1> QED BY <1>1, <1>2

LEMMA SInvNext ==
  ASSUME IInv, serial, SInv, [Next]_vars
  PROVE  SInv'
  <1>1. TypeOK /\ LockFits
    BY DEF IInv
  <1>2. ASSUME NEW p \in Process, device_write(p)
        PROVE  SInv'
    <2>1. ASSUME NEW m \in Message, WriteEnter(p, m)
          PROVE  SInv'
      <3>1. (Length[m] \in 1..MAXIMAL_BUFFER) \in BOOLEAN /\ "write" \in {"write", "read"}
        OBVIOUS
      <3> QED BY <1>1, <2>1, <3>1, EnterFits DEF WriteEnter
    <2>2. CASE WriteAlloc(p)
      <3>1. CASE Return(p, "ENOMEM") /\ UNCHANGED heap
        BY <1>1, <2>2, <3>1, ReadFits
      <3>2. ASSUME NEW b \in Buffers, heap[b] = Freed, heap' = [heap EXCEPT ![b] = NULL],
                   temp_buf' = [temp_buf EXCEPT ![p] = b],
                   pc' = [pc EXCEPT ![p] = "w_copy"],
                   UNCHANGED <<call, slot, channel, answer>>
            PROVE  SInv'
        BY <1>1, <2>2, <3>2, AllocFits
      <3> QED BY <2>2, <3>1, <3>2 DEF WriteAlloc
    <2>3. CASE WriteCopy(p) \/ WriteFault(p) \/ WriteFree(p) \/ WriteSet(p) \/ WriteLen(p)
      BY <1>1, <2>3, CopyFits, FaultFits, FreeFits, SetFits, LenFits
    <2> QED BY <1>2, <2>1, <2>2, <2>3 DEF device_write
  <1>3. ASSUME NEW p \in Process, device_read(p)
        PROVE  SInv'
    <2>1. ASSUME NEW n \in 0..MAXIMAL_BUFFER, ReadEnter(p, n)
          PROVE  SInv'
      BY <1>1, <2>1, EnterFits DEF ReadEnter
    <2> QED BY <1>1, <1>3, <2>1, ReadFits DEF device_read
  <1>4. ASSUME NEW p \in Process, FileOperation(p)
        PROVE  SInv'
    <2>1. CASE device_open(p)
      BY <1>1, <2>1, OpenCheckFits, FileStepsFit, InstallFits DEF device_open
    <2>2. CASE get_channel(p)
      BY <1>1, <2>2, GetFits, CreateFits DEF get_channel
    <2>3. CASE \E known \in BOOLEAN, param \in Param : device_ioctl(p, known, param)
      BY <1>1, <2>3, FileStepsFit
    <2> QED BY <1>1, <1>2, <1>3, <1>4, <2>1, <2>2, <2>3, FileStepsFit DEF FileOperation
  <1>5. CASE message_slot_cleanup \/ message_slot_init
    BY <1>1, <1>5, ModuleFits
  <1>6. CASE UNCHANGED vars
    <2>1. OneCall' /\ SlotsFit' /\ NoSharing' /\ NewBuffer' /\ Owned'
      BY <1>6 DEF SInv, OneCall, SlotsFit, NoSharing, NewBuffer, Owned, vars
    <2>2. Whole'
      BY <1>6 DEF SInv, Whole, Changing, vars
    <2>3. \A p \in Process : FileFits(p)' /\ CallFits(p)'
      BY <1>6 DEF SInv, FileFits, CallFits, Target, ChannelIdOf, vars
    <2> QED BY <2>1, <2>2, <2>3 DEF SInv
  <1> QED BY <1>4, <1>5, <1>6 DEF Next

LEMMA InitSInv == Init => SInv
  <1> SUFFICES ASSUME Init
               PROVE  SInv
    OBVIOUS
  <1>1. OneCall /\ SlotsFit /\ NoSharing /\ Whole /\ NewBuffer /\ Owned
    BY ConstantsAssumption
       DEF Init, OneCall, SlotsFit, NoSharing, Whole, NewBuffer, Owned
  <1>2. \A p \in Process : FileFits(p) /\ CallFits(p)
    BY DEF Init, FileFits, CallFits, HoldsBuffer, AtChannel
  <1> QED BY <1>1, <1>2 DEF SInv

\* Calls that do not overlap: what a call knows of its file, channel and buffer holds
\* in all its steps, and every buffer has one owner (message_slot.c:101-245, 281-304).
THEOREM SerialInvariant == Spec => [](IInv /\ (serial => SInv))
  <1>1. Init => IInv /\ (serial => SInv)
    BY InitIInv, InitSInv
  <1>2. IInv /\ (serial => SInv) /\ [Next]_vars => (IInv /\ (serial => SInv))'
    <2> SUFFICES ASSUME IInv, serial => SInv, [Next]_vars
                 PROVE  IInv' /\ (serial' => SInv')
      OBVIOUS
    <2>1. UNCHANGED serial
      BY DEF Next, vars
    <2> QED BY <2>1, NextKeeps, SInvNext
  <1> QED BY <1>1, <1>2, PTL DEF Spec

\* While no call is under way a buffer is allocated exactly if one channel of a slot
\* holds it, no two share one, and an unloaded module left nothing behind, whatever
\* allocation or copy failed before (message_slot.c:187-199, 281-304).
THEOREM NothingLeaks == Spec => []CallsLeakNothing
  <1>1. IInv /\ (serial => SInv) => CallsLeakNothing
    <2> SUFFICES ASSUME TypeOK, LockFits, serial, SInv
                 PROVE  CallsLeakNothing
      BY DEF IInv, CallsLeakNothing
    <2>1. ASSUME \A p \in Process : pc[p] = "idle", NEW b \in Buffers
          PROVE  heap[b] # Freed <=> \E s \in alive : b \in MessagesOf(s)
      <3>1. \A p \in Process : temp_buf[p] = NULL
        BY <2>1 DEF SInv, CallFits, HoldsBuffer
      <3>2. b # NULL
        BY ConstantsAssumption
      <3>3. ASSUME heap[b] # Freed
            PROVE  \E s \in alive : b \in MessagesOf(s)
        BY <3>1, <3>2, <3>3 DEF SInv, Owned, MessagesOf
      <3>4. ASSUME NEW s \in alive, b \in MessagesOf(s)
            PROVE  heap[b] # Freed
        <4>1. PICK k \in 1..Len(channels[s]) : channels[s][k].message = b
          BY <3>4 DEF MessagesOf
        <4>2. ~ Changing(s, k)
          BY <2>1 DEF Changing
        <4> QED BY <3>2, <4>1, <4>2, ConstantsAssumption DEF SInv, Whole
      <3> QED BY <3>3, <3>4
    <2>2. \A p \in Process : temp_buf[p] # NULL => heap[temp_buf[p]] # Freed
      <3> SUFFICES ASSUME NEW p \in Process, temp_buf[p] # NULL
                   PROVE  heap[temp_buf[p]] # Freed
        OBVIOUS
      <3>1. CallFits(p) /\ FileFits(p) /\ pc[p] \in HoldsBuffer
        BY DEF SInv, CallFits
      <3>2. pc[p] # "w_copy" => call[p].buffer \in Message
        BY <3>1 DEF FileFits, HoldsBuffer
      <3> QED BY <3>1, <3>2, ConstantsAssumption DEF CallFits, HoldsBuffer
    <2>3. ~ loaded => alive = {} /\ \A b \in Buffers : heap[b] = Freed
      <3> SUFFICES ASSUME ~ loaded, NEW b \in Buffers
                   PROVE  alive = {} /\ heap[b] = Freed
        BY DEF SInv, SlotsFit
      <3>1. alive = {}
        BY DEF SInv, SlotsFit
      <3>2. ASSUME NEW p \in Process
            PROVE  pc[p] = "idle"
        <4>1. FileFits(p)
          BY DEF SInv
        <4> QED BY <4>1 DEF FileFits
      <3> QED BY <2>1, <3>1, <3>2
    <2> QED BY <2>1, <2>2, <2>3 DEF SInv, NoSharing, CallsLeakNothing
  <1> QED BY <1>1, SerialInvariant, PTL

-----------------------------------------------------------------------------
(* The promise: a channel's last message is that of the write that can no   *)
(* longer fail, or what the channel's buffer holds.                         *)

InPlace == {"w_free", "w_set", "w_len"}
ChannelIds == Param \ {0}
Last == [mc \in Minor \X ChannelIds |-> LastMessage(mc[1], mc[2])]
Chosen == [p \in Process |-> <<minor[p], private_data[p]>>]

\* The channel that p's file is on.
Mine(p, m, c) == m = minor[p] /\ c = private_data[p]

\* ioctl's parameter is an unsigned long, a channel's id an unsigned int: the promise is
\* about the parameters that fit.
Fitting == \A c \in Param : c < UINT

LEMMA OneOfOne == \A x : TheOne({x}) = x
  BY DEF TheOne

LEMMA LastIs ==
  ASSUME NEW m, NEW c
  PROVE  /\ \A q : Pending(m, c) = {q} => LastMessage(m, c) = call[q].buffer
         /\ Pending(m, c) = {} =>
              LastMessage(m, c) = IF Stored(m, c) = {} THEN NULL ELSE TheOne(Stored(m, c))
         /\ \A q : Pending(m, c)' = {q} => LastMessage(m, c)' = call'[q].buffer
         /\ Pending(m, c)' = {} =>
              LastMessage(m, c)' = IF Stored(m, c)' = {} THEN NULL ELSE TheOne(Stored(m, c)')
  BY OneOfOne DEF LastMessage

LEMMA StoredIs ==
  ASSUME NEW m, NEW c, NEW x
  PROVE  /\ x \in Stored(m, c) <=>
              /\ message_slots[m] # NULL
              /\ \E k \in 1..Len(channels[message_slots[m]]) :
                   /\ channels[message_slots[m]][k].channel_id = c
                   /\ channels[message_slots[m]][k].message # NULL
                   /\ x = heap[channels[message_slots[m]][k].message]
         /\ x \in Stored(m, c)' <=>
              /\ message_slots'[m] # NULL
              /\ \E k \in 1..Len(channels'[message_slots'[m]]) :
                   /\ channels'[message_slots'[m]][k].channel_id = c
                   /\ channels'[message_slots'[m]][k].message # NULL
                   /\ x = heap'[channels'[message_slots'[m]][k].message]
  BY DEF Stored

\* A call that is not one of a write in place leaves every last message as it is.
LEMMA QuietLast ==
  ASSUME NEW p \in Process, Moves(p), pc[p] \notin InPlace, pc'[p] \notin InPlace,
         \A m \in Minor, c \in ChannelIds : Stored(m, c)' = Stored(m, c)
  PROVE  Last' = Last
  <1>1. ASSUME NEW m \in Minor, NEW c \in ChannelIds
        PROVE  LastMessage(m, c)' = LastMessage(m, c)
    <2>1. Pending(m, c) = {} /\ Pending(m, c)' = {}
      BY DEF Pending, Moves, InPlace
    <2>2. Stored(m, c)' = Stored(m, c)
      OBVIOUS
    <2> QED BY <2>1, <2>2, LastIs
  <1> QED BY <1>1 DEF Last, ChannelIds

LEMMA StoredSame ==
  ASSUME UNCHANGED <<message_slots, channels, heap>>
  PROVE  \A m \in Minor, c \in ChannelIds : Stored(m, c)' = Stored(m, c)
  BY DEF Stored

LEMMA OneMoves ==
  ASSUME TypeOK, SInv, serial, NEW p \in Process, FileOperation(p)
  PROVE  Moves(p)
  <1> SUFFICES ASSUME NEW q \in Process \ {p}
               PROVE  /\ pc'[q] = pc[q] /\ temp_buf'[q] = temp_buf[q]
                      /\ minor'[q] = minor[q] /\ private_data'[q] = private_data[q]
                      /\ pc[q] = "idle"
    BY DEF Moves
  <1>1. pc[p] # "idle" \/ MayCall(p)
    BY DEF FileOperation, device_open, OpenCheck, OpenNoMemory, OpenInstall, device_release,
           get_channel, GetLock, GetFind, GetCreate, GetNoMemory, Goto, device_ioctl,
           device_write, WriteEnter, Enter, WriteAlloc, WriteCopy, WriteFault, WriteFree,
           WriteSet, WriteLen, device_read, ReadEnter, ReadCheck, ReadSize, ReadCopy
  <1>2. pc[q] = "idle"
    BY <1>1, OthersIdle DEF SInv
  <1>3. CASE \/ device_open(p) \/ device_release(p)
             \/ \E known \in BOOLEAN, param \in Param : device_ioctl(p, known, param)
    BY <1>2, <1>3 DEF device_open, OpenCheck, OpenNoMemory, OpenInstall, OpenFile,
                      device_release, device_ioctl, Return, TypeOK, files
  <1>4. CASE get_channel(p)
    BY <1>2, <1>4 DEF get_channel, GetLock, GetFind, GetCreate, GetNoMemory, Goto, Return,
                      TypeOK, files, locals
  <1>5. CASE device_write(p)
    BY <1>2, <1>5 DEF device_write, WriteEnter, Enter, WriteAlloc, WriteCopy, WriteFault,
                      WriteFree, WriteSet, WriteLen, Goto, Return, TypeOK, files, locals
  <1>6. CASE device_read(p)
    BY <1>2, <1>6 DEF device_read, ReadEnter, Enter, ReadCheck, ReadSize, ReadCopy, Return,
                      TypeOK, files, locals
  <1> QED BY <1>3, <1>4, <1>5, <1>6 DEF FileOperation

\* A new slot has no channel yet, a new channel no message.
LEMMA StoredInstall ==
  ASSUME TypeOK, SInv, NEW p \in Process, OpenInstall(p)
  PROVE  \A m \in Minor, c \in ChannelIds : Stored(m, c)' = Stored(m, c)
  <1>1. PICK s \in Slots \ alive :
          /\ message_slots' = [message_slots EXCEPT ![call[p].minor] = s]
          /\ channels' = [channels EXCEPT ![s] = <<>>]
    BY DEF OpenInstall
  <1>2. pc[p] = "o_alloc" /\ UNCHANGED heap /\ FileFits(p)
    BY DEF OpenInstall, SInv
  <1>3. message_slots[call[p].minor] = NULL
    BY <1>2 DEF FileFits
  <1> SUFFICES ASSUME NEW m \in Minor, NEW c \in ChannelIds, NEW x
               PROVE  x \in Stored(m, c)' <=> x \in Stored(m, c)
    <2>1. \A A, B : (\A x : x \in A <=> x \in B) => A = B
      OBVIOUS
    <2> QED BY <2>1
  <1>4. CASE m = call[p].minor
    <2>1. message_slots'[m] = s /\ channels'[s] = <<>>
      BY <1>1, <1>4 DEF TypeOK
    <2>2. x \notin Stored(m, c)' /\ x \notin Stored(m, c)
      BY <1>3, <1>4, <2>1, StoredIs
    <2> QED BY <2>2
  <1>5. CASE m # call[p].minor
    <2>1. message_slots'[m] = message_slots[m]
      BY <1>1, <1>5 DEF TypeOK
    <2>2. message_slots[m] # NULL => channels'[message_slots[m]] = channels[message_slots[m]]
      BY <1>1 DEF TypeOK, SInv, SlotsFit
    <2> QED BY <1>2, <2>1, <2>2, StoredIs
  <1> QED BY <1>4, <1>5

LEMMA StoredCreate ==
  ASSUME TypeOK, LockFits, NEW p \in Process, GetCreate(p)
  PROVE  \A m \in Minor, c \in ChannelIds : Stored(m, c)' = Stored(m, c)
  <1> DEFINE s == slot[p]
             L == Len(channels[s])
             new == NewChannel(ChannelIdOf(p))
  <1>1. pc[p] = "g_create" /\ UNCHANGED <<message_slots, heap>> /\ s \in Slots
    BY DEF GetCreate, LockFits, TypeOK
  <1>2. /\ Len(channels'[s]) = L + 1 /\ L \in Nat
        /\ \A k \in 1..L : channels'[s][k] = channels[s][k]
        /\ channels'[s][L + 1] = new
        /\ \A t \in Slots \ {s} : channels'[t] = channels[t]
    BY <1>1, AppendProperties DEF GetCreate, TypeOK
  <1>3. new.message = NULL
    BY DEF NewChannel
  <1> HIDE DEF s, L, new
  <1> SUFFICES ASSUME NEW m \in Minor, NEW c \in ChannelIds, NEW x
               PROVE  x \in Stored(m, c)' <=> x \in Stored(m, c)
    <2>1. \A A, B : (\A x : x \in A <=> x \in B) => A = B
      OBVIOUS
    <2> QED BY <2>1
  <1>4. CASE message_slots[m] = s
    <2>1. message_slots'[m] = s /\ s # NULL /\ L = Len(channels[s])
      BY <1>1, <1>4, ConstantsAssumption DEF L
    <2>2. \A k : /\ k \in 1..Len(channels'[s]) <=> k \in 1..L \/ k = L + 1
                 /\ k \in 1..L => channels'[s][k] = channels[s][k]
      BY <1>2
    <2>3. /\ x \in Stored(m, c) <=> \E k \in 1..L : /\ channels[s][k].channel_id = c
                                                    /\ channels[s][k].message # NULL
                                                    /\ x = heap[channels[s][k].message]
          /\ x \in Stored(m, c)' <=>
               \E k \in 1..Len(channels'[s]) : /\ channels'[s][k].channel_id = c
                                               /\ channels'[s][k].message # NULL
                                               /\ x = heap'[channels'[s][k].message]
      BY <1>4, <2>1, StoredIs
    <2> QED BY <1>1, <1>2, <1>3, <2>2, <2>3
  <1>5. CASE message_slots[m] # s
    <2>1. message_slots[m] # NULL => channels'[message_slots[m]] = channels[message_slots[m]]
      BY <1>2, <1>5 DEF TypeOK
    <2> QED BY <1>1, <2>1, StoredIs
  <1> QED BY <1>4, <1>5

\* A buffer that is no channel's can be allocated, filled and freed again.
LEMMA StoredBuffer ==
  ASSUME TypeOK, SInv, NEW b \in Buffers, NEW x, heap' = [heap EXCEPT ![b] = x],
         UNCHANGED <<message_slots, channels>>,
         \A s \in alive : \A k \in 1..Len(channels[s]) : channels[s][k].message # b
  PROVE  \A m \in Minor, c \in ChannelIds : Stored(m, c)' = Stored(m, c)
  <1>1. ASSUME NEW s \in alive, NEW k \in 1..Len(channels[s])
        PROVE  heap'[channels[s][k].message] = heap[channels[s][k].message]
    <2>1. channels[s][k].message # b
      OBVIOUS
    <2> QED BY <2>1 DEF TypeOK
  <1> SUFFICES ASSUME NEW m \in Minor, NEW c \in ChannelIds, NEW y
               PROVE  y \in Stored(m, c)' <=> y \in Stored(m, c)
    <2>1. \A A, B : (\A y : y \in A <=> y \in B) => A = B
      OBVIOUS
    <2> QED BY <2>1
  <1>2. message_slots[m] # NULL => message_slots[m] \in alive
    BY DEF TypeOK, SInv, SlotsFit
  <1> QED BY <1>1, <1>2, StoredIs

LEMMA QuietSteps ==
  ASSUME TypeOK, SInv, LockFits, serial, NEW p \in Process, FileOperation(p),
         pc[p] \notin InPlace, ~ WriteCopy(p)
  PROVE  Last' = Last
  <1>1. Moves(p)
    BY OneMoves
  <1>2. pc'[p] \notin InPlace
    <2>1. CASE \/ device_open(p) \/ device_release(p)
               \/ \E known \in BOOLEAN, param \in Param : device_ioctl(p, known, param)
      BY <2>1 DEF InPlace, device_open, OpenCheck, OpenNoMemory, OpenInstall, OpenFile,
                  device_release, device_ioctl, Return, TypeOK
    <2>2. CASE get_channel(p)
      BY <2>2 DEF InPlace, get_channel, GetLock, GetFind, GetCreate, GetNoMemory, Goto,
                  AfterGet, Return, TypeOK
    <2>3. CASE device_write(p)
      BY <2>3 DEF InPlace, device_write, WriteEnter, Enter, WriteAlloc, WriteFault,
                  WriteFree, WriteSet, WriteLen, Goto, Return, TypeOK
    <2>4. CASE device_read(p)
      BY <2>4 DEF InPlace, device_read, ReadEnter, Enter, ReadCheck, ReadSize, ReadCopy,
                  Return, TypeOK
    <2> QED BY <2>1, <2>2, <2>3, <2>4 DEF FileOperation
  <1>3. CASE UNCHANGED <<message_slots, channels, heap>>
    BY <1>1, <1>2, <1>3, QuietLast, StoredSame
  <1>4. CASE OpenInstall(p) \/ GetCreate(p)
    BY <1>1, <1>2, <1>4, QuietLast, StoredInstall, StoredCreate
  <1>5. CASE WriteAlloc(p)
    <2>1. ASSUME NEW b \in Buffers, heap[b] = Freed, heap' = [heap EXCEPT ![b] = NULL]
          PROVE  Last' = Last
      <3>1. pc[p] = "w_alloc" /\ UNCHANGED <<message_slots, channels>>
        BY <1>5 DEF WriteAlloc, slotVs
      <3>2. \A s \in alive : \A k \in 1..Len(channels[s]) : channels[s][k].message # b
        <4> SUFFICES ASSUME NEW s \in alive, NEW k \in 1..Len(channels[s]),
                            channels[s][k].message = b
                     PROVE  FALSE
          OBVIOUS
        <4>1. ~ Changing(s, k)
          BY <1>1, <3>1, OnlyItsOwn
        <4> QED BY <2>1, <4>1, ConstantsAssumption DEF SInv, Whole
      <3> QED BY <1>1, <1>2, <2>1, <3>1, <3>2, StoredBuffer, QuietLast
    <2> QED BY <1>3, <1>5, <2>1 DEF WriteAlloc, slotVs
  <1>6. CASE WriteFault(p)
    <2>1. /\ pc[p] = "w_copy" /\ heap' = [heap EXCEPT ![temp_buf[p]] = Freed]
          /\ UNCHANGED <<message_slots, channels>>
      BY <1>6 DEF WriteFault, slotVs
    <2>2. /\ temp_buf[p] \in Buffers
          /\ \A s \in alive : \A k \in 1..Len(channels[s]) : channels[s][k].message # temp_buf[p]
      BY <2>1, AtTarget DEF HoldsBuffer, SInv, NewBuffer
    <2> QED BY <1>1, <1>2, <2>1, <2>2, StoredBuffer, QuietLast
  <1>7. CASE \/ device_release(p) \/ (\E m \in Minor : OpenCheck(p, m)) \/ OpenNoMemory(p)
             \/ \E known \in BOOLEAN, param \in Param : device_ioctl(p, known, param)
             \/ GetLock(p) \/ GetFind(p) \/ GetNoMemory(p)
             \/ (\E m \in Message : WriteEnter(p, m)) \/ device_read(p)
    <2>1. UNCHANGED <<message_slots, channels, heap>>
      BY <1>7 DEF device_release, OpenCheck, OpenNoMemory, device_ioctl, GetLock, GetFind,
                  GetNoMemory, WriteEnter, Enter, device_read, ReadEnter, ReadCheck,
                  ReadSize, ReadCopy, slotVs
    <2> QED BY <1>3, <2>1
  <1>8. ~ WriteFree(p) /\ ~ WriteSet(p) /\ ~ WriteLen(p)
    BY DEF InPlace, WriteFree, WriteSet, WriteLen, Goto
  <1> QED BY <1>4, <1>5, <1>6, <1>7, <1>8
          DEF FileOperation, device_open, get_channel, device_write

\* While a write is in place, only its channel is pending.
LEMMA PendingIs ==
  ASSUME TypeOK, SInv, Fitting, NEW p \in Process, Moves(p),
         pc[p] \notin {"idle", "o_alloc"}, UNCHANGED <<message_slots, files>>,
         NEW m \in Minor, NEW c \in ChannelIds
  PROVE  /\ pc[p] \in InPlace /\ Mine(p, m, c) => Pending(m, c) = {p}
         /\ pc[p] \notin InPlace \/ ~ Mine(p, m, c) => Pending(m, c) = {}
         /\ pc'[p] \in InPlace /\ slot'[p] = slot[p] /\ Mine(p, m, c) => Pending(m, c)' = {p}
         /\ pc'[p] \notin InPlace \/ (slot'[p] = slot[p] /\ ~ Mine(p, m, c))
              => Pending(m, c)' = {}
  <1>1. FileFits(p)
    BY DEF SInv
  <1>2. minor[p] \in Minor /\ slot[p] = message_slots[minor[p]] /\ slot[p] # NULL
    BY <1>1 DEF FileFits, TypeOK
  <1>3. slot[p] = message_slots[m] <=> m = minor[p]
    BY <1>2 DEF SInv, SlotsFit
  <1>4. ChannelIdOf(p) = private_data[p] /\ ChannelIdOf(p)' = ChannelIdOf(p)
    <2>1. private_data[p] \in Nat /\ private_data[p] < UINT
      BY <1>1, ConstantsAssumption DEF FileFits, Fitting, TypeOK
    <2>2. private_data[p] % UINT = private_data[p]
      BY <2>1, ConstantsAssumption
    <2> QED BY <2>2 DEF ChannelIdOf, files
  <1>5. \A q \in Process \ {p} : q \notin Pending(m, c) /\ q \notin Pending(m, c)'
    BY DEF Moves, Pending
  <1>6. p \in Pending(m, c) <=> pc[p] \in InPlace /\ Mine(p, m, c)
    BY <1>3, <1>4 DEF Pending, InPlace, Mine
  <1>7. /\ pc'[p] \in InPlace /\ slot'[p] = slot[p] /\ Mine(p, m, c) => p \in Pending(m, c)'
        /\ pc'[p] \notin InPlace \/ (slot'[p] = slot[p] /\ ~ Mine(p, m, c))
              => p \notin Pending(m, c)'
    BY <1>3, <1>4 DEF Pending, InPlace, Mine
  <1>8. Pending(m, c) \subseteq Process /\ Pending(m, c)' \subseteq Process
    BY DEF Pending
  <1> QED BY <1>5, <1>6, <1>7, <1>8

\* The write takes effect: its message is the last of its slot and channel.
LEMMA CopyLast ==
  ASSUME TypeOK, SInv, LockFits, Fitting, NEW p \in Process, Moves(p), WriteCopy(p)
  PROVE  /\ Chosen[p] \in Minor \X ChannelIds
         /\ Last' = [Last EXCEPT ![Chosen[p]] = call[p].buffer]
  <1>1. /\ pc[p] = "w_copy" /\ pc'[p] = "w_free" /\ UNCHANGED <<message_slots, channels, files>>
        /\ slot'[p] = slot[p] /\ call'[p] = call[p]
        /\ heap' = [heap EXCEPT ![temp_buf[p]] = call[p].buffer]
    BY DEF WriteCopy, Goto, slotVs, locals, TypeOK
  <1>2. /\ temp_buf[p] \in Buffers
        /\ \A s \in alive : \A k \in 1..Len(channels[s]) : channels[s][k].message # temp_buf[p]
    BY <1>1, AtTarget DEF HoldsBuffer, SInv, NewBuffer
  <1>3. FileFits(p)
    BY DEF SInv
  <1>4. minor[p] \in Minor /\ private_data[p] \in ChannelIds
    BY <1>1, <1>3 DEF FileFits, TypeOK, ChannelIds
  <1>5. ASSUME NEW m \in Minor, NEW c \in ChannelIds
        PROVE  LastMessage(m, c)' = IF Mine(p, m, c) THEN call[p].buffer ELSE LastMessage(m, c)
    <2>1. pc[p] \notin {"idle", "o_alloc"} /\ pc'[p] \in InPlace /\ pc[p] \notin InPlace
      BY <1>1 DEF InPlace
    <2>2. CASE Mine(p, m, c)
      <3>1. Pending(m, c)' = {p}
        BY <1>1, <2>1, <2>2, PendingIs
      <3> QED BY <1>1, <2>2, <3>1, LastIs
    <2>3. CASE ~ Mine(p, m, c)
      <3>1. Pending(m, c) = {} /\ Pending(m, c)' = {}
        BY <1>1, <2>1, <2>3, PendingIs
      <3>2. Stored(m, c)' = Stored(m, c)
        BY <1>1, <1>2, StoredBuffer
      <3> QED BY <2>3, <3>1, <3>2, LastIs
    <2> QED BY <2>2, <2>3
  <1>6. Chosen[p] = <<minor[p], private_data[p]>>
    BY DEF Chosen
  <1>7. ASSUME NEW mc \in Minor \X ChannelIds
        PROVE  Last'[mc] = IF mc = Chosen[p] THEN call[p].buffer ELSE Last[mc]
    <2>1. mc[1] \in Minor /\ mc[2] \in ChannelIds /\ mc = <<mc[1], mc[2]>>
      OBVIOUS
    <2>2. mc = Chosen[p] <=> Mine(p, mc[1], mc[2])
      BY <1>6, <2>1 DEF Mine
    <2> QED BY <1>5, <2>1, <2>2 DEF Last
  <1>8. /\ DOMAIN Last = Minor \X ChannelIds /\ DOMAIN Last' = Minor \X ChannelIds
        /\ Last = [mc \in DOMAIN Last |-> Last[mc]] /\ Last' = [mc \in DOMAIN Last' |-> Last'[mc]]
    BY DEF Last, ChannelIds
  <1>9. Chosen[p] \in Minor \X ChannelIds
    BY <1>4, <1>6
  <1> QED BY <1>7, <1>8, <1>9

\* The rest of a write changes no last message: what it does to the old message and to
\* the channel stays in its own channel, and its end makes the channel whole.
LEMMA PlaceLast ==
  ASSUME TypeOK, SInv, LockFits, Fitting, NEW p \in Process, Moves(p),
         pc[p] \in InPlace, UNCHANGED <<message_slots, files>>,
         pc'[p] \in InPlace => slot'[p] = slot[p] /\ call'[p] = call[p],
         \A m \in Minor, c \in ChannelIds :
           ~ Mine(p, m, c) => Stored(m, c)' = Stored(m, c),
         pc'[p] \notin InPlace =>
           \A m \in Minor, c \in ChannelIds : Mine(p, m, c) => Stored(m, c)' = {call[p].buffer}
  PROVE  Last' = Last
  <1>1. ASSUME NEW m \in Minor, NEW c \in ChannelIds
        PROVE  LastMessage(m, c)' = LastMessage(m, c)
    <2>1. pc[p] \notin {"idle", "o_alloc"}
      BY DEF InPlace
    <2>2. CASE Mine(p, m, c)
      <3>1. Pending(m, c) = {p} /\ LastMessage(m, c) = call[p].buffer
        BY <2>1, <2>2, PendingIs, LastIs
      <3>2. CASE pc'[p] \in InPlace
        <4>1. Pending(m, c)' = {p}
          BY <2>1, <2>2, <3>2, PendingIs
        <4> QED BY <3>1, <3>2, <4>1, LastIs
      <3>3. CASE pc'[p] \notin InPlace
        <4>1. Pending(m, c)' = {} /\ Stored(m, c)' = {call[p].buffer}
          BY <2>1, <2>2, <3>3, PendingIs
        <4>2. LastMessage(m, c)' = TheOne(Stored(m, c)')
          BY <4>1, LastIs
        <4> QED BY <3>1, <4>1, <4>2, OneOfOne
      <3> QED BY <3>2, <3>3
    <2>3. CASE ~ Mine(p, m, c)
      <3>1. Pending(m, c) = {} /\ Pending(m, c)' = {}
        BY <2>1, <2>3, PendingIs
      <3>2. Stored(m, c)' = Stored(m, c)
        BY <2>3
      <3> QED BY <3>1, <3>2, LastIs
    <2> QED BY <2>2, <2>3
  <1> QED BY <1>1 DEF Last, ChannelIds

\* Which channel a call's own is: no other slot and id leads to it.
LEMMA OwnChannel ==
  ASSUME TypeOK, SInv, LockFits, OneChannelPerId, Fitting, NEW p \in Process,
         pc[p] \in HoldsBuffer \cup {"r_copy"}, NEW m \in Minor, NEW c \in ChannelIds
  PROVE  /\ minor[p] \in Minor /\ private_data[p] \in ChannelIds
         /\ message_slots[m] = slot[p] <=> m = minor[p]
         /\ Mine(p, m, c) <=>
              message_slots[m] = slot[p] /\ channels[slot[p]][channel[p]].channel_id = c
         /\ message_slots[m] # NULL => message_slots[m] \in alive
         /\ \A k \in 1..Len(channels[slot[p]]) :
              channels[slot[p]][k].channel_id = private_data[p] <=> k = channel[p]
  <1>1. FileFits(p) /\ pc[p] \notin {"idle", "o_alloc"}
    BY DEF SInv, HoldsBuffer
  <1>2. /\ minor[p] \in Minor /\ slot[p] = message_slots[minor[p]] /\ slot[p] # NULL
        /\ private_data[p] \in ChannelIds
    BY <1>1 DEF FileFits, TypeOK, ChannelIds
  <1>3. message_slots[m] = slot[p] <=> m = minor[p]
    BY <1>2 DEF SInv, SlotsFit
  <1>4. ChannelIdOf(p) = private_data[p]
    <2>1. private_data[p] \in Nat /\ private_data[p] < UINT
      BY <1>2, ConstantsAssumption DEF Fitting, ChannelIds
    <2>2. private_data[p] % UINT = private_data[p]
      BY <2>1, ConstantsAssumption
    <2> QED BY <2>2 DEF ChannelIdOf
  <1>5. /\ slot[p] \in Slots /\ channel[p] \in 1..Len(channels[slot[p]])
        /\ channels[slot[p]][channel[p]].channel_id = private_data[p]
    <2>1. pc[p] \in AtChannel /\ CallFits(p)
      BY DEF HoldsBuffer, AtChannel, SInv
    <2> QED BY <1>1, <1>4, <2>1 DEF CallFits, Target, LockFits, TypeOK
  <1>6. message_slots[m] # NULL => message_slots[m] \in alive
    BY DEF LockFits
  <1>7. \A k \in 1..Len(channels[slot[p]]) :
          channels[slot[p]][k].channel_id = private_data[p] <=> k = channel[p]
    BY <1>5 DEF OneChannelPerId
  <1> QED BY <1>2, <1>3, <1>5, <1>6, <1>7 DEF Mine

LEMMA FreeLast ==
  ASSUME TypeOK, SInv, LockFits, OneChannelPerId, Fitting, NEW p \in Process, Moves(p),
         WriteFree(p)
  PROVE  Last' = Last
  <1> DEFINE old == Target(p).message
  <1>1. /\ pc[p] = "w_free" /\ pc'[p] = "w_set" /\ UNCHANGED <<message_slots, files>>
        /\ UNCHANGED channels /\ slot'[p] = slot[p] /\ call'[p] = call[p]
        /\ heap' = IF old # NULL THEN [heap EXCEPT ![old] = Freed] ELSE heap
    BY DEF WriteFree, Goto, slotVs, locals, TypeOK
  <1>2. pc[p] \in HoldsBuffer /\ pc[p] \in InPlace /\ pc'[p] \in InPlace
    BY <1>1 DEF HoldsBuffer, InPlace
  <1>3. /\ slot[p] \in alive /\ channel[p] \in 1..Len(channels[slot[p]])
        /\ old = channels[slot[p]][channel[p]].message
    BY <1>2, AtTarget DEF Target
  <1> HIDE DEF old
  <1>4. ASSUME NEW m \in Minor, NEW c \in ChannelIds, ~ Mine(p, m, c)
        PROVE  Stored(m, c)' = Stored(m, c)
    <2>1. ASSUME NEW k \in 1..Len(channels[message_slots[m]]), message_slots[m] # NULL,
                 channels[message_slots[m]][k].channel_id = c,
                 channels[message_slots[m]][k].message # NULL
          PROVE  heap'[channels[message_slots[m]][k].message]
                   = heap[channels[message_slots[m]][k].message]
      <3>1. message_slots[m] \in alive
        BY <1>2, <2>1, OwnChannel
      <3>2. ~ (message_slots[m] = slot[p] /\ k = channel[p])
        BY <1>2, <1>4, <2>1, OwnChannel
      <3>3. channels[message_slots[m]][k].message # old
        BY <1>3, <2>1, <3>1, <3>2 DEF SInv, NoSharing
      <3> QED BY <1>1, <3>3 DEF TypeOK
    <2> SUFFICES ASSUME NEW x
                 PROVE  x \in Stored(m, c)' <=> x \in Stored(m, c)
      <3>1. \A A, B : (\A x : x \in A <=> x \in B) => A = B
        OBVIOUS
      <3> QED BY <3>1
    <2> QED BY <1>1, <2>1, StoredIs
  <1> QED BY <1>1, <1>2, <1>4, PlaceLast

\* What a write's assignments to its channel change of what the others store.
LEMMA StoredElsewhere ==
  ASSUME TypeOK, SInv, LockFits, OneChannelPerId, Fitting, NEW p \in Process,
         pc[p] \in HoldsBuffer, UNCHANGED <<message_slots, heap>>,
         NEW new \in ChannelType, new.channel_id = channels[slot[p]][channel[p]].channel_id,
         channels' = [channels EXCEPT ![slot[p]] = [channels[slot[p]] EXCEPT ![channel[p]] = new]]
  PROVE  /\ \A m \in Minor, c \in ChannelIds : ~ Mine(p, m, c) => Stored(m, c)' = Stored(m, c)
         /\ Len(channels'[slot[p]]) = Len(channels[slot[p]])
         /\ channels'[slot[p]][channel[p]] = new
         /\ \A k \in 1..Len(channels[slot[p]]) :
              k # channel[p] => channels'[slot[p]][k] = channels[slot[p]][k]
  <1> DEFINE s0 == slot[p]
             k0 == channel[p]
  <1>1. s0 \in Slots /\ channels[s0] \in Seq(ChannelType) /\ k0 \in 1..Len(channels[s0])
    BY AtTarget
  <1>2. /\ channels'[s0] = [channels[s0] EXCEPT ![k0] = new]
        /\ \A t \in Slots : t # s0 => channels'[t] = channels[t]
    BY <1>1 DEF TypeOK
  <1>3. /\ Len(channels'[s0]) = Len(channels[s0]) /\ channels'[s0][k0] = new
        /\ \A k \in 1..Len(channels[s0]) : k # k0 => channels'[s0][k] = channels[s0][k]
    BY <1>1, <1>2, ElementSet
  <1>4. ASSUME NEW m \in Minor, NEW c \in ChannelIds, ~ Mine(p, m, c)
        PROVE  Stored(m, c)' = Stored(m, c)
    <2>1. message_slots[m] # NULL => message_slots[m] \in Slots
      BY OwnChannel DEF TypeOK
    <2>2. message_slots[m] = s0 => channels[s0][k0].channel_id # c
      BY <1>4, OwnChannel
    <2> HIDE DEF s0, k0
    <2> SUFFICES ASSUME NEW x
                 PROVE  x \in Stored(m, c)' <=> x \in Stored(m, c)
      <3>1. \A A, B : (\A x : x \in A <=> x \in B) => A = B
        OBVIOUS
      <3> QED BY <3>1
    <2>3. CASE message_slots[m] = s0
      <3>1. new.channel_id # c
        BY <2>2, <2>3 DEF s0, k0
      <3>2. \A k \in 1..Len(channels[s0]) :
              channels[s0][k].channel_id = c \/ channels'[s0][k].channel_id = c
              => channels'[s0][k] = channels[s0][k]
        BY <1>3, <2>2, <2>3, <3>1
      <3> QED BY <1>3, <2>3, <3>2, StoredIs
    <2>4. CASE message_slots[m] # s0
      <3>1. message_slots[m] # NULL => channels'[message_slots[m]] = channels[message_slots[m]]
        BY <1>2, <2>1, <2>4
      <3> QED BY <3>1, StoredIs
    <2> QED BY <2>3, <2>4
  <1> QED BY <1>3, <1>4

LEMMA SetLast ==
  ASSUME TypeOK, SInv, LockFits, OneChannelPerId, Fitting, NEW p \in Process, Moves(p),
         WriteSet(p)
  PROVE  Last' = Last
  <1> DEFINE old == channels[slot[p]][channel[p]]
             new == [old EXCEPT !.message = temp_buf[p]]
  <1>1. /\ pc[p] = "w_set" /\ pc'[p] = "w_len" /\ UNCHANGED <<message_slots, files>>
        /\ UNCHANGED heap /\ slot'[p] = slot[p] /\ call'[p] = call[p]
        /\ channels' =
             [channels EXCEPT ![slot[p]] = [channels[slot[p]] EXCEPT ![channel[p]] = new]]
    BY DEF WriteSet, Goto, files, locals, TypeOK
  <1>2. pc[p] \in HoldsBuffer /\ pc[p] \in InPlace /\ pc'[p] \in InPlace
    BY <1>1 DEF HoldsBuffer, InPlace
  <1>3. old \in ChannelType /\ temp_buf[p] \in Buffers
    BY <1>1, <1>2, AtTarget
  <1>4. new \in ChannelType /\ new.channel_id = old.channel_id
    BY <1>3 DEF ChannelType
  <1> HIDE DEF new
  <1>5. \A m \in Minor, c \in ChannelIds : ~ Mine(p, m, c) => Stored(m, c)' = Stored(m, c)
    BY <1>1, <1>2, <1>4, StoredElsewhere
  <1> QED BY <1>1, <1>2, <1>5, PlaceLast

LEMMA LenLast ==
  ASSUME TypeOK, SInv, LockFits, OneChannelPerId, Fitting, NEW p \in Process, Moves(p),
         WriteLen(p)
  PROVE  Last' = Last
  <1> DEFINE old == channels[slot[p]][channel[p]]
             new == [old EXCEPT !.msg_len = call[p].length]
  <1>1. /\ pc[p] = "w_len" /\ pc'[p] = "idle" /\ UNCHANGED <<message_slots, files>>
        /\ UNCHANGED heap
        /\ channels' =
             [channels EXCEPT ![slot[p]] = [channels[slot[p]] EXCEPT ![channel[p]] = new]]
    BY DEF WriteLen, Return, files, TypeOK
  <1>2. pc[p] \in HoldsBuffer /\ pc[p] \in InPlace /\ pc'[p] \notin InPlace
    BY <1>1 DEF HoldsBuffer, InPlace
  <1>3. /\ old \in ChannelType /\ call[p].length \in Nat /\ temp_buf[p] \in Buffers
        /\ slot[p] \in alive /\ channel[p] \in 1..Len(channels[slot[p]])
    BY <1>1, <1>2, AtTarget DEF TypeOK
  <1>4. new \in ChannelType /\ new.channel_id = old.channel_id /\ new.message = old.message
    BY <1>3 DEF ChannelType
  <1>5. old.message = temp_buf[p] /\ heap[temp_buf[p]] = call[p].buffer
    BY <1>1 DEF SInv, CallFits, Target
  <1> HIDE DEF new
  <1>6. /\ \A m \in Minor, c \in ChannelIds : ~ Mine(p, m, c) => Stored(m, c)' = Stored(m, c)
        /\ Len(channels'[slot[p]]) = Len(channels[slot[p]])
        /\ channels'[slot[p]][channel[p]] = new
        /\ \A k \in 1..Len(channels[slot[p]]) :
              k # channel[p] => channels'[slot[p]][k] = channels[slot[p]][k]
    BY <1>1, <1>2, <1>4, StoredElsewhere
  <1>7. temp_buf[p] # NULL
    BY <1>3, ConstantsAssumption
  <1> HIDE DEF old
  <1>8. ASSUME NEW m \in Minor, NEW c \in ChannelIds, Mine(p, m, c)
        PROVE  Stored(m, c)' = {call[p].buffer}
    <2>1. /\ message_slots'[m] = slot[p] /\ slot[p] # NULL
          /\ \A k \in 1..Len(channels'[slot[p]]) :
               channels'[slot[p]][k].channel_id = c <=> k = channel[p]
      <3>1. message_slots[m] = slot[p] /\ slot[p] # NULL /\ c = private_data[p]
        BY <1>2, <1>3, <1>8, OwnChannel, ConstantsAssumption DEF Mine, TypeOK
      <3>2. \A k \in 1..Len(channels[slot[p]]) :
              channels[slot[p]][k].channel_id = c <=> k = channel[p]
        BY <1>2, <3>1, OwnChannel
      <3>3. \A k \in 1..Len(channels[slot[p]]) :
              channels'[slot[p]][k].channel_id = channels[slot[p]][k].channel_id
        BY <1>4, <1>6 DEF old
      <3> QED BY <1>1, <1>6, <3>1, <3>2, <3>3
    <2>2. /\ channel[p] \in 1..Len(channels'[slot[p]])
          /\ channels'[slot[p]][channel[p]].message = temp_buf[p]
          /\ heap'[temp_buf[p]] = call[p].buffer
      BY <1>1, <1>3, <1>4, <1>5, <1>6
    <2> SUFFICES ASSUME NEW x
                 PROVE  x \in Stored(m, c)' <=> x = call[p].buffer
      <3>1. \A A, b : (\A x : x \in A <=> x = b) => A = {b}
        OBVIOUS
      <3> QED BY <3>1
    <2> QED BY <1>7, <2>1, <2>2, StoredIs
  <1> QED BY <1>1, <1>2, <1>6, <1>8, PlaceLast

\* A read copies the last message of its slot and channel.
LEMMA CopiesLast ==
  ASSUME TypeOK, SInv, LockFits, OneChannelPerId, Fitting, NEW p \in Process, Moves(p),
         pc[p] = "r_copy"
  PROVE  Chosen[p] \in Minor \X ChannelIds /\ Last[Chosen[p]] = Copied(p) /\ Copied(p) # NULL
  <1> DEFINE s == slot[p]
             k == channel[p]
             m == minor[p]
             c == private_data[p]
             b == channels[s][k].message
  <1>1. CallFits(p) /\ FileFits(p) /\ s \in alive
    BY DEF SInv, LockFits
  <1>2. k \in 1..Len(channels[s]) /\ b # NULL
    BY <1>1 DEF CallFits, AtChannel, Target
  <1>3. /\ m \in Minor /\ c \in ChannelIds /\ message_slots[m] = s /\ s # NULL
        /\ \A j \in 1..Len(channels[s]) : channels[s][j].channel_id = c <=> j = k
    <2>1. m \in Minor /\ s # NULL
      BY <1>1 DEF FileFits, TypeOK
    <2>2. c \in ChannelIds
      BY <1>1 DEF FileFits, TypeOK, ChannelIds
    <2> QED BY <2>1, <2>2, OwnChannel
  <1>4. heap[b] \in Message /\ channels[s][k].msg_len = Length[heap[b]]
    <2>1. ~ Changing(s, k)
      BY OnlyItsOwn
    <2> QED BY <1>1, <1>2, <2>1 DEF SInv, Whole
  <1>5. Copied(p) = heap[b] /\ heap[b] # NULL
    BY <1>4, ConstantsAssumption DEF Copied, Target
  <1>6. Pending(m, c) = {}
    BY DEF Pending, Moves, InPlace
  <1>7. Chosen[p] = <<m, c>>
    BY DEF Chosen
  <1> HIDE DEF s, k, m, c, b
  <1>8. Stored(m, c) = {heap[b]}
    <2> SUFFICES ASSUME NEW x
                 PROVE  x \in Stored(m, c) <=> x = heap[b]
      <3>1. \A A, y : (\A x : x \in A <=> x = y) => A = {y}
        OBVIOUS
      <3> QED BY <3>1
    <2> QED BY <1>2, <1>3, StoredIs DEF b
  <1>9. LastMessage(m, c) = heap[b]
    <2>1. LastMessage(m, c) = IF Stored(m, c) = {} THEN NULL ELSE TheOne(Stored(m, c))
      BY <1>6, LastIs
    <2>2. TheOne({heap[b]}) = heap[b]
      BY OneOfOne
    <2> QED BY <1>8, <2>1, <2>2
  <1>10. <<m, c>> \in Minor \X ChannelIds /\ Last[<<m, c>>] = LastMessage(m, c)
    BY <1>3 DEF Last
  <1> QED BY <1>5, <1>7, <1>9, <1>10

\* What a step answers, and to whom.
LEMMA Outcomes ==
  ASSUME NEW p \in Process, FileOperation(p)
  PROVE  \/ UNCHANGED <<files, answer>>
         \/ \E r \in Errors \cup {"done"} :
              answer' = [answer EXCEPT ![p] = r] /\ UNCHANGED files
         \/ answer' = [answer EXCEPT ![p] = "done"] /\ ~ WriteCopy(p) /\ pc[p] \notin InPlace
         \/ ReadCopy(p) /\ answer' = [answer EXCEPT ![p] = Copied(p)] /\ UNCHANGED files
  <1>1. CASE device_open(p)
    BY <1>1 DEF device_open, OpenCheck, OpenNoMemory, OpenInstall, OpenFile, MayCall,
                Return, WriteCopy, Goto, InPlace, Errors
  <1>2. CASE device_release(p)
    BY <1>2 DEF device_release, MayCall, Return, WriteCopy, Goto, InPlace
  <1>3. CASE \E known \in BOOLEAN, param \in Param : device_ioctl(p, known, param)
    BY <1>3 DEF device_ioctl, MayCall, Return, WriteCopy, Goto, InPlace, Errors, files
  <1>4. CASE get_channel(p)
    <2>1. CASE GetNoMemory(p)
      <3> DEFINE r == IF Writing(p) THEN "ENOMEM" ELSE "EWOULDBLOCK"
      <3>1. r \in Errors
        BY DEF Errors
      <3>2. answer' = [answer EXCEPT ![p] = r] /\ UNCHANGED files
        BY <2>1 DEF GetNoMemory, Return
      <3> QED BY <3>1, <3>2
    <2>2. CASE GetLock(p) \/ GetFind(p) \/ GetCreate(p)
      BY <2>2 DEF GetLock, GetFind, GetCreate
    <2> QED BY <1>4, <2>1, <2>2 DEF get_channel
  <1>5. CASE device_write(p)
    BY <1>5 DEF device_write, WriteEnter, Enter, WriteAlloc, WriteCopy, WriteFault,
                WriteFree, WriteSet, WriteLen, Return, Errors
  <1>6. CASE device_read(p)
    BY <1>6 DEF device_read, ReadEnter, Enter, ReadCheck, ReadSize, ReadCopy, Return, Errors
  <1> QED BY <1>1, <1>2, <1>3, <1>4, <1>5, <1>6 DEF FileOperation

LEMMA StepPromises ==
  ASSUME IInv, SInv, serial, Fitting, NEW p \in Process, FileOperation(p)
  PROVE  Promise!Next \/ UNCHANGED Promise!vars
  <1>1. TypeOK /\ LockFits /\ OneChannelPerId /\ Moves(p)
    BY OneMoves DEF IInv
  <1>2. \A q \in Process \ {p} : Chosen'[q] = Chosen[q]
    BY <1>1 DEF Moves, Chosen
  <1>3. UNCHANGED files => Chosen' = Chosen
    BY DEF files, Chosen
  <1>4. CASE WriteCopy(p)
    <2>1. Chosen[p] \in Minor \X ChannelIds /\ Last' = [Last EXCEPT ![Chosen[p]] = call[p].buffer]
      BY <1>1, <1>4, CopyLast
    <2>2. call[p].buffer \in Message
      BY <1>1, <1>4, AtTarget DEF WriteCopy, Goto, HoldsBuffer
    <2>3. answer' = answer /\ Chosen' = Chosen
      BY <1>3, <1>4 DEF WriteCopy
    <2>4. Promise!Write(p, call[p].buffer)
      BY <2>1, <2>3 DEF Promise!Write, Last, Chosen, ChannelIds
    <2> QED BY <2>2, <2>4 DEF Promise!Next
  <1>5. CASE ~ WriteCopy(p)
    <2>1. Last' = Last
      <3>1. CASE pc[p] \notin InPlace
        BY <1>1, <1>5, <3>1, QuietSteps
      <3>2. CASE pc[p] \in InPlace
        <4>1. WriteFree(p) \/ WriteSet(p) \/ WriteLen(p)
          <5>1. pc[p] # "idle" /\ ~ MayCall(p)
            BY <3>2 DEF InPlace, MayCall
          <5> QED BY <1>5, <3>2, <5>1
              DEF InPlace, FileOperation, device_open, OpenCheck, OpenNoMemory, OpenInstall,
                  device_release, get_channel, GetLock, GetFind, GetCreate, GetNoMemory,
                  Goto, device_ioctl, device_write, WriteEnter, Enter, WriteAlloc,
                  WriteFault, device_read, ReadEnter, ReadCheck, ReadSize, ReadCopy
        <4> QED BY <1>1, <4>1, FreeLast, SetLast, LenLast
      <3> QED BY <3>1, <3>2
    <2>2. CASE UNCHANGED <<files, answer>>
      BY <1>3, <2>1, <2>2 DEF Promise!vars, Last, Chosen, ChannelIds
    <2>3. ASSUME NEW r \in Errors \cup {"done"},
                 answer' = [answer EXCEPT ![p] = r], UNCHANGED files
          PROVE  Promise!Next
      <3>1. Promise!Return(p)
        BY <1>3, <2>1, <2>3 DEF Promise!Return, Last, Chosen, ChannelIds
      <3> QED BY <3>1 DEF Promise!Next
    <2>4. CASE answer' = [answer EXCEPT ![p] = "done"]
      <3>1. Promise!Choose(p)
        BY <1>2, <2>1, <2>4 DEF Promise!Choose, Last, Chosen, ChannelIds
      <3> QED BY <3>1 DEF Promise!Next
    <2>5. CASE ReadCopy(p) /\ answer' = [answer EXCEPT ![p] = Copied(p)] /\ UNCHANGED files
      <3>1. Chosen[p] \in Minor \X ChannelIds /\ Last[Chosen[p]] = Copied(p) /\ Copied(p) # NULL
        BY <1>1, <2>5, CopiesLast DEF ReadCopy
      <3>2. Promise!Read(p)
        BY <1>3, <2>1, <2>5, <3>1 DEF Promise!Read, Last, Chosen, ChannelIds
      <3> QED BY <3>2 DEF Promise!Next
    <2> QED BY <2>2, <2>3, <2>4, <2>5, Outcomes
  <1> QED BY <1>4, <1>5

LEMMA ModulePromises ==
  ASSUME TypeOK, SInv, message_slot_cleanup \/ message_slot_init
  PROVE  Promise!Next \/ UNCHANGED Promise!vars
  <1>1. CASE message_slot_init
    <2>1. UNCHANGED <<slotVs, heap, files, pc, locals, answer>>
      BY <1>1 DEF message_slot_init
    <2>2. \A m \in Minor, c \in ChannelIds : LastMessage(m, c)' = LastMessage(m, c)
      BY <2>1 DEF LastMessage, Pending, Stored, ChannelIdOf, slotVs, files, locals
    <2> QED BY <2>1, <2>2 DEF Promise!vars, ChannelIds, files
  <1>2. CASE message_slot_cleanup
    <2>1. /\ UNCHANGED <<files, answer>> /\ \A p \in Process : pc'[p] = "idle"
          /\ \A m \in Minor : message_slots'[m] = NULL
      BY <1>2 DEF message_slot_cleanup
    <2>2. ASSUME NEW m \in Minor, NEW c \in ChannelIds
          PROVE  LastMessage(m, c)' = NULL
      <3>1. Pending(m, c)' = {}
        BY <2>1 DEF Pending
      <3>2. Stored(m, c)' = {}
        BY <2>1 DEF Stored
      <3> QED BY <3>1, <3>2, LastIs
    <2>3. Promise!Unload
      BY <2>1, <2>2 DEF Promise!Unload, Promise!Empty, ChannelIds, files
    <2> QED BY <2>3 DEF Promise!Next
  <1> QED BY <1>1, <1>2

\* Calls that do not overlap implement the message slot, for every number of processes,
\* slots, channels and messages: a write takes effect when its copy is made, a call that
\* fails changes no message, and a read answers with the last message of the slot and
\* channel its caller chose (message_slot.c:101-245).
THEOREM DriverKeepsPromise ==
  ASSUME Fitting
  PROVE  Spec => KeepsPromise
  <1>1. Init => Promise!Init
    <2> SUFFICES ASSUME Init
                 PROVE  Promise!Init
      OBVIOUS
    <2>1. ASSUME NEW m \in Minor, NEW c \in ChannelIds
          PROVE  LastMessage(m, c) = NULL
      <3>1. Pending(m, c) = {} /\ Stored(m, c) = {}
        BY DEF Init, Pending, Stored
      <3> QED BY <3>1, LastIs
    <2> QED BY <2>1 DEF Init, Promise!Init, Promise!Empty, ChannelIds
  <1>2. /\ IInv /\ (serial => SInv) /\ [Next]_vars
        => [serial => Promise!Next]_(Promise!vars)
    <2> SUFFICES ASSUME IInv, SInv, serial, [Next]_vars
                 PROVE  Promise!Next \/ UNCHANGED Promise!vars
      OBVIOUS
    <2>1. CASE Next
      BY <2>1, StepPromises, ModulePromises DEF Next, IInv
    <2>2. CASE UNCHANGED vars
      <3>1. \A m \in Minor, c \in ChannelIds : LastMessage(m, c)' = LastMessage(m, c)
        BY <2>2 DEF LastMessage, Pending, Stored, ChannelIdOf, vars
      <3> QED BY <2>2, <3>1 DEF Promise!vars, ChannelIds, vars
    <2> QED BY <2>1, <2>2
  <1> QED BY <1>1, <1>2, SerialInvariant, PTL DEF Spec, KeepsPromise

-----------------------------------------------------------------------------
(* The C++ driver: its calls do not overlap, and each is one step.          *)

CppChannel == [id : 0..(UINT - 1), msg : Message \cup {Mixed}, msg_length : Nat]

\* The list of a device: one channel to an id.
CppList(d) ==
  /\ d \in Seq(CppChannel)
  /\ \A k, l \in 1..Len(d) : d[k].id = d[l].id => k = l

\* The message kept for a channel in such a list.
CppLast(d, c) ==
  LET written == {k \in DOMAIN d : d[k].id = c /\ d[k].msg_length # 0}
  IN IF written = {} THEN NULL ELSE d[Cpp!First(written)].msg

CppInv ==
  /\ minor2 \in [Process -> Minor \cup {NULL}]
  /\ private_data2 \in [Process -> {0} \cup Param]
  /\ devices2 \in [Minor -> {NULL} \cup Seq(CppChannel)]
  /\ \A m \in Minor : devices2[m] # NULL => CppList(devices2[m])
  /\ \A p \in Process : minor2[p] # NULL => devices2[minor2[p]] # NULL

LEMMA CppNotNull == \A d \in Seq(CppChannel) : d # NULL
  <1>1. UINT \in Nat
    BY ConstantsAssumption
  <1>2. CppChannel \subseteq [id : Nat, msg : Message \cup {Mixed}, msg_length : Nat]
    BY <1>1 DEF CppChannel
  <1>3. Seq(CppChannel) \subseteq Seq([id : Nat, msg : Message \cup {Mixed}, msg_length : Nat])
    BY <1>2, SeqMonotonic
  <1> QED BY <1>3, CppAssumption DEF Cpp!SlotAssumption

LEMMA CppFirst ==
  ASSUME NEW k \in Nat
  PROVE  Cpp!First({k}) = k
  BY DEF Cpp!First

LEMMA CppLastIs ==
  ASSUME NEW d, CppList(d), NEW c
  PROVE  /\ \A k \in 1..Len(d) : d[k].id = c =>
              CppLast(d, c) = IF d[k].msg_length = 0 THEN NULL ELSE d[k].msg
         /\ (\A k \in 1..Len(d) : d[k].id # c) => CppLast(d, c) = NULL
  <1> DEFINE written == {k \in DOMAIN d : d[k].id = c /\ d[k].msg_length # 0}
  <1>1. DOMAIN d = 1..Len(d) /\ Len(d) \in Nat
    BY DEF CppList
  <1>2. CppLast(d, c) = IF written = {} THEN NULL ELSE d[Cpp!First(written)].msg
    BY DEF CppLast
  <1>3. ASSUME NEW k \in 1..Len(d), d[k].id = c
        PROVE  CppLast(d, c) = IF d[k].msg_length = 0 THEN NULL ELSE d[k].msg
    <2>1. \A l \in written : l = k
      BY <1>1, <1>3 DEF CppList
    <2>2. CASE d[k].msg_length = 0
      <3>1. written = {}
        BY <2>1, <2>2
      <3> QED BY <1>2, <2>2, <3>1
    <2>3. CASE d[k].msg_length # 0
      <3>1. written = {k}
        BY <1>1, <1>3, <2>1, <2>3
      <3>2. Cpp!First({k}) = k
        BY <1>1, CppFirst
      <3> HIDE DEF written
      <3> QED BY <1>2, <2>3, <3>1, <3>2
    <2> QED BY <2>2, <2>3
  <1>4. ASSUME \A k \in 1..Len(d) : d[k].id # c PROVE CppLast(d, c) = NULL
    <2>1. written = {}
      BY <1>1, <1>4
    <2> QED BY <1>2, <2>1
  <1> QED BY <1>3, <1>4

LEMMA CppLastMessage ==
  \A m, c : Cpp!LastMessage(m, c) = IF devices2[m] = NULL THEN NULL ELSE CppLast(devices2[m], c)
  BY DEF Cpp!LastMessage, CppLast

LEMMA CppLastMessageNext ==
  \A m, c : Cpp!LastMessage(m, c)'
              = IF devices2'[m] = NULL THEN NULL ELSE CppLast(devices2'[m], c)
  BY DEF Cpp!LastMessage, CppLast

\* What writeSetup makes of a device's list, and where the channel is.
CppSetup(p, s, k) ==
  /\ CppList(s) /\ k \in 1..Len(s) /\ s[k].id = private_data2[p]
  /\ \A c : CppLast(s, c) = CppLast(devices2[minor2[p]], c)

LEMMA CppMatch ==
  ASSUME CppInv, Fitting, NEW p \in Process, minor2[p] # NULL
  PROVE  /\ CppList(devices2[minor2[p]])
         /\ Cpp!ChannelIdOf(p) = private_data2[p] /\ private_data2[p] \in 0..(UINT - 1)
         /\ minor2[p] \in Minor
         /\ Cpp!Matches(p) # {} =>
              /\ Cpp!First(Cpp!Matches(p)) \in 1..Len(devices2[minor2[p]])
              /\ devices2[minor2[p]][Cpp!First(Cpp!Matches(p))].id = private_data2[p]
         /\ Cpp!Matches(p) = {} =>
              \A k \in 1..Len(devices2[minor2[p]]) :
                devices2[minor2[p]][k].id # private_data2[p]
  <1> DEFINE d == devices2[minor2[p]]
  <1>1. minor2[p] \in Minor /\ d # NULL /\ CppList(d)
    BY DEF CppInv
  <1>2. private_data2[p] \in 0..(UINT - 1)
    <2>1. private_data2[p] \in {0} \cup Param
      BY DEF CppInv
    <2>2. \A c \in {0} \cup Param : c \in 0..(UINT - 1)
      BY ConstantsAssumption DEF Fitting
    <2> QED BY <2>1, <2>2
  <1>3. Cpp!ChannelIdOf(p) = private_data2[p]
    BY <1>2, ConstantsAssumption DEF Cpp!ChannelIdOf
  <1>4. DOMAIN d = 1..Len(d) /\ Len(d) \in Nat
    BY <1>1 DEF CppList
  <1>5. Cpp!Matches(p) = {k \in 1..Len(d) : d[k].id = private_data2[p]}
    <2>1. Cpp!Matches(p) = {k \in DOMAIN d : d[k].id = Cpp!ChannelIdOf(p)}
      BY DEF Cpp!Matches
    <2> HIDE DEF d
    <2> QED BY <1>3, <1>4, <2>1
  <1>6. ASSUME NEW k \in Cpp!Matches(p)
        PROVE  /\ Cpp!First(Cpp!Matches(p)) \in 1..Len(d)
               /\ d[Cpp!First(Cpp!Matches(p))].id = private_data2[p]
    <2>1. Cpp!Matches(p) = {k}
      BY <1>1, <1>5, <1>6 DEF CppList
    <2>2. k \in Nat /\ k \in 1..Len(d) /\ d[k].id = private_data2[p]
      BY <1>4, <1>5, <1>6
    <2>3. Cpp!First({k}) = k
      BY <2>2, CppFirst
    <2> QED BY <2>1, <2>2, <2>3
  <1> QED BY <1>1, <1>2, <1>3, <1>5, <1>6

LEMMA CppSetupIs ==
  ASSUME CppInv, Fitting, NEW p \in Process, minor2[p] # NULL
  PROVE  CppSetup(p, Cpp!writeSetup(p).channels, Cpp!writeSetup(p).k)
  <1> DEFINE d == devices2[minor2[p]]
             id == private_data2[p]
             new == [id |-> id, msg |-> Mixed, msg_length |-> 0]
             s == <<new>> \o d
  <1>1. CASE Cpp!Matches(p) # {}
    <2>1. Cpp!writeSetup(p).channels = d /\ Cpp!writeSetup(p).k = Cpp!First(Cpp!Matches(p))
      BY <1>1 DEF Cpp!writeSetup
    <2> QED BY <1>1, <2>1, CppMatch DEF CppSetup
  <1>2. CASE Cpp!Matches(p) = {}
    <2>1. Cpp!ChannelIdOf(p) = id /\ id \in 0..(UINT - 1) /\ CppList(d)
          /\ \A k \in 1..Len(d) : d[k].id # id
      BY <1>2, CppMatch
    <2>2. Cpp!writeSetup(p).channels = s /\ Cpp!writeSetup(p).k = 1
      BY <1>2, <2>1 DEF Cpp!writeSetup
    <2> HIDE DEF d, id
    <2>3. new \in CppChannel /\ new.id = id /\ new.msg_length = 0
      BY <2>1 DEF CppChannel
    <2> HIDE DEF new
    <2>4. /\ s \in Seq(CppChannel) /\ Len(s) = Len(d) + 1 /\ Len(d) \in Nat
          /\ s[1] = new /\ \A j \in 1..Len(d) : s[j + 1] = d[j]
      <3>1. d \in Seq(CppChannel) /\ <<new>> \in Seq(CppChannel)
        BY <2>1, <2>3 DEF CppList
      <3>2. Len(<<new>>) = 1 /\ <<new>>[1] = new
        OBVIOUS
      <3>3. /\ s \in Seq(CppChannel) /\ Len(s) = 1 + Len(d) /\ Len(d) \in Nat
            /\ \A k \in 1..(1 + Len(d)) : s[k] = IF k <= 1 THEN <<new>>[k] ELSE d[k - 1]
        BY <3>1, <3>2, ConcatProperties
      <3> HIDE DEF s
      <3>4. s[1] = new
        BY <3>2, <3>3
      <3>5. ASSUME NEW j \in 1..Len(d) PROVE s[j + 1] = d[j]
        <4>1. j + 1 \in 1..(1 + Len(d)) /\ ~ (j + 1 <= 1) /\ (j + 1) - 1 = j
          BY <3>3
        <4> QED BY <3>3, <4>1
      <3> QED BY <3>3, <3>4, <3>5
    <2> HIDE DEF s
    <2>5. ASSUME NEW k \in 1..Len(s)
          PROVE  k = 1 \/ \E j \in 1..Len(d) : k = j + 1 /\ s[k] = d[j]
      <3>1. k = 1 \/ (k - 1 \in 1..Len(d) /\ k = (k - 1) + 1)
        BY <2>4
      <3> QED BY <2>4, <3>1
    <2>6. CppList(s)
      <3>1. \A k, l \in 1..Len(d) : d[k].id = d[l].id => k = l
        BY <2>1 DEF CppList
      <3>2. ASSUME NEW k \in 1..Len(s), NEW l \in 1..Len(s), s[k].id = s[l].id PROVE k = l
        <4>1. CASE k = 1 \/ l = 1
          <5>1. \A j \in 1..Len(s) : j # 1 => s[j].id # id
            BY <2>1, <2>5
          <5>2. s[1].id = id
            BY <2>3, <2>4
          <5> QED BY <3>2, <4>1, <5>1, <5>2
        <4>2. CASE k # 1 /\ l # 1
          <5>1. PICK i \in 1..Len(d) : k = i + 1 /\ s[k] = d[i]
            BY <2>5, <4>2
          <5>2. PICK j \in 1..Len(d) : l = j + 1 /\ s[l] = d[j]
            BY <2>5, <4>2
          <5> QED BY <3>1, <3>2, <5>1, <5>2
        <4> QED BY <4>1, <4>2
      <3> QED BY <2>4, <3>2 DEF CppList
    <2>7. ASSUME NEW c PROVE CppLast(s, c) = CppLast(d, c)
      <3>1. 1 \in 1..Len(s) /\ \A j \in 1..Len(d) : j + 1 \in 1..Len(s)
        BY <2>4
      <3>2. CASE c = id
        <4>1. CppLast(d, c) = NULL
          BY <2>1, <3>2, CppLastIs
        <4>2. CppLast(s, c) = IF s[1].msg_length = 0 THEN NULL ELSE s[1].msg
          BY <2>3, <2>4, <2>6, <3>1, <3>2, CppLastIs
        <4> QED BY <2>3, <2>4, <4>1, <4>2
      <3>3. CASE c # id /\ \E j \in 1..Len(d) : d[j].id = c
        <4>1. PICK j \in 1..Len(d) : d[j].id = c
          BY <3>3
        <4>2. CppLast(d, c) = IF d[j].msg_length = 0 THEN NULL ELSE d[j].msg
          BY <2>1, <4>1, CppLastIs
        <4>3. s[j + 1] = d[j] /\ j + 1 \in 1..Len(s)
          BY <2>4, <3>1
        <4>4. CppLast(s, c) = IF s[j + 1].msg_length = 0 THEN NULL ELSE s[j + 1].msg
          BY <2>6, <4>1, <4>3, CppLastIs
        <4> QED BY <4>2, <4>3, <4>4
      <3>4. CASE c # id /\ \A j \in 1..Len(d) : d[j].id # c
        <4>1. \A k \in 1..Len(s) : s[k].id # c
          BY <2>3, <2>4, <2>5, <3>4
        <4> QED BY <2>1, <2>6, <3>4, <4>1, CppLastIs
      <3> QED BY <3>2, <3>3, <3>4
    <2>8. s[1].id = id /\ 1 \in 1..Len(s)
      BY <2>3, <2>4
    <2> QED BY <2>2, <2>6, <2>7, <2>8 DEF CppSetup, d, id
  <1> QED BY <1>1, <1>2

CppPut(s, k, w) == [s EXCEPT ![k] = w]
CppFill(s, k, m, n) == [s EXCEPT ![k].msg = m, ![k].msg_length = n]
CppTear(s, k) == [s EXCEPT ![k].msg = Mixed]

\* The store of a write's message and length, field by field, is that of a whole channel.
LEMMA CppFilled ==
  ASSUME NEW s \in Seq(CppChannel), NEW k \in 1..Len(s), NEW m \in Message, NEW n \in Nat
  PROVE  CppFill(s, k, m, n) = CppPut(s, k, [id |-> s[k].id, msg |-> m, msg_length |-> n])
  <1> DEFINE half == [id |-> s[k].id, msg |-> m, msg_length |-> s[k].msg_length]
  <1>1. \A r \in CppChannel :
          [r EXCEPT !.msg = m] = [id |-> r.id, msg |-> m, msg_length |-> r.msg_length]
    BY DEF CppChannel
  <1>2. s[k] \in CppChannel /\ [s[k] EXCEPT !.msg = m] = half
    BY <1>1
  <1>3. [half EXCEPT !.msg_length = n] = [id |-> s[k].id, msg |-> m, msg_length |-> n]
    OBVIOUS
  <1>4. [s EXCEPT ![k].msg = m, ![k].msg_length = n]
          = [s EXCEPT ![k] = [[s[k] EXCEPT !.msg = m] EXCEPT !.msg_length = n]]
    OBVIOUS
  <1> QED BY <1>2, <1>3, <1>4 DEF CppFill, CppPut

LEMMA CppPart ==
  ASSUME NEW r \in CppChannel, NEW m \in Message \cup {Mixed}
  PROVE  [r EXCEPT !.msg = m] = [id |-> r.id, msg |-> m, msg_length |-> r.msg_length]
  BY DEF CppChannel

\* So is that of part of a message.
LEMMA CppTorn ==
  ASSUME NEW s \in Seq(CppChannel), NEW k \in 1..Len(s)
  PROVE  CppTear(s, k)
           = CppPut(s, k, [id |-> s[k].id, msg |-> Mixed, msg_length |-> s[k].msg_length])
  <1>1. s[k] \in CppChannel
    OBVIOUS
  <1>2. [s EXCEPT ![k].msg = Mixed] = [s EXCEPT ![k] = [s[k] EXCEPT !.msg = Mixed]]
    OBVIOUS
  <1>3. [s[k] EXCEPT !.msg = Mixed] = [id |-> s[k].id, msg |-> Mixed, msg_length |-> s[k].msg_length]
    BY <1>1, CppPart
  <1> QED BY <1>2, <1>3 DEF CppTear, CppPut

\* What is put into the channel at k of a list: the only message that changes.
LEMMA CppWritten ==
  ASSUME NEW s, CppList(s), NEW k \in 1..Len(s), NEW written \in CppChannel,
         written.id = s[k].id
  PROVE  LET d == CppPut(s, k, written) IN
         /\ CppList(d)
         /\ CppLast(d, s[k].id) = IF written.msg_length = 0 THEN NULL ELSE written.msg
         /\ \A c : c # s[k].id => CppLast(d, c) = CppLast(s, c)
  <1> DEFINE d == CppPut(s, k, written)
  <1>1. s \in Seq(CppChannel) /\ DOMAIN s = 1..Len(s) /\ Len(s) \in Nat
    BY DEF CppList
  <1>5. d \in Seq(CppChannel) /\ Len(d) = Len(s) /\ d[k] = written
        /\ \A j \in 1..Len(s) : j # k => d[j] = s[j]
    BY <1>1, ExceptSeq DEF CppPut
  <1> HIDE DEF d
  <1>6. \A j \in 1..Len(s) : d[j].id = s[j].id
    BY <1>5
  <1>7. CppList(d)
    <2>1. \A j, l \in 1..Len(d) : d[j].id = d[l].id => j = l
      BY <1>5, <1>6 DEF CppList
    <2> QED BY <1>5, <2>1 DEF CppList
  <1>8. CppLast(d, s[k].id) = IF written.msg_length = 0 THEN NULL ELSE written.msg
    <2>1. d[k].id = s[k].id /\ k \in 1..Len(d)
      BY <1>5, <1>6
    <2>2. CppLast(d, s[k].id) = IF d[k].msg_length = 0 THEN NULL ELSE d[k].msg
      BY <1>7, <2>1, CppLastIs
    <2> QED BY <1>5, <2>2
  <1>9. ASSUME NEW c, c # s[k].id PROVE CppLast(d, c) = CppLast(s, c)
    <2>1. CASE \E j \in 1..Len(s) : s[j].id = c
      <3>1. PICK j \in 1..Len(s) : s[j].id = c
        BY <2>1
      <3>2. d[j] = s[j] /\ d[j].id = c /\ j \in 1..Len(d)
        BY <1>5, <1>6, <1>9, <3>1
      <3>3. CppLast(s, c) = IF s[j].msg_length = 0 THEN NULL ELSE s[j].msg
        BY <3>1, CppLastIs
      <3>4. CppLast(d, c) = IF d[j].msg_length = 0 THEN NULL ELSE d[j].msg
        BY <1>7, <3>2, CppLastIs
      <3> QED BY <3>2, <3>3, <3>4
    <2>2. CASE \A j \in 1..Len(s) : s[j].id # c
      <3>1. \A j \in 1..Len(d) : d[j].id # c
        BY <1>5, <1>6, <2>2
      <3> QED BY <1>7, <2>2, <3>1, CppLastIs
    <2> QED BY <2>1, <2>2
  <1> QED BY <1>7, <1>8, <1>9 DEF d

\* A step that leaves the files alone and gives one device another list.
LEMMA CppRelisted ==
  ASSUME CppInv, NEW m \in Minor, NEW d, CppList(d),
         devices2' = [devices2 EXCEPT ![m] = d], UNCHANGED <<minor2, private_data2>>
  PROVE  /\ CppInv'
         /\ \A n \in Minor : \A c : n # m => Cpp!LastMessage(n, c)' = Cpp!LastMessage(n, c)
         /\ \A n \in Minor : \A c : n = m => Cpp!LastMessage(n, c)' = CppLast(d, c)
  <1>1. d \in Seq(CppChannel) /\ d # NULL
    BY CppNotNull DEF CppList
  <1>2. devices2'[m] = d /\ \A n \in Minor : n # m => devices2'[n] = devices2[n]
    BY DEF CppInv
  <1>3. devices2' \in [Minor -> {NULL} \cup Seq(CppChannel)]
    BY <1>1 DEF CppInv
  <1>4. \A n \in Minor : devices2'[n] # NULL => CppList(devices2'[n])
    BY <1>2 DEF CppInv
  <1>5. \A p \in Process : minor2[p] # NULL => devices2'[minor2[p]] # NULL
    BY <1>1, <1>2 DEF CppInv
  <1>6. CppInv'
    BY <1>3, <1>4, <1>5 DEF CppInv
  <1> QED BY <1>1, <1>2, <1>6, CppLastMessage, CppLastMessageNext

CppSame == \A m \in Minor, c \in ChannelIds : Cpp!LastMessage(m, c)' = Cpp!LastMessage(m, c)

LEMMA CppFilesKept ==
  ASSUME CppInv, UNCHANGED <<devices2, minor2, private_data2>>
  PROVE  CppInv' /\ CppSame
  BY CppLastMessage, CppLastMessageNext DEF CppInv, CppSame

\* A call that returns, having changed no message.
LEMMA CppReturns ==
  ASSUME CppSame, UNCHANGED <<minor2, private_data2>>, NEW p \in Process,
         NEW r \in Cpp!Errors \cup {"done"}, answer2' = [answer2 EXCEPT ![p] = r]
  PROVE  Cpp!Promise!Next
  BY DEF CppSame, ChannelIds, Cpp!Promise!Next, Cpp!Promise!Return

LEMMA CppFails ==
  ASSUME CppInv, NEW p \in Process, NEW r \in Cpp!Errors, Cpp!Fail(p, r)
  PROVE  CppInv' /\ Cpp!Promise!Next
  BY CppFilesKept, CppReturns DEF Cpp!Fail, Cpp!Return

\* A call that chooses another file or channel.
LEMMA CppChooses ==
  ASSUME CppSame, NEW p \in Process, answer2' = [answer2 EXCEPT ![p] = "done"],
         \A q \in Process \ {p} : minor2'[q] = minor2[q] /\ private_data2'[q] = private_data2[q]
  PROVE  Cpp!Promise!Next
  BY DEF CppSame, ChannelIds, Cpp!Promise!Next, Cpp!Promise!Choose

LEMMA CppOpen ==
  ASSUME CppInv, NEW p \in Process, NEW m \in Minor, Cpp!device_open(p, m)
  PROVE  CppInv' /\ Cpp!Promise!Next
  <1>1. CASE Cpp!Fail(p, "ENOMEM")
    BY <1>1, CppFails DEF Cpp!Errors
  <1>2. CASE /\ devices2' = [devices2 EXCEPT ![m] = IF @ = NULL THEN <<>> ELSE @]
             /\ minor2' = [minor2 EXCEPT ![p] = m]
             /\ Cpp!Return(p, "done")
             /\ UNCHANGED <<loaded2, private_data2>>
    <2>1. <<>> \in Seq(CppChannel) /\ Len(<<>>) = 0
      BY EmptySeq
    <2>2. CppList(<<>>) /\ <<>> # NULL
      <3> DEFINE none == <<>>
      <3>1. none \in Seq(CppChannel) /\ 1..Len(none) = {}
        BY <2>1
      <3> HIDE DEF none
      <3>2. CppList(none)
        BY <3>1 DEF CppList
      <3>3. none # NULL
        BY <3>1, CppNotNull
      <3> QED BY <3>2, <3>3 DEF none
    <2>3. /\ devices2'[m] = IF devices2[m] = NULL THEN <<>> ELSE devices2[m]
          /\ \A n \in Minor : n # m => devices2'[n] = devices2[n]
          /\ devices2' \in [Minor -> {NULL} \cup Seq(CppChannel)]
      BY <1>2, <2>1 DEF CppInv
    <2>4. /\ minor2'[p] = m /\ minor2' \in [Process -> Minor \cup {NULL}]
          /\ \A q \in Process : q # p => minor2'[q] = minor2[q]
      BY <1>2 DEF CppInv
    <2>5. \A c : CppLast(<<>>, c) = NULL
      BY <2>1, <2>2, CppLastIs
    <2>6. CppSame
      BY <2>2, <2>3, <2>5, CppLastMessage, CppLastMessageNext DEF CppSame
    <2>7. \A q \in Process : minor2'[q] # NULL => devices2'[minor2'[q]] # NULL
      <3>1. ASSUME NEW q \in Process, minor2'[q] # NULL PROVE devices2'[minor2'[q]] # NULL
        <4>1. CASE q = p
          BY <2>2, <2>3, <2>4, <4>1
        <4>2. CASE q # p
          BY <2>2, <2>3, <2>4, <3>1, <4>2 DEF CppInv
        <4> QED BY <4>1, <4>2
      <3> QED BY <3>1
    <2>8. \A n \in Minor : devices2'[n] # NULL => CppList(devices2'[n])
      BY <2>2, <2>3 DEF CppInv
    <2>9. CppInv'
      BY <1>2, <2>3, <2>4, <2>7, <2>8 DEF CppInv
    <2> QED BY <1>2, <2>4, <2>6, <2>9, CppChooses DEF Cpp!Return
  <1> QED BY <1>1, <1>2 DEF Cpp!device_open

LEMMA CppClose ==
  ASSUME CppInv, NEW p \in Process, Cpp!close(p)
  PROVE  CppInv' /\ Cpp!Promise!Next
  <1>1. /\ minor2' = [minor2 EXCEPT ![p] = NULL]
        /\ private_data2' = [private_data2 EXCEPT ![p] = 0]
        /\ answer2' = [answer2 EXCEPT ![p] = "done"] /\ devices2' = devices2
    BY DEF Cpp!close, Cpp!Return
  <1>2. CppSame
    BY <1>1, CppLastMessage, CppLastMessageNext DEF CppSame
  <1>3. /\ minor2' \in [Process -> Minor \cup {NULL}]
        /\ private_data2' \in [Process -> {0} \cup Param]
        /\ \A q \in Process : q # p => minor2'[q] = minor2[q] /\ private_data2'[q] = private_data2[q]
        /\ minor2'[p] = NULL
    BY <1>1 DEF CppInv
  <1>4. \A q \in Process : minor2'[q] # NULL => devices2[minor2'[q]] # NULL
    BY <1>3 DEF CppInv
  <1>5. CppInv'
    BY <1>1, <1>3, <1>4 DEF CppInv
  <1> QED BY <1>1, <1>2, <1>3, <1>5, CppChooses

LEMMA CppIoctl ==
  ASSUME CppInv, NEW p \in Process, NEW known \in BOOLEAN, NEW param \in Param,
         Cpp!device_ioctl(p, known, param)
  PROVE  CppInv' /\ Cpp!Promise!Next
  <1>1. CASE Cpp!Fail(p, "EINVAL")
    BY <1>1, CppFails DEF Cpp!Errors
  <1>2. CASE /\ private_data2' = [private_data2 EXCEPT ![p] = param]
             /\ Cpp!Return(p, "done")
             /\ UNCHANGED <<loaded2, devices2, minor2>>
    <2>1. CppSame
      BY <1>2, CppLastMessage, CppLastMessageNext DEF CppSame
    <2>2. /\ private_data2' \in [Process -> {0} \cup Param]
          /\ \A q \in Process : q # p => private_data2'[q] = private_data2[q]
      BY <1>2 DEF CppInv
    <2>3. CppInv'
      BY <1>2, <2>2 DEF CppInv
    <2> QED BY <1>2, <2>1, <2>2, <2>3, CppChooses DEF Cpp!Return
  <1> QED BY <1>1, <1>2 DEF Cpp!device_ioctl

LEMMA CppWrite ==
  ASSUME CppInv, Fitting, NEW p \in Process, NEW m \in Message, Cpp!device_write(p, m)
  PROVE  CppInv' /\ Cpp!Promise!Next
  <1> DEFINE s == Cpp!writeSetup(p).channels
             k == Cpp!writeSetup(p).k
             full == [s EXCEPT ![k].msg = m, ![k].msg_length = Length[m]]
             torn == CppTear(s, k)
  <1>1. CASE Cpp!Fail(p, "EINVAL") \/ Cpp!Fail(p, "ENOMEM")
    BY <1>1, CppFails DEF Cpp!Errors
  <1>2. minor2[p] # NULL /\ minor2[p] \in Minor
    BY DEF Cpp!device_write, Cpp!HasFile, CppInv
  <1>3. CppSetup(p, s, k)
    BY <1>2, CppSetupIs
  <1>4. \A c : Cpp!LastMessage(minor2[p], c) = CppLast(devices2[minor2[p]], c)
    BY <1>2, CppLastMessage DEF CppInv
  <1>5. CASE /\ devices2' = [devices2 EXCEPT ![minor2[p]] = s]
             /\ UNCHANGED <<minor2, private_data2>>
             /\ \E r \in Cpp!Errors : Cpp!Return(p, r)
    <2> HIDE DEF s, k
    <2>1. /\ CppInv'
          /\ \A n \in Minor : \A c : n # minor2[p] => Cpp!LastMessage(n, c)' = Cpp!LastMessage(n, c)
          /\ \A n \in Minor : \A c : n = minor2[p] => Cpp!LastMessage(n, c)' = CppLast(s, c)
      <3>1. /\ minor2[p] \in Minor /\ CppList(s)
            /\ devices2' = [devices2 EXCEPT ![minor2[p]] = s]
            /\ UNCHANGED <<minor2, private_data2>>
        BY <1>2, <1>5, <1>3 DEF CppSetup
      <3>2. /\ CppInv'
            /\ \A n \in Minor : \A c : n # minor2[p] => Cpp!LastMessage(n, c)' = Cpp!LastMessage(n, c)
            /\ \A n \in Minor : \A c : n = minor2[p] => Cpp!LastMessage(n, c)' = CppLast(s, c)
        BY <3>1, CppRelisted
      <3> QED BY <3>2
    <2>2. CppSame
      <3>1. ASSUME NEW n \in Minor, NEW c \in ChannelIds
            PROVE  Cpp!LastMessage(n, c)' = Cpp!LastMessage(n, c)
        <4>1. CASE n # minor2[p]
          BY <2>1, <4>1
        <4>2. CASE n = minor2[p]
          <5>1. CppLast(s, c) = CppLast(devices2[minor2[p]], c)
            BY <1>3 DEF CppSetup
          <5> QED BY <1>4, <2>1, <4>2, <5>1
        <4> QED BY <4>1, <4>2
      <3> QED BY <3>1 DEF CppSame
    <2> QED BY <1>5, <2>1, <2>2, CppReturns DEF Cpp!Return
  <1>6. CASE /\ devices2' = [devices2 EXCEPT ![minor2[p]] = full]
             /\ UNCHANGED <<minor2, private_data2>>
             /\ private_data2[p] # 0 /\ Length[m] \in 1..MAXIMAL_BUFFER
             /\ Cpp!Return(p, "done")
    <2>1. Length[m] \in Nat \ {0}
      BY <1>6, ConstantsAssumption
    <2> HIDE DEF torn
    <2>2. /\ CppList(full)
          /\ CppLast(full, private_data2[p]) = m
          /\ \A c : c # private_data2[p] => CppLast(full, c) = CppLast(devices2[minor2[p]], c)
      <3> HIDE DEF s, k
      <3>1. CppList(s) /\ k \in 1..Len(s) /\ s[k].id = private_data2[p]
            /\ \A c : CppLast(s, c) = CppLast(devices2[minor2[p]], c)
        BY <1>3 DEF CppSetup
      <3> DEFINE written == [id |-> s[k].id, msg |-> m, msg_length |-> Length[m]]
      <3>2. s \in Seq(CppChannel) /\ s[k] \in CppChannel
        BY <3>1 DEF CppList
      <3>3. full = CppPut(s, k, written)
        BY <2>1, <3>1, <3>2, CppFilled DEF CppFill
      <3>4. /\ written \in CppChannel /\ written.id = s[k].id
            /\ written.msg = m /\ written.msg_length = Length[m]
        BY <2>1, <3>2 DEF CppChannel
      <3> HIDE DEF full, written
      <3>5. /\ CppList(full) /\ CppLast(full, s[k].id) = m
            /\ \A c : c # s[k].id => CppLast(full, c) = CppLast(s, c)
        BY <2>1, <3>1, <3>3, <3>4, CppWritten
      <3> QED BY <3>1, <3>5
    <2> HIDE DEF full
    <2>3. /\ CppInv'
          /\ \A n \in Minor : \A c : n # minor2[p] => Cpp!LastMessage(n, c)' = Cpp!LastMessage(n, c)
          /\ \A n \in Minor : \A c : n = minor2[p] => Cpp!LastMessage(n, c)' = CppLast(full, c)
      <3>1. /\ minor2[p] \in Minor /\ CppList(full)
            /\ devices2' = [devices2 EXCEPT ![minor2[p]] = full]
            /\ UNCHANGED <<minor2, private_data2>>
        BY <1>2, <1>6, <2>2
      <3>2. /\ CppInv'
            /\ \A n \in Minor : \A c : n # minor2[p] => Cpp!LastMessage(n, c)' = Cpp!LastMessage(n, c)
            /\ \A n \in Minor : \A c : n = minor2[p] => Cpp!LastMessage(n, c)' = CppLast(full, c)
        BY <3>1, CppRelisted
      <3> QED BY <3>2
    <2>4. private_data2[p] \in ChannelIds
      BY <1>6 DEF CppInv, ChannelIds
    <2>5. ASSUME NEW n \in Minor, NEW c \in ChannelIds
          PROVE  /\ n = minor2[p] /\ c = private_data2[p] => Cpp!LastMessage(n, c)' = m
                 /\ n # minor2[p] \/ c # private_data2[p] =>
                      Cpp!LastMessage(n, c)' = Cpp!LastMessage(n, c)
      BY <1>4, <2>2, <2>3
    <2>6. Cpp!Promise!Write(p, m)
      <3> DEFINE Old == [mc \in Minor \X (Param \ {0}) |-> Cpp!LastMessage(mc[1], mc[2])]
                 New == [mc \in Minor \X (Param \ {0}) |-> Cpp!LastMessage(mc[1], mc[2])']
                 here == <<minor2[p], private_data2[p]>>
                 chosen == [q \in Process |-> <<minor2[q], private_data2[q]>>]
      <3>1. here \in Minor \X (Param \ {0}) /\ chosen[p] = here
        BY <1>2, <2>4 DEF ChannelIds
      <3>2. \A mc \in Minor \X (Param \ {0}) :
              /\ mc = here => New[mc] = m
              /\ mc # here => New[mc] = Old[mc]
        BY <2>5 DEF ChannelIds
      <3>3. New = [Old EXCEPT ![here] = m]
        <4>1. Old = [mc \in Minor \X (Param \ {0}) |-> Old[mc]]
              /\ New = [mc \in Minor \X (Param \ {0}) |-> New[mc]]
          OBVIOUS
        <4> HIDE DEF Old, New, here
        <4> QED BY <3>1, <3>2, <4>1
      <3>4. New = [Old EXCEPT ![chosen[p]] = m]
        BY <3>1, <3>3
      <3>5. chosen[p] \in Minor \X (Param \ {0})
        BY <3>1
      <3> QED BY <1>6, <3>4, <3>5 DEF Cpp!Promise!Write, Cpp!Return
    <2> QED BY <2>3, <2>6 DEF Cpp!Promise!Next
  <1>7. CASE /\ devices2' = [devices2 EXCEPT ![minor2[p]] = torn]
             /\ UNCHANGED <<minor2, private_data2>>
             /\ private_data2[p] # 0
             /\ Cpp!Return(p, "EFAULT")
    <2>1. /\ CppList(torn)
          /\ \/ CppLast(torn, private_data2[p]) = Mixed
                /\ CppLast(devices2[minor2[p]], private_data2[p]) # NULL
             \/ CppLast(torn, private_data2[p]) = CppLast(devices2[minor2[p]], private_data2[p])
          /\ \A c : c # private_data2[p] => CppLast(torn, c) = CppLast(devices2[minor2[p]], c)
      <3> HIDE DEF s, k
      <3>1. CppList(s) /\ k \in 1..Len(s) /\ s[k].id = private_data2[p]
            /\ \A c : CppLast(s, c) = CppLast(devices2[minor2[p]], c)
        BY <1>3 DEF CppSetup
      <3> DEFINE written == [id |-> s[k].id, msg |-> Mixed, msg_length |-> s[k].msg_length]
      <3>2. s \in Seq(CppChannel) /\ s[k] \in CppChannel
        BY <3>1 DEF CppList
      <3>3. torn = CppPut(s, k, written)
        BY <3>1, <3>2, CppTorn
      <3>4. /\ written \in CppChannel /\ written.id = s[k].id
            /\ written.msg = Mixed /\ written.msg_length = s[k].msg_length
        BY <3>2 DEF CppChannel
      <3>5. s[k].msg_length # 0 => s[k].msg # NULL
        BY <3>2, CppAssumption DEF CppChannel, Cpp!SlotAssumption
      <3>6. CppLast(s, s[k].id) = IF s[k].msg_length = 0 THEN NULL ELSE s[k].msg
        BY <3>1, CppLastIs
      <3> HIDE DEF torn, written
      <3>7. /\ CppList(torn)
            /\ CppLast(torn, s[k].id) = IF s[k].msg_length = 0 THEN NULL ELSE Mixed
            /\ \A c : c # s[k].id => CppLast(torn, c) = CppLast(s, c)
        BY <3>1, <3>3, <3>4, CppWritten
      <3> QED BY <3>1, <3>5, <3>6, <3>7
    <2> HIDE DEF torn, full, s, k
    <2>2. /\ CppInv'
          /\ \A n \in Minor : \A c : n # minor2[p] => Cpp!LastMessage(n, c)' = Cpp!LastMessage(n, c)
          /\ \A n \in Minor : \A c : n = minor2[p] => Cpp!LastMessage(n, c)' = CppLast(torn, c)
      <3>1. /\ minor2[p] \in Minor /\ CppList(torn)
            /\ devices2' = [devices2 EXCEPT ![minor2[p]] = torn]
            /\ UNCHANGED <<minor2, private_data2>>
        BY <1>2, <1>7, <2>1
      <3>2. /\ CppInv'
            /\ \A n \in Minor : \A c : n # minor2[p] => Cpp!LastMessage(n, c)' = Cpp!LastMessage(n, c)
            /\ \A n \in Minor : \A c : n = minor2[p] => Cpp!LastMessage(n, c)' = CppLast(torn, c)
        BY <3>1, CppRelisted
      <3> QED BY <3>2
    <2>3. private_data2[p] \in ChannelIds
      BY <1>7 DEF CppInv, ChannelIds
    <2>4. CASE CppLast(torn, private_data2[p]) = CppLast(devices2[minor2[p]], private_data2[p])
      <3>1. ASSUME NEW n \in Minor, NEW c \in ChannelIds
            PROVE  Cpp!LastMessage(n, c)' = Cpp!LastMessage(n, c)
        BY <1>4, <2>1, <2>2, <2>4
      <3>2. CppSame
        BY <3>1 DEF CppSame
      <3> QED BY <1>7, <2>2, <3>2, CppReturns DEF Cpp!Return, Cpp!Errors
    <2>5. CASE /\ CppLast(torn, private_data2[p]) = Mixed
               /\ CppLast(devices2[minor2[p]], private_data2[p]) # NULL
      <3>1. ASSUME NEW n \in Minor, NEW c \in ChannelIds
            PROVE  /\ n = minor2[p] /\ c = private_data2[p] => Cpp!LastMessage(n, c)' = Mixed
                   /\ n # minor2[p] \/ c # private_data2[p] =>
                        Cpp!LastMessage(n, c)' = Cpp!LastMessage(n, c)
        BY <1>4, <2>1, <2>2, <2>5
      <3>2. Cpp!Promise!Tear(p)
        <4> DEFINE Old == [mc \in Minor \X (Param \ {0}) |-> Cpp!LastMessage(mc[1], mc[2])]
                   New == [mc \in Minor \X (Param \ {0}) |-> Cpp!LastMessage(mc[1], mc[2])']
                   here == <<minor2[p], private_data2[p]>>
                   chosen == [q \in Process |-> <<minor2[q], private_data2[q]>>]
        <4>1. here \in Minor \X (Param \ {0}) /\ chosen[p] = here
          BY <1>2, <2>3 DEF ChannelIds
        <4>2. \A mc \in Minor \X (Param \ {0}) :
                /\ mc = here => New[mc] = Mixed
                /\ mc # here => New[mc] = Old[mc]
          BY <3>1 DEF ChannelIds
        <4>3. Old[here] # NULL
          BY <1>4, <2>5, <4>1
        <4>4. New = [Old EXCEPT ![here] = Mixed]
          <5>1. Old = [mc \in Minor \X (Param \ {0}) |-> Old[mc]]
                /\ New = [mc \in Minor \X (Param \ {0}) |-> New[mc]]
            OBVIOUS
          <5> HIDE DEF Old, New, here
          <5> QED BY <4>1, <4>2, <5>1
        <4>5. New = [Old EXCEPT ![chosen[p]] = Mixed] /\ Old[chosen[p]] # NULL
          BY <4>1, <4>3, <4>4
        <4>6. chosen[p] \in Minor \X (Param \ {0})
          BY <4>1
        <4>7. \E r \in Cpp!Errors : answer2' = [answer2 EXCEPT ![p] = r]
          BY <1>7 DEF Cpp!Return, Cpp!Errors
        <4>8. UNCHANGED chosen
          BY <1>7
        <4> QED BY <4>5, <4>6, <4>7, <4>8 DEF Cpp!Promise!Tear
      <3> QED BY <2>2, <3>2 DEF Cpp!Promise!Next
    <2> QED BY <2>1, <2>4, <2>5
  <1> QED BY <1>1, <1>5, <1>6, <1>7 DEF Cpp!device_write, Cpp!Errors, CppTear

LEMMA CppRead ==
  ASSUME CppInv, Fitting, NEW p \in Process, NEW length \in 0..MAXIMAL_BUFFER,
         Cpp!device_read(p, length)
  PROVE  CppInv' /\ Cpp!Promise!Next
  <1> DEFINE d == devices2[minor2[p]]
             k == Cpp!First(Cpp!Matches(p))
  <1>1. CASE \E r \in Cpp!Errors : Cpp!Fail(p, r)
    BY <1>1, CppFails
  <1>2. CASE /\ private_data2[p] # 0 /\ Cpp!Matches(p) # {} /\ d[k].msg_length # 0
             /\ Cpp!Fail(p, d[k].msg) /\ minor2[p] # NULL
    <2>1. CppList(d) /\ k \in 1..Len(d) /\ d[k].id = private_data2[p] /\ minor2[p] \in Minor
      BY <1>2, CppMatch
    <2>2. d[k].msg # NULL
      <3>1. d[k] \in CppChannel
        BY <2>1 DEF CppList
      <3>2. d[k].msg \in Message \cup {Mixed}
        BY <3>1 DEF CppChannel
      <3> QED BY <3>2, CppAssumption DEF Cpp!SlotAssumption
    <2>3. CppLast(d, private_data2[p]) = d[k].msg
      <3> HIDE DEF d, k
      <3> QED BY <1>2, <2>1, CppLastIs
    <2>4. Cpp!LastMessage(minor2[p], private_data2[p]) = d[k].msg
      BY <1>2, <2>3, CppLastMessage DEF CppInv
    <2>5. private_data2[p] \in ChannelIds
      BY <1>2 DEF CppInv, ChannelIds
    <2> HIDE DEF d, k
    <2>6. CppInv' /\ CppSame
      BY <1>2, CppFilesKept DEF Cpp!Fail
    <2>7. Cpp!Promise!Read(p)
      <3> DEFINE Old == [mc \in Minor \X (Param \ {0}) |-> Cpp!LastMessage(mc[1], mc[2])]
                 chosen == [q \in Process |-> <<minor2[q], private_data2[q]>>]
      <3>1. chosen[p] = <<minor2[p], private_data2[p]>> /\ chosen[p] \in Minor \X (Param \ {0})
        BY <2>1, <2>5 DEF ChannelIds
      <3>2. Old[chosen[p]] = d[k].msg
        BY <2>4, <3>1
      <3>3. Old' = Old
        BY <2>6 DEF CppSame, ChannelIds
      <3>4. answer2' = [answer2 EXCEPT ![p] = Old[chosen[p]]] /\ UNCHANGED <<minor2, private_data2>>
        BY <1>2, <3>2 DEF Cpp!Fail, Cpp!Return
      <3> QED BY <2>2, <3>1, <3>2, <3>3, <3>4 DEF Cpp!Promise!Read
    <2> QED BY <2>6, <2>7 DEF Cpp!Promise!Next
  <1> QED BY <1>1, <1>2 DEF Cpp!device_read, Cpp!Errors, Cpp!HasFile

LEMMA CppModule ==
  ASSUME CppInv, Cpp!message_slot_cleanup \/ Cpp!message_slot_init
  PROVE  CppInv' /\ (Cpp!Promise!Next \/ UNCHANGED Cpp!Promise!vars)
  <1>1. CASE Cpp!message_slot_init
    <2>1. CppInv' /\ CppSame /\ UNCHANGED <<minor2, private_data2, answer2>>
      BY <1>1, CppFilesKept DEF Cpp!message_slot_init
    <2> QED BY <2>1 DEF CppSame, ChannelIds, Cpp!Promise!vars
  <1>2. CASE Cpp!message_slot_cleanup
    <2>1. /\ devices2' = [m \in Minor |-> NULL] /\ UNCHANGED <<minor2, private_data2, answer2>>
          /\ \A p \in Process : minor2[p] = NULL
      BY <1>2 DEF Cpp!message_slot_cleanup, Cpp!HasFile
    <2>2. CppInv'
      BY <2>1 DEF CppInv
    <2>3. \A m \in Minor, c \in ChannelIds : Cpp!LastMessage(m, c)' = NULL
      BY <2>1, CppLastMessageNext
    <2>4. Cpp!Promise!Unload
      BY <2>1, <2>3 DEF Cpp!Promise!Unload, Cpp!Promise!Empty, ChannelIds
    <2> QED BY <2>2, <2>4 DEF Cpp!Promise!Next
  <1> QED BY <1>1, <1>2

\* The C++ driver implements the message slot, too, for every number of processes, slots,
\* channels and messages, but for one thing: a write whose copy fails may leave part of
\* its message over the last one of its own channel (message_slot.cpp:146).  The channel
\* a failing write created stays and has no message, no other call that fails changes a
\* message, and a read answers with what the last write left in its own slot and channel
\* (message_slot.cpp:73-209).
THEOREM CppDriverKeepsPromise ==
  ASSUME Fitting
  PROVE  Cpp!Spec => CppKeepsPromise
  <1>1. Cpp!Init => CppInv /\ Cpp!Promise!Init
    <2> SUFFICES ASSUME Cpp!Init PROVE CppInv /\ Cpp!Promise!Init
      OBVIOUS
    <2>1. CppInv
      BY DEF Cpp!Init, CppInv
    <2>2. \A m \in Minor : \A c : Cpp!LastMessage(m, c) = NULL
      BY CppLastMessage DEF Cpp!Init
    <2> QED BY <2>1, <2>2 DEF Cpp!Init, Cpp!Promise!Init, Cpp!Promise!Empty
  <1>2. CppInv /\ [Cpp!Next]_(Cpp!vars) => CppInv' /\ [Cpp!Promise!Next]_(Cpp!Promise!vars)
    <2> SUFFICES ASSUME CppInv, [Cpp!Next]_(Cpp!vars)
                 PROVE  CppInv' /\ (Cpp!Promise!Next \/ UNCHANGED Cpp!Promise!vars)
      OBVIOUS
    <2>1. ASSUME NEW p \in Process, Cpp!close(p) PROVE CppInv' /\ Cpp!Promise!Next
      BY <2>1, CppClose
    <2>2. ASSUME NEW p \in Process, NEW m \in Minor, Cpp!device_open(p, m)
          PROVE  CppInv' /\ Cpp!Promise!Next
      BY <2>2, CppOpen
    <2>3. ASSUME NEW p \in Process, NEW known \in BOOLEAN, NEW param \in Param,
                 Cpp!device_ioctl(p, known, param)
          PROVE  CppInv' /\ Cpp!Promise!Next
      BY <2>3, CppIoctl
    <2>4. ASSUME NEW p \in Process, NEW m \in Message, Cpp!device_write(p, m)
          PROVE  CppInv' /\ Cpp!Promise!Next
      BY <2>4, CppWrite
    <2>5. ASSUME NEW p \in Process, NEW length \in 0..MAXIMAL_BUFFER, Cpp!device_read(p, length)
          PROVE  CppInv' /\ Cpp!Promise!Next
      BY <2>5, CppRead
    <2>6. CASE UNCHANGED Cpp!vars
      <3>1. CppInv' /\ CppSame /\ UNCHANGED <<minor2, private_data2, answer2>>
        BY <2>6, CppFilesKept DEF Cpp!vars
      <3> QED BY <3>1 DEF CppSame, ChannelIds, Cpp!Promise!vars
    <2> QED BY <2>1, <2>2, <2>3, <2>4, <2>5, <2>6, CppModule DEF Cpp!Next
  <1> QED BY <1>1, <1>2, PTL DEF Cpp!Spec, CppKeepsPromise, Cpp!KeepsPromise, Cpp!Promise!Spec
=============================================================================
