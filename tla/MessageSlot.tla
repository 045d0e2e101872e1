----------------------------- MODULE MessageSlot -----------------------------
(***************************************************************************)
(* Operating Systems/ex3/C solution/message_slot.c: a character device     *)
(* driver whose minors are message slots.  A process opens a slot, picks a *)
(* channel with ioctl and then reads or overwrites the channel's message.  *)
(* Every access to shared memory that another call could come between is a *)
(* step of its own; only get_channel runs under the slot's spinlock.       *)
(* In a behaviour with serial = TRUE holds what msgslot.pdf lets the       *)
(* driver assume ("there will not be concurrent system call invocations",  *)
(* 3.1 item 11); in the others calls overlap.                              *)
(***************************************************************************)
EXTENDS Naturals, Sequences, FiniteSets

CONSTANTS
  Process, Minor,
  Message, Length,   \* the user buffers and the length of each
  MAXIMAL_BUFFER,
  Param,             \* ioctl parameters (unsigned long)
  UINT,              \* 2^32: the values of an unsigned int
  Slots, Buffers,    \* bounds: slot and message allocations alive at once
  NULL, Freed

ASSUME ConstantsAssumption ==
  /\ Length \in [Message -> Nat]
  /\ MAXIMAL_BUFFER \in Nat /\ UINT \in Nat \ {0}
  /\ Param \subseteq Nat
  /\ NULL \notin Message \cup Process \cup Minor \cup Buffers \cup Slots
  /\ Freed \notin Message \cup {NULL}

VARIABLES
  serial,            \* does each call end before the next begins?
  loaded,            \* is the module loaded?
  message_slots,     \* the array of slot pointers, by minor
  alive,             \* the slots that are allocated
  lock, channels,    \* per slot: its spinlock's owner, its list of channels
  heap,              \* message buffers: their content, NULL if unwritten, or Freed
  minor,             \* per process: the minor its file is open on, or NULL
  private_data,      \* per open file: the channel parameter (0 without a file)
  pc, call, slot, channel, temp_buf,   \* per process: its call and its locals
  answer             \* what its last call returned

vars == <<serial, loaded, message_slots, alive, lock, channels, heap, minor, private_data,
          pc, call, slot, channel, temp_buf, answer>>
files  == <<minor, private_data>>
slotVs == <<message_slots, alive, lock, channels>>
locals == <<call, slot, channel, temp_buf>>

Errors == {"EINVAL", "ENOMEM", "EFAULT", "EWOULDBLOCK", "ENOSPC"}
NewChannel(c) == [channel_id |-> c, message |-> NULL, msg_len |-> 0]

\* A call's arguments: the inode's minor, the user's buffer and its length.
Call(op, m, buffer, length) == [op |-> op, minor |-> m, buffer |-> buffer, length |-> length]
NoCall == Call("none", NULL, NULL, 0)

Goto(p, from, to) == pc[p] = from /\ pc' = [pc EXCEPT ![p] = to]

Return(p, r) ==
  /\ pc' = [pc EXCEPT ![p] = "idle"]
  /\ answer' = [answer EXCEPT ![p] = r]
  /\ temp_buf' = [temp_buf EXCEPT ![p] = NULL]
  /\ channel' = [channel EXCEPT ![p] = 0]
  /\ slot' = [slot EXCEPT ![p] = NULL]
  /\ call' = [call EXCEPT ![p] = NoCall]

MayCall(p) ==
  /\ loaded /\ pc[p] = "idle"
  /\ serial => \A q \in Process : pc[q] = "idle"

Init ==
  /\ serial \in BOOLEAN
  /\ loaded = TRUE
  /\ message_slots = [m \in Minor |-> NULL]
  /\ alive = {}
  /\ lock = [s \in Slots |-> NULL]
  /\ channels = [s \in Slots |-> <<>>]
  /\ heap = [b \in Buffers |-> Freed]
  /\ minor = [p \in Process |-> NULL]
  /\ private_data = [p \in Process |-> 0]
  /\ pc = [p \in Process |-> "idle"]
  /\ call = [p \in Process |-> NoCall]
  /\ slot = [p \in Process |-> NULL]
  /\ channel = [p \in Process |-> 0]
  /\ temp_buf = [p \in Process |-> NULL]
  /\ answer = [p \in Process |-> "none"]

(***************************************************************************)
(* device_open, device_release, device_ioctl                               *)
(***************************************************************************)
OpenFile(p, m) ==
  /\ minor' = [minor EXCEPT ![p] = m]
  /\ private_data' = [private_data EXCEPT ![p] = 0]
  /\ Return(p, "done")

\* The test of line 110 takes no lock.
OpenCheck(p, m) ==
  /\ MayCall(p) /\ minor[p] = NULL
  /\ \/ message_slots[m] # NULL /\ OpenFile(p, m)
     \/ /\ message_slots[m] = NULL
        /\ pc' = [pc EXCEPT ![p] = "o_alloc"]
        /\ call' = [call EXCEPT ![p] = Call("open", m, NULL, 0)]
        /\ UNCHANGED <<files, slot, channel, temp_buf, answer>>
  /\ UNCHANGED <<loaded, slotVs, heap>>

OpenNoMemory(p) ==
  /\ pc[p] = "o_alloc"
  /\ Return(p, "ENOMEM")
  /\ UNCHANGED <<loaded, slotVs, heap, files>>

OpenInstall(p) ==
  /\ pc[p] = "o_alloc"
  /\ \E s \in Slots \ alive :
       /\ alive' = alive \cup {s}
       /\ message_slots' = [message_slots EXCEPT ![call[p].minor] = s]
       /\ channels' = [channels EXCEPT ![s] = <<>>]
       /\ lock' = [lock EXCEPT ![s] = NULL]
  /\ OpenFile(p, call[p].minor)
  /\ UNCHANGED <<loaded, heap>>

device_open(p) == (\E m \in Minor : OpenCheck(p, m)) \/ OpenNoMemory(p) \/ OpenInstall(p)

device_release(p) ==
  /\ MayCall(p) /\ minor[p] # NULL
  /\ minor' = [minor EXCEPT ![p] = NULL]
  /\ private_data' = [private_data EXCEPT ![p] = 0]
  /\ Return(p, "done")
  /\ UNCHANGED <<loaded, slotVs, heap>>

\* known: is the command MSG_SLOT_CHANNEL?
device_ioctl(p, known, param) ==
  /\ MayCall(p) /\ minor[p] # NULL
  /\ \/ (~ known \/ param = 0) /\ Return(p, "EINVAL") /\ UNCHANGED private_data
     \/ /\ known /\ param # 0
        /\ private_data' = [private_data EXCEPT ![p] = param]
        /\ Return(p, "done")
  /\ UNCHANGED <<loaded, slotVs, heap, minor>>

(***************************************************************************)
(* get_channel: the unsigned long is passed as an unsigned int.            *)
(***************************************************************************)
ChannelIdOf(p) == private_data[p] % UINT

\* Mutant: the loop stops at the first channel, whatever its id.
MatchesAny(p) == {k \in 1..Len(channels[slot[p]]) : k = Len(channels[slot[p]])}

Matches(p) == {k \in 1..Len(channels[slot[p]]) :
                 channels[slot[p]][k].channel_id = ChannelIdOf(p)}

Writing(p) == call[p].op = "write"
AfterGet(p) == IF Writing(p) THEN "w_alloc" ELSE "r_check"

\* Mutant: the list is searched without the spinlock.
GetLockNone(p) ==
  /\ Goto(p, "g_lock", "g_find")
  /\ UNCHANGED <<loaded, slotVs, heap, files, locals, answer>>

GetLock(p) ==
  /\ Goto(p, "g_lock", "g_find")
  /\ lock[slot[p]] = NULL
  /\ lock' = [lock EXCEPT ![slot[p]] = p]
  /\ UNCHANGED <<loaded, message_slots, alive, channels, heap, files, locals, answer>>

GetFind(p) ==
  /\ pc[p] = "g_find"
  /\ \/ \E k \in Matches(p) :
          /\ channel' = [channel EXCEPT ![p] = k]
          /\ lock' = [lock EXCEPT ![slot[p]] = NULL]
          /\ pc' = [pc EXCEPT ![p] = AfterGet(p)]
     \/ /\ Matches(p) = {}
        /\ pc' = [pc EXCEPT ![p] = "g_create"]
        /\ UNCHANGED <<channel, lock>>
  /\ UNCHANGED <<loaded, message_slots, alive, channels, heap, files, call, slot,
                 temp_buf, answer>>

\* The list's new head is its last element here.
GetCreate(p) ==
  /\ pc[p] = "g_create"
  /\ channels' = [channels EXCEPT ![slot[p]] = Append(@, NewChannel(ChannelIdOf(p)))]
  /\ channel' = [channel EXCEPT ![p] = Len(channels[slot[p]]) + 1]
  /\ lock' = [lock EXCEPT ![slot[p]] = NULL]
  /\ pc' = [pc EXCEPT ![p] = AfterGet(p)]
  /\ UNCHANGED <<loaded, message_slots, alive, heap, files, call, slot, temp_buf, answer>>

\* device_write answers -ENOMEM, device_read -EWOULDBLOCK.
GetNoMemory(p) ==
  /\ pc[p] = "g_create"
  /\ lock' = [lock EXCEPT ![slot[p]] = NULL]
  /\ Return(p, IF Writing(p) THEN "ENOMEM" ELSE "EWOULDBLOCK")
  /\ UNCHANGED <<loaded, message_slots, alive, channels, heap, files>>

get_channel(p) == GetLock(p) \/ GetFind(p) \/ GetCreate(p) \/ GetNoMemory(p)

\* The validation both file operations share.
Enter(p, valid, op, buffer, length) ==
  /\ MayCall(p) /\ minor[p] # NULL
  /\ IF private_data[p] # 0 /\ valid /\ message_slots[minor[p]] # NULL
     THEN /\ pc' = [pc EXCEPT ![p] = "g_lock"]
          /\ call' = [call EXCEPT ![p] = Call(op, minor[p], buffer, length)]
          /\ slot' = [slot EXCEPT ![p] = message_slots[minor[p]]]
          /\ UNCHANGED <<channel, temp_buf, answer>>
     ELSE Return(p, "EINVAL")
  /\ UNCHANGED <<loaded, slotVs, heap, files>>

(***************************************************************************)
(* device_write                                                            *)
(***************************************************************************)
WriteEnter(p, m) == 
  Enter(p, Length[m] \in 1..MAXIMAL_BUFFER, "write", m, Length[m])

WriteAlloc(p) ==
  /\ pc[p] = "w_alloc"
  /\ \/ Return(p, "ENOMEM") /\ UNCHANGED heap
     \/ \E b \in {x \in Buffers : heap[x] = Freed} :
          /\ heap' = [heap EXCEPT ![b] = NULL]
          /\ temp_buf' = [temp_buf EXCEPT ![p] = b]
          /\ pc' = [pc EXCEPT ![p] = "w_copy"]
          /\ UNCHANGED <<call, slot, channel, answer>>
  /\ UNCHANGED <<loaded, slotVs, files>>

WriteCopy(p) ==
  /\ Goto(p, "w_copy", "w_free")
  /\ heap' = [heap EXCEPT ![temp_buf[p]] = call[p].buffer]
  /\ UNCHANGED <<loaded, slotVs, files, locals, answer>>

\* Mutant: the error path of copy_from_user does not free the new buffer.
WriteFaultLeaks(p) ==
  /\ pc[p] = "w_copy"
  /\ Return(p, "EFAULT")
  /\ UNCHANGED <<loaded, slotVs, heap, files>>

WriteFault(p) ==
  /\ pc[p] = "w_copy"
  /\ heap' = [heap EXCEPT ![temp_buf[p]] = Freed]
  /\ Return(p, "EFAULT")
  /\ UNCHANGED <<loaded, slotVs, files>>

Target(p) == channels[slot[p]][channel[p]]

\* kfree of the old message (of an already free one: undefined, nothing here).
WriteFree(p) ==
  /\ Goto(p, "w_free", "w_set")
  /\ heap' = IF Target(p).message # NULL
             THEN [heap EXCEPT ![Target(p).message] = Freed] ELSE heap
  /\ UNCHANGED <<loaded, slotVs, files, locals, answer>>

WriteSet(p) ==
  /\ Goto(p, "w_set", "w_len")
  /\ channels' = [channels EXCEPT ![slot[p]][channel[p]].message = temp_buf[p]]
  /\ UNCHANGED <<loaded, message_slots, alive, lock, heap, files, locals, answer>>

WriteLen(p) ==
  /\ pc[p] = "w_len"
  /\ channels' = [channels EXCEPT ![slot[p]][channel[p]].msg_len = call[p].length]
  /\ Return(p, "done")
  /\ UNCHANGED <<loaded, message_slots, alive, lock, heap, files>>

device_write(p) ==
  \/ \E m \in Message : WriteEnter(p, m)
  \/ WriteAlloc(p) \/ WriteCopy(p) \/ WriteFault(p) \/ WriteFree(p) \/ WriteSet(p)
  \/ WriteLen(p)

(***************************************************************************)
(* device_read                                                             *)
(***************************************************************************)
ReadEnter(p, length) == Enter(p, TRUE, "read", NULL, length)

ReadCheck(p) ==
  /\ pc[p] = "r_check"
  /\ \/ Target(p).message = NULL /\ Return(p, "EWOULDBLOCK")
     \/ /\ Target(p).message # NULL
        /\ pc' = [pc EXCEPT ![p] = "r_size"]
        /\ UNCHANGED <<locals, answer>>
  /\ UNCHANGED <<loaded, slotVs, heap, files>>

ReadSize(p) ==
  /\ pc[p] = "r_size"
  /\ \/ call[p].length < Target(p).msg_len /\ Return(p, "ENOSPC")
     \/ /\ call[p].length >= Target(p).msg_len
        /\ pc' = [pc EXCEPT ![p] = "r_copy"]
        /\ UNCHANGED <<locals, answer>>
  /\ UNCHANGED <<loaded, slotVs, heap, files>>

\* copy_to_user reads the pointer and the length anew; what it copies out of a freed
\* or too short buffer is Freed.
Copied(p) ==
  LET content == heap[Target(p).message] IN
  IF content \in Message /\ Target(p).msg_len = Length[content] THEN content ELSE Freed

ReadCopy(p) ==
  /\ pc[p] = "r_copy"
  /\ Return(p, "EFAULT") \/ Return(p, Copied(p))
  /\ UNCHANGED <<loaded, slotVs, heap, files>>

device_read(p) ==
  \/ \E n \in 0..MAXIMAL_BUFFER : ReadEnter(p, n)
  \/ ReadCheck(p) \/ ReadSize(p) \/ ReadCopy(p)

(***************************************************************************)
(* Unloading and loading; the kernel keeps a module with open files.       *)
(***************************************************************************)
Reachable == {message_slots[m] : m \in Minor} \ {NULL}
MessagesOf(s) == {channels[s][k].message : k \in 1..Len(channels[s])} \ {NULL}

message_slot_cleanup ==
  /\ loaded
  /\ \A p \in Process : minor[p] = NULL /\ pc[p] = "idle"
  /\ loaded' = FALSE
  /\ heap' = [b \in Buffers |->
                IF \E s \in Reachable : b \in MessagesOf(s) THEN Freed ELSE heap[b]]
  /\ channels' = [s \in Slots |-> IF s \in Reachable THEN <<>> ELSE channels[s]]
  /\ alive' = alive \ Reachable
  /\ message_slots' = [m \in Minor |-> NULL]
  /\ UNCHANGED <<lock, files, pc, locals, answer>>

message_slot_init ==
  /\ ~ loaded
  /\ loaded' = TRUE
  /\ UNCHANGED <<slotVs, heap, files, pc, locals, answer>>

FileOperation(p) ==
  \/ device_open(p) \/ device_release(p) \/ get_channel(p)
  \/ \E known \in BOOLEAN, param \in Param : device_ioctl(p, known, param)
  \/ device_write(p) \/ device_read(p)

Next ==
  /\ \/ \E p \in Process : FileOperation(p)
     \/ message_slot_cleanup \/ message_slot_init
  /\ UNCHANGED serial

Spec == Init /\ [][Next]_vars

-----------------------------------------------------------------------------
PC == {"idle", "o_alloc", "g_lock", "g_find", "g_create", "w_alloc", "w_copy", "w_free",
       "w_set", "w_len", "r_check", "r_size", "r_copy"}
ChannelType == [channel_id : 0..(UINT - 1), message : Buffers \cup {NULL}, msg_len : Nat]

TypeOK ==
  /\ serial \in BOOLEAN /\ loaded \in BOOLEAN
  /\ message_slots \in [Minor -> Slots \cup {NULL}]
  /\ alive \subseteq Slots
  /\ lock \in [Slots -> Process \cup {NULL}]
  /\ channels \in [Slots -> Seq(ChannelType)]
  /\ heap \in [Buffers -> Message \cup {NULL, Freed}]
  /\ minor \in [Process -> Minor \cup {NULL}]
  /\ private_data \in [Process -> {0} \cup Param]
  /\ pc \in [Process -> PC]
  /\ call \in [Process ->
       [op : {"none", "open", "write", "read"}, minor : Minor \cup {NULL},
        buffer : Message \cup {NULL}, length : Nat]]
  /\ slot \in [Process -> Slots \cup {NULL}]
  /\ channel \in [Process -> Nat]
  /\ temp_buf \in [Process -> Buffers \cup {NULL}]
  /\ answer \in [Process -> Message \cup Errors \cup {"none", "done", Freed}]

\* A slot never has two channels with one id, however many calls look for it at once:
\* what the spinlock of lines 66-92 is for.
OneChannelPerId ==
  \A s \in Slots : \A k, l \in 1..Len(channels[s]) :
    channels[s][k].channel_id = channels[s][l].channel_id => k = l

\* As long as calls do not overlap, a buffer is allocated exactly while one channel or
\* the call under way owns it, so memory stays bounded by the channels used, and an
\* unloaded module left nothing behind, whatever failed before (lines 187-199 with
\* their error paths, 281-304).
CallsLeakNothing ==
  /\ TypeOK
  /\ serial =>
       /\ (\A p \in Process : pc[p] = "idle") =>
            \A b \in Buffers : heap[b] # Freed <=> \E s \in alive : b \in MessagesOf(s)
       /\ \A s, t \in alive : \A k \in 1..Len(channels[s]), l \in 1..Len(channels[t]) :
            /\ channels[s][k].message # NULL
            /\ channels[s][k].message = channels[t][l].message
            => s = t /\ k = l
       /\ \A p \in Process : temp_buf[p] # NULL => heap[temp_buf[p]] # Freed
       /\ ~ loaded => alive = {} /\ \A b \in Buffers : heap[b] = Freed

Pending(m, c) ==
  {p \in Process : /\ pc[p] \in {"w_free", "w_set", "w_len"}
                   /\ slot[p] = message_slots[m] /\ ChannelIdOf(p) = c}
Stored(m, c) ==
  IF message_slots[m] = NULL THEN {}
  ELSE LET s == message_slots[m] IN
       {heap[channels[s][k].message] : k \in {j \in 1..Len(channels[s]) :
          channels[s][j].channel_id = c /\ channels[s][j].message # NULL}}
TheOne(S) == CHOOSE x \in S : TRUE
LastMessage(m, c) ==
  IF Pending(m, c) # {} THEN call[TheOne(Pending(m, c))].buffer
  ELSE IF Stored(m, c) = {} THEN NULL ELSE TheOne(Stored(m, c))

Promise == INSTANCE SlotPromise WITH
  ChannelId <- Param \ {0}, NoMessage <- NULL, Torn <- {},
  chosen <- [p \in Process |-> <<minor[p], private_data[p]>>],
  last <- [mc \in Minor \X (Param \ {0}) |-> LastMessage(mc[1], mc[2])]
\* Calls that do not overlap implement the message slot: a write takes effect once it
\* can no longer fail (its message is copied, line 191), a failed call changes no
\* message, and a read answers with the last message of its own slot and channel.
KeepsPromise == Promise!Init /\ [][serial => Promise!Next]_(Promise!vars)
=============================================================================
