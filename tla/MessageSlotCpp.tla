---------------------------- MODULE MessageSlotCpp ----------------------------
(***************************************************************************)
(* Operating Systems/ex3/C++ solution/message_slot.cpp: the driver a       *)
(* second time, without locks and with each message inside its channel.    *)
(* Calls do not overlap, as msgslot.pdf lets the driver assume (3.1, item  *)
(* 11), so a call is one action and the list has one device to a minor.    *)
(***************************************************************************)
EXTENDS Naturals, Sequences

CONSTANTS
  Process, Minor,
  Message, Length,   \* the user buffers and the length of each
  MaxLength,         \* 128 in the code
  Param, UINT,       \* ioctl parameters (unsigned long); 2^32
  NULL, Mixed        \* no device or file; part of one message over another

\* What the module asks of its constants.
SlotAssumption ==
  /\ Length \in [Message -> Nat] /\ MaxLength \in Nat /\ UINT \in Nat \ {0} /\ Param \subseteq Nat
  /\ NULL \notin Message \cup Minor \cup {Mixed}
  /\ NULL \notin Seq([id : Nat, msg : Message \cup {Mixed}, msg_length : Nat])

VARIABLES
  loaded,         \* is the module loaded?
  devices,        \* device_list_head: the channels of each minor, first one first, or NULL
  minor,          \* per process: the minor its file is open on, or NULL
  private_data,   \* per open file: the channel parameter (0 without a file)
  answer          \* per process: what its last call returned

vars == <<loaded, devices, minor, private_data, answer>>

Errors == {"EINVAL", "ENOMEM", "EFAULT", "EWOULDBLOCK", "ENOSPC", "EMSGSIZE"}

Init ==
  /\ loaded = TRUE
  /\ devices = [m \in Minor |-> NULL]
  /\ minor = [p \in Process |-> NULL]
  /\ private_data = [p \in Process |-> 0]
  /\ answer = [p \in Process |-> "none"]

Return(p, r) == answer' = [answer EXCEPT ![p] = r]
Fail(p, error) == Return(p, error) /\ UNCHANGED <<loaded, devices, minor, private_data>>
HasFile(p) == minor[p] # NULL

-----------------------------------------------------------------------------
device_open(p, m) ==
  /\ loaded /\ ~ HasFile(p)
  /\ \/ /\ devices' = [devices EXCEPT ![m] = IF @ = NULL THEN <<>> ELSE @]
        /\ minor' = [minor EXCEPT ![p] = m]
        /\ Return(p, "done")
        /\ UNCHANGED <<loaded, private_data>>
     \/ devices[m] = NULL /\ Fail(p, "ENOMEM")

\* The kernel forgets the file; the driver has no release of its own.
close(p) ==
  /\ HasFile(p)
  /\ minor' = [minor EXCEPT ![p] = NULL]
  /\ private_data' = [private_data EXCEPT ![p] = 0]
  /\ Return(p, "done")
  /\ UNCHANGED <<loaded, devices>>

\* known: is the command MSG_SLOT_CHANNEL?
device_ioctl(p, known, param) ==
  /\ HasFile(p)
  /\ \/ (~ known \/ param = 0) /\ Fail(p, "EINVAL")
     \/ /\ known /\ param # 0
        /\ private_data' = [private_data EXCEPT ![p] = param]
        /\ Return(p, "done")
        /\ UNCHANGED <<loaded, devices, minor>>

\* The unsigned long is stored whole and used as an unsigned int.
ChannelIdOf(p) == private_data[p] % UINT

\* Mutant: the first channel of the minor is taken, whatever its id.
MatchesAny(p) == DOMAIN devices[minor[p]]

Matches(p) == {k \in DOMAIN devices[minor[p]] : devices[minor[p]][k].id = ChannelIdOf(p)}
First(S) == CHOOSE k \in S : \A j \in S : k <= j

\* The list after writeSetup and the channel's place in it: a new one comes first.
writeSetup(p) ==
  IF Matches(p) # {}
  THEN [channels |-> devices[minor[p]], k |-> First(Matches(p))]
  ELSE [channels |-> <<[id |-> ChannelIdOf(p), msg |-> Mixed, msg_length |-> 0]>>
                       \o devices[minor[p]], k |-> 1]

\* The channel is created before the length is looked at, and stays when the call fails.
\* copy_from_user writes over the message in place: one that fails may have copied a part,
\* which the length of the old message then takes for a message.
device_write(p, m) ==
  LET setup == writeSetup(p)
      Leave(channels) == /\ devices' = [devices EXCEPT ![minor[p]] = channels]
                         /\ UNCHANGED <<loaded, minor, private_data>>
  IN /\ HasFile(p)
     /\ \/ private_data[p] = 0 /\ Fail(p, "EINVAL")
        \/ private_data[p] # 0 /\ Matches(p) = {} /\ Fail(p, "ENOMEM")
        \/ /\ private_data[p] # 0 /\ Length[m] \notin 1..MaxLength
           /\ Leave(setup.channels) /\ Return(p, "EMSGSIZE")
        \/ /\ private_data[p] # 0 /\ Length[m] \in 1..MaxLength
           /\ Leave([setup.channels EXCEPT ![setup.k].msg = m, ![setup.k].msg_length = Length[m]])
           /\ Return(p, "done")
        \/ /\ private_data[p] # 0 /\ Length[m] \in 1..MaxLength
           /\ \/ Leave(setup.channels)
              \/ Leave([setup.channels EXCEPT ![setup.k].msg = Mixed])
           /\ Return(p, "EFAULT")

device_read(p, length) ==
  LET channel == devices[minor[p]][First(Matches(p))]
  IN /\ HasFile(p)
     /\ \/ private_data[p] = 0 /\ Fail(p, "EINVAL")
        \/ /\ private_data[p] # 0
           /\ Matches(p) # {} => channel.msg_length = 0
           /\ Fail(p, "EWOULDBLOCK")
        \/ /\ private_data[p] # 0 /\ Matches(p) # {} /\ channel.msg_length # 0
           /\ \/ length < channel.msg_length /\ Fail(p, "ENOSPC")
              \/ /\ length >= channel.msg_length
                 /\ Fail(p, "EFAULT") \/ Fail(p, channel.msg)

\* The kernel keeps a module with open files; a loaded module's list starts empty.
message_slot_cleanup ==
  /\ loaded /\ \A p \in Process : ~ HasFile(p)
  /\ loaded' = FALSE
  /\ devices' = [m \in Minor |-> NULL]
  /\ UNCHANGED <<minor, private_data, answer>>

message_slot_init == ~ loaded /\ loaded' = TRUE /\ UNCHANGED <<devices, minor, private_data, answer>>

Next ==
  \/ message_slot_cleanup \/ message_slot_init
  \/ \E p \in Process :
       \/ close(p)
       \/ \E m \in Minor : device_open(p, m)
       \/ \E known \in BOOLEAN, param \in Param : device_ioctl(p, known, param)
       \/ \E m \in Message : device_write(p, m)
       \/ \E length \in 0..MaxLength : device_read(p, length)

Spec == Init /\ [][Next]_vars

-----------------------------------------------------------------------------
LastMessage(m, c) ==
  LET written == IF devices[m] = NULL THEN {}
                 ELSE {k \in DOMAIN devices[m] : devices[m][k].id = c /\ devices[m][k].msg_length # 0}
  IN IF written = {} THEN NULL ELSE devices[m][First(written)].msg

Promise == INSTANCE SlotPromise WITH
  ChannelId <- Param \ {0}, NoMessage <- NULL, Torn <- {Mixed},
  chosen <- [p \in Process |-> <<minor[p], private_data[p]>>],
  last <- [mc \in Minor \X (Param \ {0}) |-> LastMessage(mc[1], mc[2])]
\* This driver, too, implements the message slot, except that a write whose copy fails may
\* leave part of its message over the one of its own channel: never in another channel,
\* nor in one that had no message, and no other call that fails changes a message.
KeepsPromise == Promise!Spec
=============================================================================
