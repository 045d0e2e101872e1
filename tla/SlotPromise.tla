----------------------------- MODULE SlotPromise -----------------------------
(***************************************************************************)
(* What a message slot promises its users (msgslot.pdf, section 2): each   *)
(* channel of each slot preserves the last message written to it, a read   *)
(* answers with the last message of the slot and channel its caller chose, *)
(* or with an error, and no call that fails changes a message -- except    *)
(* where a driver lets a write that fails leave part of its message over   *)
(* the one it was to replace: Torn is what may then be there.              *)
(***************************************************************************)
CONSTANTS
  Process, Minor, ChannelId, Message, NoMessage, Errors,
  Torn   \* what a write that fails may leave: {} if it changes nothing

VARIABLES last,     \* last[<<m, c>>]: the last message written
          chosen,   \* chosen[p]: the slot and channel p reads and writes
          answer    \* answer[p]: the outcome of p's last call

vars == <<last, chosen, answer>>

Empty == [mc \in Minor \X ChannelId |-> NoMessage]

Init == last = Empty /\ answer = [p \in Process |-> "none"]

\* The call returns at once or later.
Write(p, msg) ==
  /\ chosen[p] \in Minor \X ChannelId
  /\ last' = [last EXCEPT ![chosen[p]] = msg]
  /\ answer' \in {answer, [answer EXCEPT ![p] = "done"]}
  /\ UNCHANGED chosen

Read(p) ==
  /\ chosen[p] \in Minor \X ChannelId
  /\ last[chosen[p]] # NoMessage
  /\ answer' = [answer EXCEPT ![p] = last[chosen[p]]]
  /\ UNCHANGED <<last, chosen>>

\* An open, a close or an ioctl.
Choose(p) ==
  /\ \A q \in Process \ {p} : chosen'[q] = chosen[q]
  /\ answer' = [answer EXCEPT ![p] = "done"]
  /\ UNCHANGED last

\* A write that succeeded returns, or any call fails.
Return(p) ==
  /\ \E r \in Errors \cup {"done"} : answer' = [answer EXCEPT ![p] = r]
  /\ UNCHANGED <<last, chosen>>

\* A write fails with part of its message over that of its own channel, which has one.
Tear(p) ==
  /\ chosen[p] \in Minor \X ChannelId
  /\ last[chosen[p]] # NoMessage
  /\ \E part \in Torn : last' = [last EXCEPT ![chosen[p]] = part]
  /\ \E r \in Errors : answer' = [answer EXCEPT ![p] = r]
  /\ UNCHANGED chosen

\* The module is unloaded.
Unload == last' = Empty /\ UNCHANGED <<chosen, answer>>

Next == Unload \/ \E p \in Process : Choose(p) \/ Return(p) \/ Read(p) \/ Tear(p)
                                     \/ \E msg \in Message : Write(p, msg)

Spec == Init /\ [][Next]_vars
=============================================================================
