----------------------------- MODULE MessageSlots -----------------------------
(***************************************************************************)
(* The two drivers side by side, each with slots of its own: the C driver  *)
(* of MessageSlot and, in the variables below, that of MessageSlotCpp.     *)
(***************************************************************************)
EXTENDS MessageSlot

CONSTANT Mixed

VARIABLES loaded2, devices2, minor2, private_data2, answer2

vars2 == <<loaded2, devices2, minor2, private_data2, answer2>>

Cpp == INSTANCE MessageSlotCpp WITH
  MaxLength <- MAXIMAL_BUFFER,
  loaded <- loaded2, devices <- devices2, minor <- minor2,
  private_data <- private_data2, answer <- answer2

ASSUME CppAssumption == Cpp!SlotAssumption

-----------------------------------------------------------------------------
\* The C++ driver implements the message slot, but for one thing: a write whose copy fails
\* may leave part of its message over the last one of its own slot and channel, which
\* reads then answer with (message_slot.cpp:146).  A channel without a message gets none
\* that way, no other call that fails changes a message, and a read answers with what the
\* last write left in its own slot and channel (message_slot.cpp:73-209).
CppKeepsPromise == Cpp!KeepsPromise
=============================================================================
