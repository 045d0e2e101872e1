------------------------------- MODULE Search -------------------------------
(***************************************************************************)
(* What pfind promises: it reports files, each once and only matching ones *)
(* in the directories it can reach, and when it finishes it has reported   *)
(* all of them and its total is their number.                              *)
(***************************************************************************)
EXTENDS FiniteSets

CONSTANT Wanted     \* the files to report

VARIABLES reported, \* files reported so far
          total     \* the final count, or "unknown"

vars == <<reported, total>>

Init == reported = {} /\ total = <<>>

Report(f) ==
  /\ total = <<>>
  /\ f \in Wanted \ reported
  /\ reported' = reported \cup {f}
  /\ UNCHANGED total

Finish ==
  /\ total = <<>>
  /\ reported = Wanted
  /\ total' = <<Cardinality(Wanted)>>
  /\ UNCHANGED reported

Next == Finish \/ \E f \in Wanted : Report(f)

Spec == Init /\ [][Next]_vars /\ WF_vars(Next)
=============================================================================
