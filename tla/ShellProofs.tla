------------------------------ MODULE ShellProofs ------------------------------
(***************************************************************************)
(* Proofs about Shell, for any number of command lines: its state is well  *)
(* typed, the prompt comes back only when no foreground child is alive and *)
(* the shell holds no descriptor, and Ctrl-C spares the background         *)
(* children.  The inductive invariant says, for every point of             *)
(* process_arglist, which children of its line exist and what of its line  *)
(* the shell still holds.                                                  *)
(***************************************************************************)
EXTENDS Shell, TLAPS

Line0 == 1..MaxLines
Pcs == {"prompt", "open", "fork", "fork2", "close1", "close2", "wait1", "wait2", "ended"}
States == {"none", "forked", "default", "execd", "dead"}

\* The types, and that there is a current line while process_arglist runs.
Typed ==
  /\ pc \in Pcs /\ lines \in 0..MaxLines
  /\ kind \in [Line0 -> Kinds] /\ state \in [Child -> States] /\ ignores \subseteq Process
  /\ readers \in [Line0 -> SUBSET Process] /\ writers \in [Line0 -> SUBSET Process]
  /\ outputs \in [Line0 -> SUBSET Process]
  /\ pc \notin {"prompt", "ended"} => lines \in Line0

\* Where process_arglist is fits the kind of its line.
KindFits ==
  /\ pc = "open" => Line \in {"pipe", "redirect"}
  /\ pc \in {"fork2", "close1", "close2", "wait2"} => Line = "pipe"
  /\ pc = "wait1" => Line # "background"

Holders(l) == readers[l] \cup writers[l] \cup outputs[l]

\* A line's descriptors are held by the shell and by the line's live children only, and
\* are those of its kind; a line not typed yet has none.
FdsFit ==
  \A l \in Line0 :
    /\ \A p \in Holders(l) : p = SH \/ (p \in Child /\ p[1] = l /\ Alive(p))
    /\ outputs[l] # {} => kind[l] = "redirect"
    /\ readers[l] \cup writers[l] # {} => kind[l] = "pipe"
    /\ l > lines => Holders(l) = {}

\* Which children there are: none of a line to come, a second one only of a pipe, and of
\* the earlier lines only background children are alive.
ChildrenFit ==
  /\ \A l \in Line0 : l > lines => state[<<l, 1>>] = "none" /\ state[<<l, 2>>] = "none"
  /\ \A l \in Line0 : kind[l] # "pipe" => state[<<l, 2>>] = "none"
  /\ pc # "ended" => \A l \in Line0 : l < lines /\ kind[l] # "background"
                                        => ~ Alive(<<l, 1>>) /\ ~ Alive(<<l, 2>>)
  /\ pc \in {"open", "fork"} => state[first] = "none"
  /\ pc \in {"open", "fork", "fork2"} => state[second] = "none"
  /\ pc = "wait2" => ~ Alive(first)
  /\ pc = "prompt" /\ lines > 0 /\ Line # "background" => ~ Alive(first) /\ ~ Alive(second)

\* What the shell itself holds: nothing of other lines, and of its own only what the
\* rest of process_arglist closes.
ShellHolds ==
  /\ \A l \in Line0 : l # lines \/ pc \in {"prompt", "open", "ended"} => SH \notin Holders(l)
  /\ pc \in {"close2", "wait1", "wait2"} => SH \notin readers[lines]
  /\ pc \in {"wait1", "wait2"} => SH \notin writers[lines]

\* A background child ignores SIGINT as long as it lives.
BackgroundIgnores ==
  \A p \in Child : Alive(p) /\ kind[p[1]] = "background" => p \in ignores

SInv == Typed /\ KindFits /\ FdsFit /\ ChildrenFit /\ ShellHolds /\ BackgroundIgnores

\* A child is named by its line and its place in it, and the shell is no child.
LEMMA Children ==
  /\ \A p \in Child : p = <<p[1], p[2]>> /\ p[1] \in Line0 /\ p[2] \in {1, 2}
  /\ \A l \in Line0 : <<l, 1>> \in Child /\ <<l, 2>> \in Child
  /\ SH \notin Child
BY ShellAssumption DEF Child, SH, Line0

\* At the first prompt there is no line and no child.
LEMMA SInit == Init => SInv
<1> SUFFICES ASSUME Init PROVE SInv
  OBVIOUS
<1> USE ShellAssumption DEF Init, Line0
<1>1. Typed
  BY DEF Typed, Pcs, States, Kinds, Process
<1>2. KindFits /\ ShellHolds
  BY DEF KindFits, ShellHolds, Holders
<1>3. FdsFit
  BY DEF FdsFit, Holders
<1>4. \A p \in Child : ~ Alive(p) /\ state[p] = "none"
  BY DEF Alive
<1>5. ChildrenFit
  <2>1. \A l \in Line0 : state[<<l, 1>>] = "none" /\ state[<<l, 2>>] = "none"
    BY <1>4, Children
  <2>2. pc = "prompt" /\ lines = 0
    OBVIOUS
  <2>3. \A l \in Line0 : ~ (l < lines)
    BY <2>2
  <2> HIDE DEF Init, Line0
  <2>4. pc \notin {"open", "fork", "fork2", "wait2"} /\ pc \notin {"open", "fork"} /\ ~ (lines > 0)
    BY <2>2
  <2> QED
    BY <2>1, <2>2, <2>3, <2>4, Zenon DEF ChildrenFit
<1>6. BackgroundIgnores
  BY <1>4 DEF BackgroundIgnores
<1> QED
  BY <1>1, <1>2, <1>3, <1>5, <1>6 DEF SInv

(***************************************************************************)
(* The steps of the children: the shell stays where it is, no child comes  *)
(* to life, one that dies lets go of what it held, and SIGINT is restored  *)
(* by no background child.                                                 *)
(***************************************************************************)
ChildMoves ==
  /\ UNCHANGED <<pc, lines, kind>>
  /\ state' \in [Child -> States] /\ ignores' \subseteq ignores
  /\ readers' \in [Line0 -> SUBSET Process] /\ writers' \in [Line0 -> SUBSET Process]
  /\ outputs' \in [Line0 -> SUBSET Process]
  /\ \A l \in Line0 : /\ readers'[l] \subseteq readers[l] /\ writers'[l] \subseteq writers[l]
                      /\ outputs'[l] \subseteq outputs[l]
  /\ \A p \in Child : state'[p] = state[p]
                       \/ (Alive(p) /\ state'[p] \in {"default", "execd", "dead"})
  /\ \A p \in Child : state[p] # "dead" /\ state'[p] = "dead"
                       => \A l \in Line0 : p \notin Holders(l)'
  /\ \A p \in Child : p \in ignores /\ p \notin ignores'
                       => state'[p] = "dead" \/ kind[p[1]] # "background"

\* Such a step disturbs nothing the shell relies on.
LEMMA ChildMovesPreserves == SInv /\ ChildMoves => SInv'
<1> SUFFICES ASSUME SInv, ChildMoves PROVE SInv'
  OBVIOUS
<1> USE DEF SInv
<1>1. \A p \in Child : Alive(p)' => Alive(p)
  BY DEF ChildMoves, Alive
<1>2. \A p \in Child : Alive(p) => Alive(p)' \/ state'[p] = "dead"
  BY DEF ChildMoves, Alive
<1>3. \A l \in Line0 : Holders(l)' \subseteq Holders(l)
  BY DEF ChildMoves, Holders
<1>4. \A p \in Child : state[p] = "none" => state'[p] = "none"
  BY DEF ChildMoves, Alive
<1>5. Typed'
  BY DEF ChildMoves, Typed
<1>6. KindFits'
  BY DEF ChildMoves, KindFits, Line
<1>7. FdsFit'
  <2>1. ASSUME NEW l \in Line0, NEW p \in Holders(l)'
        PROVE  p = SH \/ (p \in Child /\ p[1] = l /\ Alive(p)')
    <3>1. p = SH \/ (p \in Child /\ p[1] = l /\ Alive(p))
      BY <1>3, <2>1 DEF FdsFit
    <3>2. p \in Child /\ Alive(p) => state'[p] # "dead"
      BY <2>1 DEF ChildMoves, Alive
    <3> QED
      BY <1>2, <3>1, <3>2
  <2>2. \A l \in Line0 :
          /\ outputs'[l] # {} => kind'[l] = "redirect"
          /\ readers'[l] \cup writers'[l] # {} => kind'[l] = "pipe"
          /\ l > lines' => Holders(l)' = {}
    BY <1>3 DEF ChildMoves, FdsFit
  <2> QED
    BY <2>1, <2>2 DEF FdsFit
<1>8. ChildrenFit'
  <2>1. UNCHANGED <<pc, lines, kind, first, second, Line>>
    BY DEF ChildMoves, first, second, Line
  <2>2. \A l \in Line0 : <<l, 1>> \in Child /\ <<l, 2>> \in Child
    BY Children
  <2>3. lines > 0 => first \in Child /\ second \in Child
    BY <2>2 DEF Typed, first, second, Line0
  <2>4. pc \notin {"prompt", "ended"} => first \in Child /\ second \in Child
    BY <2>2 DEF Typed, first, second
  <2>5. /\ \A l \in Line0 : l > lines => state'[<<l, 1>>] = "none" /\ state'[<<l, 2>>] = "none"
        /\ \A l \in Line0 : kind[l] # "pipe" => state'[<<l, 2>>] = "none"
        /\ pc # "ended" => \A l \in Line0 : l < lines /\ kind[l] # "background"
                                        => ~ Alive(<<l, 1>>)' /\ ~ Alive(<<l, 2>>)'
    BY <1>1, <1>4, <2>2 DEF ChildrenFit
  <2>6. /\ pc \in {"open", "fork"} => state'[first] = "none"
        /\ pc \in {"open", "fork", "fork2"} => state'[second] = "none"
    BY <1>4, <2>4 DEF ChildrenFit
  <2>7. /\ pc = "wait2" => ~ Alive(first)'
        /\ pc = "prompt" /\ lines > 0 /\ Line # "background" => ~ Alive(first)' /\ ~ Alive(second)'
    <3>1. \A p \in Child : ~ Alive(p) => state'[p] \notin {"forked", "default", "execd"}
      BY <1>1 DEF Alive
    <3>2. pc = "wait2" => state'[first] \notin {"forked", "default", "execd"}
      BY <2>4, <3>1 DEF ChildrenFit
    <3>3. pc = "prompt" /\ lines > 0 /\ Line # "background"
            => /\ state'[first] \notin {"forked", "default", "execd"}
               /\ state'[second] \notin {"forked", "default", "execd"}
      BY <2>3, <3>1 DEF ChildrenFit
    <3> QED
      BY <2>1, <3>2, <3>3 DEF Alive
  <2> QED
    BY <2>1, <2>5, <2>6, <2>7 DEF ChildrenFit
<1>9. ShellHolds'
  BY <1>3 DEF ChildMoves, ShellHolds, Typed
<1>10. BackgroundIgnores'
  <2>1. \A p \in Child : Alive(p)' => state'[p] # "dead"
    BY DEF Alive
  <2> QED
    BY <1>1, <2>1 DEF ChildMoves, BackgroundIgnores
<1> QED
  BY <1>5, <1>6, <1>7, <1>8, <1>9, <1>10

\* A process that ends is a child's step, whoever ended it.
LEMMA EndsMoves ==
  ASSUME SInv, NEW l \in Line0, NEW n \in {1, 2}, Alive(<<l, n>>), Ends(l, <<l, n>>)
  PROVE  ChildMoves
<1> DEFINE p == <<l, n>>
<1>1. /\ p \in Child /\ p[1] = l /\ Alive(p)
      /\ state' = [state EXCEPT ![p] = "dead"] /\ ignores' = ignores \ {p}
      /\ readers' = [readers EXCEPT ![l] = @ \ {p}] /\ writers' = [writers EXCEPT ![l] = @ \ {p}]
      /\ outputs' = [outputs EXCEPT ![l] = @ \ {p}] /\ UNCHANGED <<pc, lines, kind>>
  BY Children DEF Ends
<1>2. p # SH
  BY <1>1, Children
<1> HIDE DEF p
<1> USE DEF SInv, Typed
<1>3. \A q \in Child : state'[q] = IF q = p THEN "dead" ELSE state[q]
  BY <1>1
<1>4. \A k \in Line0 : /\ readers'[k] \subseteq readers[k] /\ writers'[k] \subseteq writers[k]
                      /\ outputs'[k] \subseteq outputs[k]
  BY <1>1
<1>5. \A k \in Line0 : p \notin Holders(k)'
  <2>1. \A k \in Line0 : k # l => p \notin Holders(k)
    BY <1>1, <1>2 DEF FdsFit
  <2>2. p \notin Holders(l)'
    BY <1>1 DEF Holders
  <2> QED
    BY <1>4, <2>1, <2>2 DEF Holders
<1>6. state' \in [Child -> States]
  BY <1>1 DEF States
<1> QED
  BY <1>1, <1>3, <1>4, <1>5, <1>6 DEF ChildMoves

\* So is every other step of a child, and Ctrl-C.
LEMMA StepsMove ==
  ASSUME SInv,
         \/ CtrlC
         \/ \E l \in Line0 : ReaderStops(l) \/ \E n \in {1, 2} : Runs(l, n)
  PROVE  ChildMoves
<1> USE DEF SInv, Typed
<1>1. CASE CtrlC
  <2> DEFINE killed == {p \in Child : Alive(p) /\ p \notin ignores}
  <2>1. /\ state' = [p \in Child |-> IF p \in killed THEN "dead" ELSE state[p]]
        /\ readers' = [l \in Line0 |-> readers[l] \ killed]
        /\ writers' = [l \in Line0 |-> writers[l] \ killed]
        /\ outputs' = [l \in Line0 |-> outputs[l] \ killed]
        /\ UNCHANGED <<pc, lines, kind, ignores>>
    BY <1>1 DEF CtrlC, Line0
  <2>2. killed \subseteq Child /\ \A p \in killed : Alive(p)
    OBVIOUS
  <2> HIDE DEF killed
  <2>3. state' \in [Child -> States]
    BY <2>1 DEF States
  <2>4. \A p \in Child : state'[p] = IF p \in killed THEN "dead" ELSE state[p]
    BY <2>1
  <2>5. \A l \in Line0 : Holders(l)' = Holders(l) \ killed
    BY <2>1 DEF Holders
  <2> QED
    BY <2>1, <2>2, <2>3, <2>4, <2>5 DEF ChildMoves
<1>2. ASSUME NEW l \in Line0, NEW n \in {1, 2}, CloseUnused(l, n) PROVE ChildMoves
  BY <1>2 DEF CloseUnused, ChildMoves
<1>3. ASSUME NEW l \in Line0, NEW n \in {1, 2}, RestoreSigint(l, n) PROVE ChildMoves
  <2> DEFINE p == <<l, n>>
  <2>1. /\ p \in Child /\ kind[p[1]] # "background" /\ Alive(p)
        /\ state' = [state EXCEPT ![p] = "default"] /\ ignores' = ignores \ {p}
        /\ UNCHANGED <<pc, lines, kind, readers, writers, outputs>>
    BY <1>3, Children DEF RestoreSigint, Alive, fds
  <2> HIDE DEF p
  <2>2. state' \in [Child -> States] /\ \A q \in Child : q # p => state'[q] = state[q]
    BY <2>1 DEF States
  <2>3. state'[p] = "default"
    BY <2>1
  <2> QED
    BY <2>1, <2>2, <2>3 DEF ChildMoves
<1>4. ASSUME NEW l \in Line0, NEW n \in {1, 2}, Exec(l, n) PROVE ChildMoves
  <2> DEFINE p == <<l, n>>
  <2>1. /\ p \in Child /\ Alive(p) /\ state' = [state EXCEPT ![p] = "execd"]
        /\ UNCHANGED <<pc, lines, kind, ignores, readers, writers, outputs>>
    BY <1>4, Children DEF Exec, BeforeExec, Alive, fds
  <2> HIDE DEF p
  <2>2. state' \in [Child -> States] /\ \A q \in Child : q # p => state'[q] = state[q]
    BY <2>1 DEF States
  <2>3. state'[p] = "execd"
    BY <2>1
  <2> QED
    BY <2>1, <2>2, <2>3 DEF ChildMoves
<1>5. ASSUME NEW l \in Line0, NEW n \in {1, 2}, ExecFails(l, n) \/ ProgramEnds(l, n)
      PROVE  ChildMoves
  BY <1>5, EndsMoves DEF ExecFails, ProgramEnds, BeforeExec, Alive
<1>6. ASSUME NEW l \in Line0, ReaderStops(l) PROVE ChildMoves
  BY <1>6, EndsMoves DEF ReaderStops, Alive
<1> QED
  BY <1>1, <1>2, <1>3, <1>4, <1>5, <1>6 DEF Runs

-----------------------------------------------------------------------------
\* The steps of the shell that fork nothing leave every child alone.
LEMMA SameChildren ==
  ASSUME SInv, UNCHANGED <<lines, kind, state, ignores>>
  PROVE  /\ first' = first /\ second' = second /\ Line' = Line
         /\ \A p \in Child : Alive(p)' <=> Alive(p)
         /\ BackgroundIgnores'
         /\ lines \in Line0 => first \in Child /\ second \in Child
BY Children DEF SInv, first, second, Line, Alive, BackgroundIgnores

\* A new line: its children do not exist yet, and nothing of it is open.
LEMMA ReadPreserves ==
  ASSUME SInv, NEW k \in Kinds, ReadLine(k)
  PROVE  SInv'
<1> USE DEF SInv
<1>1. /\ lines \in 0..MaxLines /\ lines < MaxLines /\ lines' = lines + 1 /\ pc = "prompt"
      /\ pc' = IF k \in {"pipe", "redirect"} THEN "open" ELSE "fork"
      /\ kind' = [kind EXCEPT ![lines + 1] = k] /\ kind \in [Line0 -> Kinds]
      /\ UNCHANGED <<state, ignores, readers, writers, outputs>>
  BY DEF ReadLine, Goto, Typed, fds
<1>2. lines' \in Line0 /\ \A l \in Line0 : l > lines' => l > lines
  BY <1>1, ShellAssumption DEF Line0
<1>3. /\ kind' \in [Line0 -> Kinds] /\ kind'[lines'] = k
      /\ \A l \in Line0 : l # lines' => kind'[l] = kind[l]
  BY <1>1, <1>2
<1>4. Typed'
  BY <1>1, <1>2, <1>3 DEF Typed, Pcs, Line0
<1>5. KindFits'
  BY <1>1, <1>3 DEF KindFits, Line
<1>6. /\ \A l \in Line0 : Holders(l)' = Holders(l)
      /\ \A p \in Child : Alive(p)' <=> Alive(p)
  BY <1>1 DEF Holders, Alive
<1>7. lines' > lines
  BY <1>1
<1>8. FdsFit'
  BY <1>1, <1>2, <1>3, <1>6, <1>7 DEF FdsFit, Holders
<1>9. \A l \in Line0 : l >= lines' => state[<<l, 1>>] = "none" /\ state[<<l, 2>>] = "none"
  <2>1. \A l \in Line0 : l >= lines' => l > lines
    BY <1>1, ShellAssumption DEF Line0
  <2> QED
    BY <2>1 DEF ChildrenFit
<1>10. ChildrenFit'
  <2>1. \A l \in Line0 : l > lines' => state'[<<l, 1>>] = "none" /\ state'[<<l, 2>>] = "none"
    BY <1>1, <1>2, <1>9
  <2>2. \A l \in Line0 : kind'[l] # "pipe" => state'[<<l, 2>>] = "none"
    <3>1. state[<<lines', 1>>] = "none" /\ state[<<lines', 2>>] = "none"
      BY <1>2, <1>9 DEF Line0
    <3>2. \A l \in Line0 : kind[l] # "pipe" => state[<<l, 2>>] = "none"
      BY DEF ChildrenFit
    <3> QED
      BY <1>1, <1>3, <3>1, <3>2
  <2>3. \A l \in Line0 : l < lines' /\ kind'[l] # "background"
                         => ~ Alive(<<l, 1>>)' /\ ~ Alive(<<l, 2>>)'
    <3> SUFFICES ASSUME NEW l \in Line0, l < lines', kind'[l] # "background"
                 PROVE  ~ Alive(<<l, 1>>)' /\ ~ Alive(<<l, 2>>)'
      OBVIOUS
    <3>1. kind[l] # "background" /\ l \in Nat
      BY <1>3, ShellAssumption DEF Line0
    <3>2. l < lines \/ l = lines
      BY <1>1, <3>1
    <3>3. ~ Alive(<<l, 1>>) /\ ~ Alive(<<l, 2>>)
      <4>1. CASE l < lines
        BY <1>1, <3>1, <4>1 DEF ChildrenFit
      <4>2. CASE l = lines
        BY <1>1, <3>1, <4>2, ShellAssumption DEF ChildrenFit, first, second, Line, Line0
      <4> QED
        BY <3>2, <4>1, <4>2
    <3> QED
      BY <1>6, <3>3, Children
  <2>4. state'[first'] = "none" /\ state'[second'] = "none"
    BY <1>1, <1>2, <1>9 DEF first, second
  <2>5. pc' \in {"open", "fork"}
    BY <1>1
  <2> QED
    BY <2>1, <2>2, <2>3, <2>4, <2>5 DEF ChildrenFit
<1>11. ShellHolds'
  <2>1. SH \notin Holders(lines')
    BY <1>1, <1>2, <1>7 DEF FdsFit
  <2>2. \A l \in Line0 : SH \notin Holders(l)
    BY <1>1 DEF ShellHolds
  <2> QED
    BY <1>1, <1>6, <2>2 DEF ShellHolds
<1>12. BackgroundIgnores'
  <2> SUFFICES ASSUME NEW p \in Child, Alive(p)', kind'[p[1]] = "background" PROVE p \in ignores'
    BY DEF BackgroundIgnores
  <2>1. p[1] # lines'
    <3>1. Alive(p) /\ p = <<p[1], p[2]>> /\ p[1] \in Line0 /\ p[2] \in {1, 2}
      BY <1>6, Children
    <3> QED
      <4>1. state[<<lines', 1>>] = "none" /\ state[<<lines', 2>>] = "none"
        BY <1>2, <1>9 DEF Line0
      <4> QED
        BY <3>1, <4>1 DEF Alive
  <2>2. kind[p[1]] = "background" /\ Alive(p)
    BY <1>3, <1>6, <2>1, Children
  <2> QED
    BY <1>1, <2>2 DEF BackgroundIgnores
<1> QED
  BY <1>4, <1>5, <1>8, <1>10, <1>11, <1>12

\* The shell ends, and lets go of everything.
LEMMA ExitPreserves ==
  ASSUME SInv, NEW from, Exit(from)
  PROVE  SInv'
<1> USE DEF SInv
<1>1. /\ pc' = "ended" /\ UNCHANGED <<lines, kind, state, ignores>>
      /\ readers' = [l \in Line0 |-> readers[l] \ {SH}]
      /\ writers' = [l \in Line0 |-> writers[l] \ {SH}]
      /\ outputs' = [l \in Line0 |-> outputs[l] \ {SH}]
  BY DEF Exit, Goto, Line0
<1>2. \A p \in Child : Alive(p)' <=> Alive(p)
  BY <1>1, SameChildren
<1>3. \A l \in Line0 : Holders(l)' = Holders(l) \ {SH}
  BY <1>1 DEF Holders
<1>4. Typed'
  BY <1>1 DEF Typed, Pcs
<1>5. KindFits' /\ ShellHolds'
  BY <1>1, <1>3 DEF KindFits, ShellHolds
<1>6. FdsFit'
  BY <1>1, <1>2, <1>3 DEF FdsFit
<1>7. ChildrenFit'
  BY <1>1 DEF ChildrenFit
<1> QED
  BY <1>1, <1>4, <1>5, <1>6, <1>7, SameChildren

\* The pipe or the file is opened.
LEMMA OpenPreserves ==
  ASSUME SInv, OpenFds
  PROVE  SInv'
<1> USE DEF SInv
<1>1. /\ pc = "open" /\ pc' = "fork" /\ UNCHANGED <<lines, kind, state, ignores>>
      /\ lines \in Line0
  BY DEF OpenFds, Goto, Typed
<1>2. \/ /\ Line = "pipe" /\ readers' = [readers EXCEPT ![lines] = {SH}]
         /\ writers' = [writers EXCEPT ![lines] = {SH}] /\ outputs' = outputs
      \/ /\ Line = "redirect" /\ outputs' = [outputs EXCEPT ![lines] = {SH}]
         /\ UNCHANGED <<readers, writers>>
  BY <1>1 DEF OpenFds, KindFits
<1>3. \A l \in Line0 : l # lines => Holders(l)' = Holders(l)
  BY <1>1, <1>2 DEF Holders, Typed
<1>4. Typed'
  <2>1. SH \in Process
    BY DEF Process
  <2> QED
    BY <1>1, <1>2, <2>1 DEF Typed, Pcs
<1>5. KindFits'
  BY <1>1 DEF KindFits
<1>6. \A p \in Holders(lines)' : p = SH \/ p \in Holders(lines)
  BY <1>1, <1>2 DEF Holders, Typed
<1>7. FdsFit'
  <2>1. \A p \in Child : Alive(p)' <=> Alive(p)
    BY <1>1, SameChildren
  <2>2. ASSUME NEW l \in Line0, l # lines
        PROVE  /\ \A p \in Holders(l)' : p = SH \/ (p \in Child /\ p[1] = l /\ Alive(p)')
               /\ outputs'[l] = outputs[l] /\ readers'[l] = readers[l] /\ writers'[l] = writers[l]
    BY <1>2, <1>3, <2>1, <2>2 DEF FdsFit, Typed
  <2>3. /\ \A p \in Holders(lines)' : p = SH \/ (p \in Child /\ p[1] = lines /\ Alive(p)')
        /\ outputs'[lines] # {} => Line = "redirect"
        /\ readers'[lines] \cup writers'[lines] # {} => Line = "pipe"
    BY <1>1, <1>2, <1>6, <2>1 DEF FdsFit, Line
  <2>4. ~ (lines > lines)
    BY <1>1, ShellAssumption DEF Line0
  <2> QED
    BY <1>1, <1>3, <2>2, <2>3, <2>4 DEF FdsFit, Line
<1>8. ChildrenFit'
  BY <1>1, SameChildren DEF ChildrenFit, Alive
<1>9. ShellHolds'
  BY <1>1, <1>3 DEF ShellHolds
<1> QED
  BY <1>1, <1>4, <1>5, <1>7, <1>8, <1>9, SameChildren

(***************************************************************************)
(* The shell closes what it does not need, or waits for a child: it lets   *)
(* go of some of its line's descriptors and goes on.                       *)
(***************************************************************************)
Closes ==
  /\ UNCHANGED <<lines, kind, state, ignores>> /\ lines \in Line0
  /\ \E R, W, O \in SUBSET {SH} :
       /\ readers' = [readers EXCEPT ![lines] = @ \ R]
       /\ writers' = [writers EXCEPT ![lines] = @ \ W]
       /\ outputs' = [outputs EXCEPT ![lines] = @ \ O]

\* Such a step takes nothing from the children.
LEMMA ClosesPreserves ==
  ASSUME SInv, Closes, pc' \in Pcs \ {"open", "fork", "fork2"},
         KindFits', ShellHolds',
         pc' = "wait2" => ~ Alive(first), pc # "ended",
         pc' = "prompt" /\ Line # "background" => ~ Alive(first) /\ ~ Alive(second)
  PROVE  SInv'
<1> USE DEF SInv
<1>1. UNCHANGED <<lines, kind, state, ignores>> /\ lines \in Line0
  BY DEF Closes
<1>2. PICK R \in SUBSET {SH}, W \in SUBSET {SH}, O \in SUBSET {SH} :
        /\ readers' = [readers EXCEPT ![lines] = @ \ R]
        /\ writers' = [writers EXCEPT ![lines] = @ \ W]
        /\ outputs' = [outputs EXCEPT ![lines] = @ \ O]
  BY DEF Closes
<1>3. \A l \in Line0 : /\ readers'[l] \subseteq readers[l] /\ writers'[l] \subseteq writers[l]
                      /\ outputs'[l] \subseteq outputs[l] /\ Holders(l)' \subseteq Holders(l)
  BY <1>1, <1>2 DEF Typed, Holders
<1>4. Typed'
  BY <1>1, <1>2 DEF Typed
<1>5. FdsFit'
  <2>1. \A p \in Child : Alive(p)' <=> Alive(p)
    BY <1>1, SameChildren
  <2> QED
    BY <1>1, <1>3, <2>1 DEF FdsFit
<1>6. ChildrenFit'
  <2>1. first' = first /\ second' = second /\ Line' = Line /\ pc' \notin {"open", "fork", "fork2"}
    BY <1>1 DEF first, second, Line
  <2> QED
    BY <1>1, <2>1, Zenon DEF ChildrenFit, Alive
<1> QED
  BY <1>1, <1>4, <1>5, <1>6, SameChildren

\* The ends of the pipe are closed, the children waited for, the file closed.
LEMMA CloseAndWaitPreserve ==
  ASSUME SInv, CloseRead \/ CloseWrite \/ Wait1 \/ Wait2
  PROVE  SInv'
<1> USE DEF SInv
<1>1. /\ UNCHANGED <<lines, kind, state, ignores>> /\ lines \in Line0
      /\ first' = first /\ second' = second /\ Line' = Line
  BY DEF CloseRead, CloseWrite, Wait1, Wait2, Goto, fds, Typed, first, second, Line
<1> DEFINE Less(f, S) == [f EXCEPT ![lines] = @ \ S]
<1>2. {SH} \in SUBSET {SH} /\ {} \in SUBSET {SH}
  OBVIOUS
<1>3. ASSUME NEW R \in SUBSET {SH}, NEW W \in SUBSET {SH}, NEW O \in SUBSET {SH},
             readers' = Less(readers, R), writers' = Less(writers, W),
             outputs' = Less(outputs, O)
      PROVE  /\ Closes
             /\ \A l \in Line0 : l # lines => Holders(l)' = Holders(l)
             /\ readers'[lines] = readers[lines] \ R /\ writers'[lines] = writers[lines] \ W
             /\ outputs'[lines] = outputs[lines] \ O
  BY <1>1, <1>3 DEF Closes, Typed, Holders
<1>4. CASE CloseRead
  <2>1. pc = "close1" /\ pc' = "close2" /\ readers' = Less(readers, {SH})
        /\ UNCHANGED <<writers, outputs>>
    BY <1>4 DEF CloseRead, Goto
  <2>2. /\ writers' = Less(writers, {})
        /\ outputs' = Less(outputs, {})
    BY <1>1, <2>1 DEF Typed
  <2>3. /\ Closes /\ \A l \in Line0 : l # lines => Holders(l)' = Holders(l)
        /\ SH \notin readers'[lines]
    <3> HIDE DEF Less
    <3>1. /\ Closes /\ \A l \in Line0 : l # lines => Holders(l)' = Holders(l)
          /\ readers'[lines] = readers[lines] \ {SH}
      BY <1>2, <1>3, <2>1, <2>2
    <3> QED
      BY <3>1
  <2>4. KindFits' /\ ShellHolds'
    BY <1>1, <2>1, <2>3 DEF KindFits, ShellHolds
  <2> QED
    BY <2>1, <2>3, <2>4, ClosesPreserves DEF Pcs
<1>5. CASE CloseWrite
  <2>1. pc = "close2" /\ pc' = "wait1" /\ writers' = Less(writers, {SH})
        /\ UNCHANGED <<readers, outputs>>
    BY <1>5 DEF CloseWrite, Goto
  <2>2. /\ readers' = Less(readers, {})
        /\ outputs' = Less(outputs, {})
    BY <1>1, <2>1 DEF Typed
  <2>3. /\ Closes /\ \A l \in Line0 : l # lines => Holders(l)' = Holders(l)
        /\ SH \notin writers'[lines]
    <3> HIDE DEF Less
    <3>1. /\ Closes /\ \A l \in Line0 : l # lines => Holders(l)' = Holders(l)
          /\ writers'[lines] = writers[lines] \ {SH}
      BY <1>2, <1>3, <2>1, <2>2
    <3> QED
      BY <3>1
  <2>4. KindFits' /\ ShellHolds'
    BY <1>1, <2>1, <2>3 DEF KindFits, ShellHolds
  <2> QED
    BY <2>1, <2>3, <2>4, ClosesPreserves DEF Pcs
<1>6. CASE Wait1
  <2>1. /\ pc = "wait1" /\ pc' = (IF Line = "pipe" THEN "wait2" ELSE "prompt")
        /\ outputs' = Less(outputs, {SH}) /\ UNCHANGED <<readers, writers>>
        /\ ~ Alive(first)
    BY <1>6 DEF Wait1, Goto
  <2>2. /\ readers' = Less(readers, {})
        /\ writers' = Less(writers, {})
    BY <1>1, <2>1 DEF Typed
  <2>3. /\ Closes /\ \A l \in Line0 : l # lines => Holders(l)' = Holders(l)
        /\ SH \notin outputs'[lines]
    <3> HIDE DEF Less
    <3> QED
      BY <1>2, <1>3, <2>1, <2>2
  <2>4. SH \notin readers'[lines] /\ SH \notin writers'[lines]
    BY <2>1 DEF ShellHolds
  <2>5. SH \notin Holders(lines)'
    BY <1>1, <2>3, <2>4 DEF Holders
  <2>6. KindFits' /\ ShellHolds'
    BY <1>1, <2>1, <2>3, <2>4, <2>5 DEF KindFits, ShellHolds
  <2>7. Line # "pipe" => ~ Alive(second)
    BY <1>1 DEF ChildrenFit, Alive, Line, second
  <2> QED
    BY <2>1, <2>3, <2>6, <2>7, ClosesPreserves DEF Pcs
<1>7. CASE Wait2
  <2>1. /\ pc = "wait2" /\ pc' = "prompt" /\ UNCHANGED <<readers, writers, outputs>>
        /\ ~ Alive(second) /\ ~ Alive(first) /\ Line = "pipe"
    BY <1>7 DEF Wait2, Goto, fds, ChildrenFit, KindFits
  <2>2. /\ readers' = Less(readers, {})
        /\ writers' = Less(writers, {})
        /\ outputs' = Less(outputs, {})
    BY <1>1, <2>1 DEF Typed
  <2>3. Closes /\ \A l \in Line0 : l # lines => Holders(l)' = Holders(l)
    <3> HIDE DEF Less
    <3> QED
      BY <1>2, <1>3, <2>2
  <2>4. SH \notin readers[lines] /\ SH \notin writers[lines] /\ outputs[lines] = {}
    BY <1>1, <2>1 DEF ShellHolds, FdsFit, Line
  <2>5. SH \notin Holders(lines)'
    BY <1>1, <2>1, <2>4 DEF Holders
  <2>6. KindFits' /\ ShellHolds'
    BY <1>1, <2>1, <2>3, <2>5 DEF KindFits, ShellHolds
  <2> QED
    BY <2>1, <2>3, <2>6, ClosesPreserves DEF Pcs
<1> QED
  BY <1>4, <1>5, <1>6, <1>7

\* A child is born: it inherits what the shell ignores and holds.
LEMMA ForkPreserves ==
  ASSUME SInv, Fork \/ Fork2
  PROVE  SInv'
<1> USE DEF SInv
<1>1. PICK n \in {1, 2} :
        /\ pc = (IF n = 1 THEN "fork" ELSE "fork2") /\ ForkChild(<<lines, n>>)
        /\ n = 2 => pc' = "close1"
        /\ n = 1 => pc' = CASE Line = "background" -> "prompt"
                            [] Line = "pipe" -> "fork2" [] OTHER -> "wait1"
  BY DEF Fork, Fork2, Goto, first, second
<1> DEFINE p == <<lines, n>>
<1>2. /\ lines \in Line0 /\ p \in Child /\ p[1] = lines /\ p \in Process
      /\ UNCHANGED <<lines, kind>> /\ ignores' = ignores \cup {p}
      /\ state' = [state EXCEPT ![p] = "forked"]
  BY <1>1, Children DEF ForkChild, Typed, Process
<1>3. /\ pc = "fork" \/ pc = "fork2"
      /\ pc' \in {"prompt", "fork2", "wait1", "close1"}
      /\ pc' = "prompt" => Line = "background"
      /\ pc' = "wait1" => Line # "background" /\ Line # "pipe"
      /\ pc' \in {"fork2", "close1"} => Line = "pipe"
      /\ n = 2 => Line = "pipe"
      /\ pc' = "fork2" => n = 1
  BY <1>1 DEF KindFits
<1>4. /\ readers' = [readers EXCEPT ![lines] = IF SH \in @ THEN @ \cup {p} ELSE @]
      /\ writers' = [writers EXCEPT ![lines] = IF SH \in @ THEN @ \cup {p} ELSE @]
      /\ outputs' = [outputs EXCEPT ![lines] = IF SH \in @ THEN @ \cup {p} ELSE @]
  BY <1>1 DEF ForkChild
<1>5. /\ first' = first /\ second' = second /\ Line' = Line
      /\ first = <<lines, 1>> /\ second = <<lines, 2>>
  BY <1>2 DEF first, second, Line
<1>6. p # SH /\ \A l \in Line0 : l # lines => p # <<l, 1>> /\ p # <<l, 2>>
  BY <1>2, Children
<1>7. n = 1 => p # second
  BY <1>5
<1>8. n = 1 => p = first
  BY <1>5
<1> HIDE DEF p
<1>9. \A q \in Child : state'[q] = IF q = p THEN "forked" ELSE state[q]
  BY <1>2 DEF Typed
<1>10. \A l \in Line0 : l # lines => Holders(l)' = Holders(l) /\ outputs'[l] = outputs[l]
                                    /\ readers'[l] = readers[l] /\ writers'[l] = writers[l]
  BY <1>2, <1>4 DEF Holders, Typed
<1>11. /\ readers'[lines] \subseteq readers[lines] \cup {p}
       /\ writers'[lines] \subseteq writers[lines] \cup {p}
       /\ outputs'[lines] \subseteq outputs[lines] \cup {p}
       /\ readers[lines] = {} => readers'[lines] = {}
       /\ writers[lines] = {} => writers'[lines] = {}
       /\ outputs[lines] = {} => outputs'[lines] = {}
  BY <1>2, <1>4 DEF Typed
<1>12. Typed'
  <2>1. state' \in [Child -> States]
    BY <1>2 DEF Typed, States
  <2>2. /\ readers' \in [Line0 -> SUBSET Process] /\ writers' \in [Line0 -> SUBSET Process]
        /\ outputs' \in [Line0 -> SUBSET Process]
    BY <1>2, <1>4 DEF Typed
  <2>3. pc' \in Pcs
    BY <1>3 DEF Pcs
  <2> QED
    BY <1>2, <2>1, <2>2, <2>3 DEF Typed
<1>13. KindFits'
  BY <1>3, <1>5 DEF KindFits
<1>14. FdsFit'
  <2>1. \A q \in Child : q = p \/ Alive(q) => Alive(q)'
    BY <1>9 DEF Alive
  <2>2. ASSUME NEW l \in Line0, NEW q \in Holders(l)'
        PROVE  q = SH \/ (q \in Child /\ q[1] = l /\ Alive(q)')
    <3>1. q \in Holders(l) \/ (l = lines /\ q = p)
      BY <1>10, <1>11, <2>2 DEF Holders
    <3> QED
      BY <1>2, <2>1, <3>1 DEF FdsFit
  <2>3. ASSUME NEW l \in Line0
        PROVE  /\ outputs'[l] # {} => kind'[l] = "redirect"
               /\ readers'[l] \cup writers'[l] # {} => kind'[l] = "pipe"
    <3>1. CASE l = lines
      BY <1>2, <1>11, <3>1 DEF FdsFit
    <3>2. CASE l # lines
      BY <1>2, <1>10, <3>2 DEF FdsFit
    <3> QED
      BY <3>1, <3>2
  <2>4. \A l \in Line0 : l > lines' => Holders(l)' = {}
    <3>1. \A l \in Line0 : l > lines => l # lines
      BY ShellAssumption DEF Line0
    <3> QED
      BY <1>2, <1>10, <3>1 DEF FdsFit
  <2> QED
    BY <2>2, <2>3, <2>4 DEF FdsFit
<1>15. ChildrenFit'
  <2>1. \A l \in Line0 : (l > lines => l # lines) /\ (l < lines => l # lines)
    BY ShellAssumption DEF Line0
  <2>2. \A l \in Line0 : l # lines => /\ state'[<<l, 1>>] = state[<<l, 1>>]
                                    /\ state'[<<l, 2>>] = state[<<l, 2>>]
    BY <1>6, <1>9, Children
  <2>3. \A l \in Line0 : l > lines => state'[<<l, 1>>] = "none" /\ state'[<<l, 2>>] = "none"
    BY <2>1, <2>2 DEF ChildrenFit
  <2>4. \A l \in Line0 : kind[l] # "pipe" => state'[<<l, 2>>] = "none"
    <3> SUFFICES ASSUME NEW l \in Line0, kind[l] # "pipe" PROVE state'[<<l, 2>>] = "none"
      OBVIOUS
    <3>1. state[<<l, 2>>] = "none"
      BY DEF ChildrenFit
    <3>2. l = lines => <<l, 2>> # p
      BY <1>3, <1>5, <1>7 DEF Line
    <3> QED
      BY <1>9, <2>2, <3>1, <3>2, Children
  <2>5. \A l \in Line0 : l < lines /\ kind[l] # "background"
                         => ~ Alive(<<l, 1>>)' /\ ~ Alive(<<l, 2>>)'
    BY <1>3, <2>1, <2>2 DEF ChildrenFit, Alive
  <2>6. pc' = "fork2" => state'[second] = "none"
    <3>1. second \in Child
      BY <1>2, <1>5, Children
    <3> QED
      BY <1>1, <1>3, <1>7, <1>9, <3>1 DEF ChildrenFit
  <2>7. pc' \notin {"open", "fork", "wait2"} /\ (pc' = "prompt" => Line = "background")
    BY <1>3
  <2> QED
    BY <1>2, <1>5, <2>3, <2>4, <2>5, <2>6, <2>7 DEF ChildrenFit
<1>16. ShellHolds'
  <2>1. \A l \in Line0 : l # lines => SH \notin Holders(l)'
    BY <1>10 DEF ShellHolds
  <2>2. Line = "background" => Holders(lines)' = {}
    BY <1>2, <1>11 DEF FdsFit, Line, Holders
  <2>3. Line # "pipe" => readers'[lines] = {} /\ writers'[lines] = {}
    BY <1>2, <1>11 DEF FdsFit, Line
  <2> QED
    BY <1>2, <1>3, <2>1, <2>2, <2>3 DEF ShellHolds
<1>17. BackgroundIgnores'
  <2>1. \A q \in Child : Alive(q)' => q = p \/ Alive(q)
    BY <1>9 DEF Alive
  <2> QED
    BY <1>2, <2>1 DEF BackgroundIgnores
<1> QED
  BY <1>12, <1>13, <1>14, <1>15, <1>16, <1>17

-----------------------------------------------------------------------------
\* The inductive invariant holds in every reachable state.
THEOREM ShellInvariant == Spec => []SInv
<1>1. SInv /\ [Next]_vars => SInv'
  <2> SUFFICES ASSUME SInv, [Next]_vars PROVE SInv'
    OBVIOUS
  <2>1. ASSUME NEW k \in Kinds, ReadLine(k) PROVE SInv'
    BY <2>1, ReadPreserves
  <2>2. CASE EndOfInput
    BY <2>2, ExitPreserves DEF EndOfInput
  <2>3. CASE process_arglist
    BY <2>3, ExitPreserves, OpenPreserves, ForkPreserves, CloseAndWaitPreserve
       DEF process_arglist, OpenFails, ForkFails
  <2>4. CASE CtrlC \/ \E l \in Line0 : ReaderStops(l) \/ \E n \in {1, 2} : Runs(l, n)
    BY <2>4, StepsMove, ChildMovesPreserves
  <2>5. CASE UNCHANGED vars
    <3>1. ChildMoves
      BY <2>5 DEF vars, ChildMoves, SInv, Typed
    <3> QED
      BY <3>1, ChildMovesPreserves
  <2> QED
    BY <2>1, <2>2, <2>3, <2>4, <2>5 DEF Next, Ended, Line0
<1> QED
  BY SInit, <1>1, PTL DEF Spec

\* At the prompt no foreground child of any earlier line is alive.
THEOREM ShellPromptAfterForeground == Spec => []PromptAfterForeground
<1>1. SInv => PromptAfterForeground
  <2> SUFFICES ASSUME SInv, pc = "prompt", NEW p \in Foreground PROVE ~ Alive(p)
    BY DEF PromptAfterForeground
  <2>1. p \in Child /\ kind[p[1]] # "background" /\ p[1] \in Line0 /\ (p = <<p[1], 1>> \/ p = <<p[1], 2>>)
    BY Children DEF Foreground
  <2>2. p[1] < lines \/ p[1] = lines \/ p[1] > lines
    BY <2>1, ShellAssumption DEF SInv, Typed, Line0
  <2>3. CASE p[1] < lines
    BY <2>1, <2>3 DEF SInv, ChildrenFit
  <2>4. CASE p[1] > lines
    BY <2>1, <2>4 DEF SInv, ChildrenFit, Alive
  <2>5. CASE p[1] = lines
    <3>1. lines > 0 /\ Line # "background" /\ (p = first \/ p = second)
      BY <2>1, <2>5, ShellAssumption DEF Line, first, second, Line0
    <3> QED
      BY <3>1 DEF SInv, ChildrenFit
  <2> QED
    BY <2>2, <2>3, <2>4, <2>5
<1> QED
  BY ShellInvariant, <1>1, PTL

\* Only live processes hold descriptors, of the kind of their line, and at the prompt the
\* shell holds none.
THEOREM ShellNothingHeldAtPrompt == Spec => []NothingHeldAtPrompt
<1>1. SInv => NothingHeldAtPrompt
  <2> SUFFICES ASSUME SInv PROVE NothingHeldAtPrompt
    OBVIOUS
  <2>1. \A l \in Line0 : Holders(l) \subseteq {SH} \cup {p \in Child : Alive(p)}
    BY DEF SInv, FdsFit
  <2>2. {readers, writers, outputs} \subseteq [Line0 -> SUBSET ({SH} \cup {p \in Child : Alive(p)})]
    BY <2>1 DEF SInv, Typed, Holders
  <2>3. TypeOK
    BY <2>2 DEF SInv, Typed, FdsFit, Pcs, States, Line0, TypeOK
  <2>4. pc = "prompt" => \A l \in 1..MaxLines : SH \notin readers[l] \cup writers[l] \cup outputs[l]
    BY DEF SInv, ShellHolds, Holders, Line0
  <2> QED
    BY <2>3, <2>4 DEF NothingHeldAtPrompt
<1> QED
  BY ShellInvariant, <1>1, PTL

\* Ctrl-C kills no background child, in whatever state it is.
THEOREM ShellBackgroundSurvives == Spec => BackgroundSurvives
<1>1. SInv /\ [Next]_vars => [CtrlC => \A p \in Child \ Foreground : Alive(p) => Alive(p)']_vars
  <2> SUFFICES ASSUME SInv, CtrlC, NEW p \in Child \ Foreground, Alive(p) PROVE Alive(p)'
    OBVIOUS
  <2>1. p \in ignores
    BY DEF SInv, BackgroundIgnores, Foreground
  <2>2. state'[p] = state[p]
    BY <2>1 DEF CtrlC
  <2> QED
    BY <2>2 DEF Alive
<1> QED
  BY ShellInvariant, <1>1, PTL DEF Spec, BackgroundSurvives
=============================================================================
