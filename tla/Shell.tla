--------------------------------- MODULE Shell ---------------------------------
(***************************************************************************)
(* Operating Systems/ex2: the shell of C++ solution/shell.cpp (the loop)   *)
(* and myshell.cpp (process_arglist): commands that run in the background, *)
(* in the foreground, with their output redirected, or as two ends of a    *)
(* pipe, with SIGINT ignored by some and fatal to others.  Every fork,     *)
(* close, signal, exec and wait of every process is a step.                *)
(***************************************************************************)
EXTENDS Naturals, FiniteSets

CONSTANTS
  MaxLines,     \* bound: command lines typed
  ForksFail     \* may fork, pipe and open fail?

ASSUME ShellAssumption == MaxLines \in Nat /\ ForksFail \in BOOLEAN

Kinds == {"background", "pipe", "redirect", "regular"}
SH == <<0, 0>>                             \* the shell itself
Child == (1..MaxLines) \X {1, 2}           \* the children of each line
Process == Child \cup {SH}

VARIABLES
  pc,         \* where the shell is
  lines,      \* lines read so far
  kind,       \* the kind of each line
  state,      \* of each child: "none", "forked", "default", "execd", "dead"
  ignores,    \* the processes that ignore SIGINT
  readers, writers,   \* who holds the read and write end of each line's pipe
  outputs     \* who holds the file each line's output is redirected to

vars == <<pc, lines, kind, state, ignores, readers, writers, outputs>>
fds == <<readers, writers, outputs>>

first == <<lines, 1>>
second == <<lines, 2>>
Line == kind[lines]
Alive(p) == state[p] \in {"forked", "default", "execd"}

\* prepare: the shell ignores SIGINT, and SIGCHLD, so that no dead child stays.
Init ==
  /\ pc = "prompt" /\ lines = 0
  /\ kind = [l \in 1..MaxLines |-> "regular"]
  /\ state = [p \in Child |-> "none"]
  /\ ignores = {SH}
  /\ readers = [l \in 1..MaxLines |-> {}]
  /\ writers = [l \in 1..MaxLines |-> {}]
  /\ outputs = [l \in 1..MaxLines |-> {}]

Goto(from, to) == pc = from /\ pc' = to

(***************************************************************************)
(* main of shell.cpp                                                       *)
(***************************************************************************)
ReadLine(k) ==
  /\ lines < MaxLines
  /\ Goto("prompt", IF k \in {"pipe", "redirect"} THEN "open" ELSE "fork")
  /\ lines' = lines + 1
  /\ kind' = [kind EXCEPT ![lines + 1] = k]
  /\ UNCHANGED <<state, ignores, fds>>

\* The shell's exit closes what it holds.
Exit(from) ==
  /\ Goto(from, "ended")
  /\ readers' = [l \in 1..MaxLines |-> readers[l] \ {SH}]
  /\ writers' = [l \in 1..MaxLines |-> writers[l] \ {SH}]
  /\ outputs' = [l \in 1..MaxLines |-> outputs[l] \ {SH}]
  /\ UNCHANGED <<lines, kind, state, ignores>>

EndOfInput == Exit("prompt")

(***************************************************************************)
(* process_arglist, the parent                                             *)
(***************************************************************************)
\* pipe, or open of the redirection's file.
OpenFds ==
  /\ Goto("open", "fork")
  /\ IF Line = "pipe"
     THEN /\ readers' = [readers EXCEPT ![lines] = {SH}]
          /\ writers' = [writers EXCEPT ![lines] = {SH}]
          /\ UNCHANGED outputs
     ELSE /\ outputs' = [outputs EXCEPT ![lines] = {SH}]
          /\ UNCHANGED <<readers, writers>>
  /\ UNCHANGED <<lines, kind, state, ignores>>

\* process_arglist returns 0, and the loop ends.
OpenFails == ForksFail /\ Exit("open")

\* A child inherits what its parent ignores, and holds what its parent holds.
ForkChild(p) ==
  /\ state' = [state EXCEPT ![p] = "forked"]
  /\ ignores' = ignores \cup {p}
  /\ readers' = [readers EXCEPT ![lines] = IF SH \in @ THEN @ \cup {p} ELSE @]
  /\ writers' = [writers EXCEPT ![lines] = IF SH \in @ THEN @ \cup {p} ELSE @]
  /\ outputs' = [outputs EXCEPT ![lines] = IF SH \in @ THEN @ \cup {p} ELSE @]
  /\ UNCHANGED <<lines, kind>>

Fork ==
  /\ Goto("fork", CASE Line = "background" -> "prompt"
                    [] Line = "pipe" -> "fork2" [] OTHER -> "wait1")
  /\ ForkChild(first)

Fork2 == Goto("fork2", "close1") /\ ForkChild(second)

ForkFails == ForksFail /\ (Exit("fork") \/ Exit("fork2"))

CloseRead ==
  /\ Goto("close1", "close2")
  /\ readers' = [readers EXCEPT ![lines] = @ \ {SH}]
  /\ UNCHANGED <<lines, kind, state, ignores, writers, outputs>>

\* Mutant: the parent keeps the end it does not use.
CloseWriteNot ==
  /\ Goto("close2", "wait1")
  /\ UNCHANGED <<lines, kind, state, ignores, fds>>

CloseWrite ==
  /\ Goto("close2", "wait1")
  /\ writers' = [writers EXCEPT ![lines] = @ \ {SH}]
  /\ UNCHANGED <<lines, kind, state, ignores, readers, outputs>>

\* Mutants: only the first child of a pipe is waited for; the file stays open.
Wait1Only ==
  /\ Goto("wait1", "prompt")
  /\ ~ Alive(first)
  /\ outputs' = [outputs EXCEPT ![lines] = @ \ {SH}]
  /\ UNCHANGED <<lines, kind, state, ignores, readers, writers>>

Wait1KeepsFile ==
  /\ Goto("wait1", IF Line = "pipe" THEN "wait2" ELSE "prompt")
  /\ ~ Alive(first)
  /\ UNCHANGED <<lines, kind, state, ignores, fds>>

\* waitpid: with SIGCHLD ignored it fails with ECHILD once the child is gone.
Wait1 ==
  /\ Goto("wait1", IF Line = "pipe" THEN "wait2" ELSE "prompt")
  /\ ~ Alive(first)
  /\ outputs' = [outputs EXCEPT ![lines] = @ \ {SH}]
  /\ UNCHANGED <<lines, kind, state, ignores, readers, writers>>

Wait2 ==
  /\ Goto("wait2", "prompt")
  /\ ~ Alive(second)
  /\ UNCHANGED <<lines, kind, state, ignores, fds>>

process_arglist == OpenFds \/ OpenFails \/ Fork \/ Fork2 \/ ForkFails \/ CloseRead
                   \/ CloseWrite \/ Wait1 \/ Wait2

(***************************************************************************)
(* The children; l is the child's line, n says which of its children it is *)
(***************************************************************************)
\* The end of the pipe that the child does not use is closed; the other one, and the
\* file, become its standard input or output.
CloseUnused(l, n) ==
  LET p == <<l, n>> IN
  /\ state[p] = "forked" /\ kind[l] = "pipe"
  /\ IF n = 1
     THEN /\ p \in readers[l]
          /\ readers' = [readers EXCEPT ![l] = @ \ {p}] /\ UNCHANGED writers
     ELSE /\ p \in writers[l]
          /\ writers' = [writers EXCEPT ![l] = @ \ {p}] /\ UNCHANGED readers
  /\ UNCHANGED <<pc, lines, kind, state, ignores, outputs>>

Unused(l, n) == IF n = 1 THEN readers[l] ELSE writers[l]

\* Mutant: every child restores SIGINT.
RestoreSigintAlways(l, n) ==
  LET p == <<l, n>> IN
  /\ state[p] = "forked"
  /\ kind[l] = "pipe" => p \notin Unused(l, n)
  /\ ignores' = ignores \ {p}
  /\ state' = [state EXCEPT ![p] = IF kind[l] = "background" THEN @ ELSE "default"]
  /\ UNCHANGED <<pc, lines, kind, fds>>

\* signal(SIGINT, SIG_DFL), in every child but a background one.
RestoreSigint(l, n) ==
  LET p == <<l, n>> IN
  /\ state[p] = "forked" /\ kind[l] # "background"
  /\ kind[l] = "pipe" => p \notin Unused(l, n)
  /\ state' = [state EXCEPT ![p] = "default"]
  /\ ignores' = ignores \ {p}
  /\ UNCHANGED <<pc, lines, kind, fds>>

\* Whatever ends a process closes its descriptors.
Ends(l, p) ==
  /\ state' = [state EXCEPT ![p] = "dead"]
  /\ ignores' = ignores \ {p}
  /\ readers' = [readers EXCEPT ![l] = @ \ {p}]
  /\ writers' = [writers EXCEPT ![l] = @ \ {p}]
  /\ outputs' = [outputs EXCEPT ![l] = @ \ {p}]
  /\ UNCHANGED <<pc, lines, kind>>

BeforeExec(l) == IF kind[l] = "background" THEN "forked" ELSE "default"

Exec(l, n) ==
  /\ state[<<l, n>>] = BeforeExec(l)
  /\ state' = [state EXCEPT ![<<l, n>>] = "execd"]
  /\ UNCHANGED <<pc, lines, kind, ignores, fds>>

ExecFails(l, n) ==
  /\ state[<<l, n>>] = BeforeExec(l)
  /\ Ends(l, <<l, n>>)

\* What the programs do, as far as the shell depends on it.  The one that reads a pipe
\* ends at the end of its input, the one that writes it when somebody reads or nobody
\* can any more (SIGPIPE), every other whenever it likes.
ProgramEnds(l, n) ==
  LET p == <<l, n>> IN
  /\ state[p] = "execd"
  /\ kind[l] = "pipe" =>
       IF n = 2 THEN writers[l] = {}
       ELSE readers[l] = {} \/ (<<l, 2>> \in readers[l] /\ state[<<l, 2>>] = "execd")
  /\ Ends(l, p)

\* The reader of a pipe may also stop before the end of its input.
ReaderStops(l) == kind[l] = "pipe" /\ state[<<l, 2>>] = "execd" /\ Ends(l, <<l, 2>>)

\* Ctrl-C: SIGINT to the shell and to every child.
CtrlC ==
  LET killed == {p \in Child : Alive(p) /\ p \notin ignores} IN
  /\ killed # {}
  /\ state' = [p \in Child |-> IF p \in killed THEN "dead" ELSE state[p]]
  /\ readers' = [l \in 1..MaxLines |-> readers[l] \ killed]
  /\ writers' = [l \in 1..MaxLines |-> writers[l] \ killed]
  /\ outputs' = [l \in 1..MaxLines |-> outputs[l] \ killed]
  /\ UNCHANGED <<pc, lines, kind, ignores>>

Runs(l, n) == CloseUnused(l, n) \/ RestoreSigint(l, n) \/ Exec(l, n) \/ ExecFails(l, n)
              \/ ProgramEnds(l, n)

Ended == pc = "ended" /\ (\A p \in Child : ~ Alive(p)) /\ UNCHANGED vars

Next ==
  \/ \E k \in Kinds : ReadLine(k)
  \/ EndOfInput \/ process_arglist \/ CtrlC \/ Ended
  \/ \E l \in 1..MaxLines : ReaderStops(l) \/ \E n \in {1, 2} : Runs(l, n)

Spec == Init /\ [][Next]_vars

\* The shell and its foreground children run, and their programs come to an end; a
\* background program may run for ever, and nobody has to press Ctrl-C.
FairSpec ==
  /\ Spec
  /\ WF_vars(process_arglist)
  /\ \A l \in 1..MaxLines, n \in {1, 2} : WF_vars(Runs(l, n) /\ kind[l] # "background")

-----------------------------------------------------------------------------
Foreground == {p \in Child : kind[p[1]] # "background"}

\* The descriptors of a line are those of its kind, and only live processes hold them.
TypeOK ==
  /\ pc \in {"prompt", "open", "fork", "fork2", "close1", "close2", "wait1", "wait2", "ended"}
  /\ lines \in 0..MaxLines
  /\ kind \in [1..MaxLines -> Kinds]
  /\ state \in [Child -> {"none", "forked", "default", "execd", "dead"}]
  /\ ignores \subseteq Process
  /\ {readers, writers, outputs} \subseteq [1..MaxLines -> SUBSET ({SH} \cup {p \in Child : Alive(p)})]
  /\ \A l \in 1..MaxLines : /\ outputs[l] # {} => kind[l] = "redirect"
                            /\ readers[l] \cup writers[l] # {} => kind[l] = "pipe"

\* At the prompt no foreground child of an earlier line is alive (lines 134-135, 166,
\* 187), and nobody but background programs is left to Ctrl-C.
PromptAfterForeground == pc = "prompt" => \A p \in Foreground : ~ Alive(p)

\* The shell keeps no descriptor of a finished line, which would stop a later line's
\* reader from ever seeing the end of its input (lines 131-132, 167, 172).
NothingHeldAtPrompt ==
  /\ TypeOK
  /\ pc = "prompt" => \A l \in 1..MaxLines : SH \notin readers[l] \cup writers[l] \cup outputs[l]

\* Ctrl-C never kills a background child, in whatever state it is (lines 22, 58-59).
BackgroundSurvives ==
  [][CtrlC => \A p \in Child \ Foreground : Alive(p) => Alive(p)']_vars

\* Every command line comes to an end and gives the prompt back: no reader waits for
\* the end of a pipe that the shell, or it itself, still holds for writing (lines
\* 104-106, 121-123, 131-135).
PromptReturns == pc # "prompt" ~> pc \in {"prompt", "ended"}
=============================================================================
