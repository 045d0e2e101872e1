-------------------------------- MODULE PFind --------------------------------
(***************************************************************************)
(* Operating Systems/ex4/C++ solution/pfind.cpp and thread_safe_queue.cpp: *)
(* threads that search a directory tree, sharing the directories still to  *)
(* be searched through a blocking queue.  A thread gives up when two pops, *)
(* with a nap between them, time out.  Every section under a mutex is one  *)
(* step, as nothing it reads is written outside that mutex; time is        *)
(* abstracted: a timed wait may end whenever its thread is blocked.        *)
(***************************************************************************)
EXTENDS Naturals, Sequences, FiniteSets

CONSTANTS
  Thread,    \* the num_threads searching threads
  Path,      \* the path names under the root
  Root,      \* argv[1]
  Kind,      \* Kind[p]: what stat, access and opendir say of path p
  Entries,   \* Entries[d]: the paths readdir lists in directory d
  NoPath

Kinds == {"dir", "unopenable", "denied", "match", "other", "unstatable"}

ASSUME FileSystemAssumption ==
  /\ Thread # {}
  /\ IsFiniteSet(Path)
  /\ Root \in Path /\ NoPath \notin Path
  /\ Kind \in [Path -> Kinds]
  /\ Entries \in [Path -> SUBSET Path]
  /\ \A d \in Path : Root \notin Entries[d]
  /\ \A d, e \in Path : d # e => Entries[d] \cap Entries[e] = {}

VARIABLES
  main_pc,          \* where main() is
  pc,               \* where each thread is
  attempt,          \* which of its two pops a searching thread is in
  curr_directory,   \* the directory a thread is processing
  entries,          \* the entries readdir has not returned yet
  directory_queue,  \* the queue of directories to search
  start_searching, files_found, error_occurred,
  printed,          \* the files whose path was printed
  searched          \* directories whose processing has ended

vars == <<main_pc, pc, attempt, curr_directory, entries, directory_queue,
          start_searching, files_found, error_occurred, printed, searched>>

results == <<files_found, error_occurred, printed>>

Goto(t, from, to) == pc[t] = from /\ pc' = [pc EXCEPT ![t] = to]

Init ==
  /\ main_pc = "push"
  /\ pc = [t \in Thread |-> "unborn"]
  /\ attempt = [t \in Thread |-> 1]
  /\ curr_directory = [t \in Thread |-> NoPath]
  /\ entries = [t \in Thread |-> {}]
  /\ directory_queue = <<>>
  /\ start_searching = FALSE /\ files_found = 0 /\ error_occurred = FALSE
  /\ printed = {} /\ searched = {}

(***************************************************************************)
(* main                                                                    *)
(***************************************************************************)
\* The root is pushed whatever it is; nobody can be waiting for it yet.
MainPush ==
  /\ main_pc = "push"
  /\ main_pc' = "spawn"
  /\ directory_queue' = Append(directory_queue, Root)
  /\ UNCHANGED <<pc, attempt, curr_directory, entries, start_searching, results, searched>>

MainSpawn(t) ==
  /\ main_pc = "spawn"
  /\ Goto(t, "unborn", "start")
  /\ main_pc' = IF \A u \in Thread \ {t} : pc[u] # "unborn" THEN "set" ELSE "spawn"
  /\ UNCHANGED <<attempt, curr_directory, entries, directory_queue, start_searching,
                 results, searched>>

MainSetStart ==
  /\ main_pc = "set"
  /\ main_pc' = "notify"
  /\ start_searching' = TRUE
  /\ UNCHANGED <<pc, attempt, curr_directory, entries, directory_queue, results, searched>>

MainNotifyAll ==
  /\ main_pc = "notify"
  /\ main_pc' = "join"
  /\ pc' = [t \in Thread |-> IF pc[t] = "start_wait" THEN "start" ELSE pc[t]]
  /\ UNCHANGED <<attempt, curr_directory, entries, directory_queue, start_searching,
                 results, searched>>

MainJoin ==
  /\ main_pc = "join"
  /\ \A t \in Thread : pc[t] = "done"
  /\ main_pc' = "exit"
  /\ UNCHANGED <<pc, attempt, curr_directory, entries, directory_queue, start_searching,
                 results, searched>>

(***************************************************************************)
(* ThreadSafeQueue::pop.  A thread in "pop" is about to lock and test the  *)
(* queue, in "pop_wait" it is blocked, and in "pop_timed" its time is over *)
(* and the queue is tested a last time.                                    *)
(***************************************************************************)
\* Mutant: front() without pop().
PopKeeps(t) ==
  /\ pc[t] \in {"pop", "pop_timed"}
  /\ directory_queue # <<>>
  /\ pc' = [pc EXCEPT ![t] = "open"]
  /\ curr_directory' = [curr_directory EXCEPT ![t] = Head(directory_queue)]
  /\ UNCHANGED <<main_pc, attempt, entries, directory_queue, start_searching, results,
                 searched>>

Pop(t) ==
  /\ pc[t] \in {"pop", "pop_timed"}
  /\ directory_queue # <<>>
  /\ pc' = [pc EXCEPT ![t] = "open"]
  /\ curr_directory' = [curr_directory EXCEPT ![t] = Head(directory_queue)]
  /\ directory_queue' = Tail(directory_queue)
  /\ UNCHANGED <<main_pc, attempt, entries, start_searching, results, searched>>

PopWait(t) ==
  /\ directory_queue = <<>>
  /\ Goto(t, "pop", "pop_wait")
  /\ UNCHANGED <<main_pc, attempt, curr_directory, entries, directory_queue,
                 start_searching, results, searched>>

PopTimeout(t) ==
  /\ Goto(t, "pop_wait", "pop_timed")
  /\ UNCHANGED <<main_pc, attempt, curr_directory, entries, directory_queue,
                 start_searching, results, searched>>

\* wait_for re-tests its predicate after a wakeup nobody sent.
PopSpurious(t) ==
  /\ Goto(t, "pop_wait", "pop")
  /\ UNCHANGED <<main_pc, attempt, curr_directory, entries, directory_queue,
                 start_searching, results, searched>>

\* Mutant: a thread never gives up.
PopNothingNaps(t) ==
  /\ directory_queue = <<>>
  /\ Goto(t, "pop_timed", "nap")
  /\ attempt' = [attempt EXCEPT ![t] = 2]
  /\ UNCHANGED <<main_pc, curr_directory, entries, directory_queue, start_searching,
                 results, searched>>

\* std::nullopt: the first time the thread naps and pops again, the second time
\* it leaves its loop.
PopNothing(t) ==
  /\ pc[t] = "pop_timed"
  /\ directory_queue = <<>>
  /\ pc' = [pc EXCEPT ![t] = IF attempt[t] = 1 THEN "nap" ELSE "done"]
  /\ attempt' = [attempt EXCEPT ![t] = 2]
  /\ UNCHANGED <<main_pc, curr_directory, entries, directory_queue, start_searching,
                 results, searched>>

(***************************************************************************)
(* searchingThread                                                         *)
(***************************************************************************)
AwaitStart(t) ==
  /\ pc[t] = "start"
  /\ pc' = [pc EXCEPT ![t] = IF start_searching THEN "pop" ELSE "start_wait"]
  /\ UNCHANGED <<main_pc, attempt, curr_directory, entries, directory_queue,
                 start_searching, results, searched>>

Nap(t) ==
  /\ Goto(t, "nap", "pop")
  /\ UNCHANGED <<main_pc, attempt, curr_directory, entries, directory_queue,
                 start_searching, results, searched>>

(***************************************************************************)
(* process_directory                                                       *)
(***************************************************************************)
Leave(t, from) ==
  /\ Goto(t, from, "pop")
  /\ attempt' = [attempt EXCEPT ![t] = 1]
  /\ curr_directory' = [curr_directory EXCEPT ![t] = NoPath]
  /\ searched' = searched \cup {curr_directory[t]}

OpenFails(t) ==
  /\ pc[t] = "open" /\ Kind[curr_directory[t]] # "dir"
  /\ Leave(t, "open")
  /\ error_occurred' = TRUE
  /\ UNCHANGED <<main_pc, entries, directory_queue, start_searching, files_found, printed>>

Open(t) ==
  /\ Goto(t, "open", "read")
  /\ Kind[curr_directory[t]] = "dir"
  /\ entries' = [entries EXCEPT ![t] = Entries[curr_directory[t]]]
  /\ UNCHANGED <<main_pc, attempt, curr_directory, directory_queue, start_searching,
                 results, searched>>

\* A subdirectory access() allows is pushed, even one opendir will refuse later.
ReadDirectory(t, p) ==
  /\ pc[t] = "read" /\ p \in entries[t]
  /\ Kind[p] \in {"dir", "unopenable"}
  /\ entries' = [entries EXCEPT ![t] = @ \ {p}]
  /\ directory_queue' = Append(directory_queue, p)
  /\ pc' = [pc EXCEPT ![t] = "notify"]
  /\ UNCHANGED <<main_pc, attempt, curr_directory, start_searching, results, searched>>

\* Mutants: a failing stat ends the loop; the error flag is overwritten.
ReadFileBreaks(t, p) ==
  /\ pc[t] = "read" /\ p \in entries[t]
  /\ Kind[p] \notin {"dir", "unopenable"}
  /\ entries' = [entries EXCEPT ![t] = IF Kind[p] = "unstatable" THEN {} ELSE @ \ {p}]
  /\ error_occurred' = (error_occurred \/ Kind[p] = "unstatable")
  /\ IF Kind[p] = "match"
     THEN printed' = printed \cup {p} /\ files_found' = files_found + 1
     ELSE UNCHANGED <<printed, files_found>>
  /\ UNCHANGED <<main_pc, pc, attempt, curr_directory, directory_queue, start_searching,
                 searched>>

ReadFileForgets(t, p) ==
  /\ pc[t] = "read" /\ p \in entries[t]
  /\ Kind[p] \notin {"dir", "unopenable"}
  /\ entries' = [entries EXCEPT ![t] = @ \ {p}]
  /\ error_occurred' = (Kind[p] = "unstatable")
  /\ IF Kind[p] = "match"
     THEN printed' = printed \cup {p} /\ files_found' = files_found + 1
     ELSE UNCHANGED <<printed, files_found>>
  /\ UNCHANGED <<main_pc, pc, attempt, curr_directory, directory_queue, start_searching,
                 searched>>

ReadFile(t, p) ==
  /\ pc[t] = "read" /\ p \in entries[t]
  /\ Kind[p] \notin {"dir", "unopenable"}
  /\ entries' = [entries EXCEPT ![t] = @ \ {p}]
  /\ error_occurred' = (error_occurred \/ Kind[p] = "unstatable")
  /\ IF Kind[p] = "match"
     THEN printed' = printed \cup {p} /\ files_found' = files_found + 1
     ELSE UNCHANGED <<printed, files_found>>
  /\ UNCHANGED <<main_pc, pc, attempt, curr_directory, directory_queue, start_searching,
                 searched>>

\* notify_one, after the push's lock is released: wakes one blocked thread, if any.
NotifyOne(t) ==
  /\ pc[t] = "notify"
  /\ LET blocked == {u \in Thread : pc[u] = "pop_wait"} IN
       \/ /\ blocked = {}
          /\ pc' = [pc EXCEPT ![t] = "read"]
       \/ \E u \in blocked : pc' = [pc EXCEPT ![t] = "read", ![u] = "pop"]
  /\ UNCHANGED <<main_pc, attempt, curr_directory, entries, directory_queue,
                 start_searching, results, searched>>

CloseDirectory(t) ==
  /\ entries[t] = {}
  /\ Leave(t, "read")
  /\ UNCHANGED <<main_pc, entries, directory_queue, start_searching, results>>

Main == MainPush \/ (\E t \in Thread : MainSpawn(t)) \/ MainSetStart \/ MainNotifyAll
        \/ MainJoin

Searching(t) ==
  \/ AwaitStart(t) \/ Pop(t) \/ PopWait(t) \/ PopTimeout(t) \/ PopNothing(t) \/ Nap(t)
  \/ OpenFails(t) \/ Open(t) \/ NotifyOne(t) \/ CloseDirectory(t)
  \/ \E p \in Path : ReadDirectory(t, p) \/ ReadFile(t, p)

\* The process is over: main returned.
Exited == main_pc = "exit" /\ UNCHANGED vars

Next == Main \/ Exited \/ \E t \in Thread : Searching(t) \/ PopSpurious(t)

Spec == Init /\ [][Next]_vars

\* main and every thread run whenever they can.  A timed wait ends however often it
\* is interrupted by spurious wakeups, as wait_for fixes its deadline once (strong
\* fairness of the timeout); nothing forces a spurious wakeup.
FairSpec ==
  /\ Spec
  /\ WF_vars(Main)
  /\ \A t \in Thread : WF_vars(Searching(t)) /\ SF_vars(PopTimeout(t))

-----------------------------------------------------------------------------
ThreadPc == {"unborn", "start", "start_wait", "pop", "pop_wait", "pop_timed", "nap",
             "open", "read", "notify", "done"}

TypeOK ==
  /\ main_pc \in {"push", "spawn", "set", "notify", "join", "exit"}
  /\ pc \in [Thread -> ThreadPc]
  /\ attempt \in [Thread -> 1..2]
  /\ curr_directory \in [Thread -> Path \cup {NoPath}]
  /\ entries \in [Thread -> SUBSET Path]
  /\ directory_queue \in Seq(Path)
  /\ start_searching \in BOOLEAN /\ error_occurred \in BOOLEAN
  /\ files_found \in Nat
  /\ printed \subseteq Path /\ searched \subseteq Path

Busy == {t \in Thread : curr_directory[t] # NoPath}
Queued == {directory_queue[k] : k \in 1..Len(directory_queue)}

\* The directories that a search of the tree has to process: the root, and what the
\* directories that open list and access() allows.
Searchable(d) == IF Kind[d] = "dir" THEN {p \in Entries[d] : Kind[p] \in {"dir", "unopenable"}}
                                    ELSE {}
Closed(S) == Root \in S /\ \A d \in S : Searchable(d) \subseteq S
Reachable == {p \in Path : \A S \in SUBSET Path : Closed(S) => p \in S}
Opened == {d \in Reachable : Kind[d] = "dir"}
Wanted == {p \in Path : Kind[p] = "match" /\ \E d \in Opened : p \in Entries[d]}
Faulty == \/ \E d \in Reachable : Kind[d] # "dir"
          \/ \E d \in Opened : \E p \in Entries[d] : Kind[p] = "unstatable"

\* A directory is queued, being processed by one thread, or finished, never two of
\* these and never twice (lines 44-96 under any interleaving of the threads).
OneSearcherPerDirectory ==
  /\ \A k, l \in 1..Len(directory_queue) : directory_queue[k] = directory_queue[l] => k = l
  /\ \A t, u \in Busy : t # u => curr_directory[t] # curr_directory[u]
  /\ \A t \in Busy : curr_directory[t] \notin Queued \cup searched
  /\ Queued \cap searched = {}

\* When every thread has given up (lines 88-91), no directory is left unsearched: the
\* two timed-out pops of a thread never make it leave work that no other thread does.
NothingLeftBehind ==
  (\A t \in Thread : pc[t] = "done") =>
    directory_queue = <<>> /\ searched = Reachable

\* What main prints and returns (lines 116-118) is what a search of the whole tree
\* gives: the number of matching files, and whether anything failed.
ResultIsExact ==
  main_pc = "exit" =>
    /\ printed = Wanted /\ files_found = Cardinality(Wanted)
    /\ error_occurred <=> Faulty

Found == INSTANCE Search WITH
  Wanted <- Wanted, reported <- printed,
  total <- IF main_pc = "exit" THEN <<files_found>> ELSE <<>>
\* The search ends, and then it has delivered: a refinement of Search (lines 98-118).
SearchIsComplete == Found!Spec
=============================================================================
