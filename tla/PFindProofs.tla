----------------------------- MODULE PFindProofs -----------------------------
(***************************************************************************)
(* Proofs about PFind, for every directory tree and number of threads: its *)
(* state is well typed, every directory has one searcher, and when all     *)
(* threads have given up the whole tree was searched.  The inductive       *)
(* invariant says where each directory is (Fresh: not found twice;         *)
(* Covered: not forgotten) and who is left to search it.                   *)
(***************************************************************************)
EXTENDS PFind, SequenceTheorems, FiniteSetTheorems, TLAPS

-----------------------------------------------------------------------------
(* A queue after a push and a pop.                                         *)

SetOf(q) == {q[k] : k \in 1..Len(q)}
Injective(q) == \A k, l \in 1..Len(q) : q[k] = q[l] => k = l

\* Appending an element to a sequence without repetitions.
LEMMA AppendSet ==
  ASSUME NEW S, NEW q \in Seq(S), NEW e \in S
  PROVE  /\ SetOf(Append(q, e)) = SetOf(q) \cup {e}
         /\ Injective(q) /\ e \notin SetOf(q) => Injective(Append(q, e))
<1> DEFINE r == Append(q, e)
<1>1. /\ Len(q) \in Nat /\ Len(r) = Len(q) + 1
      /\ \A k \in 1..Len(q) : r[k] = q[k]
      /\ r[Len(q) + 1] = e
  BY AppendProperties
<1> HIDE DEF r
<1>2. SetOf(r) = SetOf(q) \cup {e}
  <2>1. ASSUME NEW x \in SetOf(r) PROVE x \in SetOf(q) \cup {e}
    BY <1>1, <2>1 DEF SetOf
  <2>2. SetOf(q) \subseteq SetOf(r)
    BY <1>1 DEF SetOf
  <2>3. e \in SetOf(r)
    BY <1>1 DEF SetOf
  <2> QED
    BY <2>1, <2>2, <2>3
<1>3. Injective(q) /\ e \notin SetOf(q) => Injective(r)
  BY <1>1 DEF Injective, SetOf
<1> QED
  BY <1>2, <1>3 DEF r

\* Removing the head of a sequence without repetitions.
LEMMA TailSet ==
  ASSUME NEW S, NEW q \in Seq(S), q # <<>>, Injective(q)
  PROVE  /\ Head(q) \in SetOf(q)
         /\ SetOf(Tail(q)) = SetOf(q) \ {Head(q)}
         /\ Injective(Tail(q))
<1> DEFINE r == Tail(q)
<1>1. /\ Len(q) \in Nat \ {0} /\ Len(r) = Len(q) - 1 /\ Head(q) = q[1]
      /\ \A k \in 1..Len(r) : r[k] = q[k + 1]
  BY HeadTailProperties
<1> HIDE DEF r
<1>2. q[1] \in SetOf(q)
  BY <1>1 DEF SetOf
<1>3. ASSUME NEW x \in SetOf(r) PROVE x \in SetOf(q) \ {q[1]}
  <2>1. PICK k \in 1..Len(r) : x = r[k]
    BY <1>3 DEF SetOf
  <2>2. k + 1 \in 1..Len(q) /\ x = q[k + 1] /\ k + 1 # 1
    BY <1>1, <2>1
  <2>3. 1 \in 1..Len(q)
    BY <1>1
  <2> QED
    BY <2>2, <2>3 DEF SetOf, Injective
<1>4. ASSUME NEW x \in SetOf(q) \ {q[1]} PROVE x \in SetOf(r)
  <2>1. PICK k \in 1..Len(q) : x = q[k]
    BY <1>4 DEF SetOf
  <2>2. k # 1 /\ k - 1 \in 1..Len(r)
    BY <1>1, <1>4, <2>1
  <2>3. r[k - 1] = x
    BY <1>1, <2>1, <2>2
  <2> QED
    BY <2>2, <2>3 DEF SetOf
<1>5. Injective(r)
  BY <1>1 DEF Injective
<1> QED
  BY <1>1, <1>2, <1>3, <1>4, <1>5 DEF r

-----------------------------------------------------------------------------
Current == {curr_directory[t] : t \in Busy}
Known == Queued \cup searched \cup Current     \* the directories found so far
Reading(t) == pc[t] \in {"read", "notify"}

\* A thread has a directory exactly while it processes one.
BusyFits == \A t \in Thread : curr_directory[t] # NoPath <=> pc[t] \in {"open", "read", "notify"}

\* Before main pushes the root there is nothing to search and nobody to do it.
Early ==
  main_pc = "push" =>
    directory_queue = <<>> /\ searched = {} /\ \A t \in Thread : pc[t] = "unborn"

\* What has not been read from a directory is not known from anywhere else.
Fresh ==
  /\ \A d \in Path :
       d \notin searched /\ (\A t \in Thread : Reading(t) => curr_directory[t] # d)
         => Entries[d] \cap Known = {}
  /\ \A t \in Thread : Reading(t) =>
       entries[t] \subseteq Entries[curr_directory[t]] /\ entries[t] \cap Known = {}

\* Everything that was found is known, or still to be read by a searching thread.
Covered ==
  /\ main_pc # "push" => Root \in Known
  /\ \A d \in searched : Searchable(d) \subseteq Known
  /\ \A t \in Thread : Reading(t) =>
       /\ Kind[curr_directory[t]] = "dir"
       /\ Searchable(curr_directory[t]) \subseteq Known \cup entries[t]

Within == Known \subseteq Reachable

\* A directory in the queue has a thread that may still take it.
SomebodyLeft == directory_queue # <<>> => \E t \in Thread : pc[t] # "done"

Typed == TypeOK /\ BusyFits /\ Early
IInv == Typed /\ OneSearcherPerDirectory /\ Fresh /\ Covered /\ Within /\ SomebodyLeft

\* The search tree is closed: what a reachable directory lists and access() allows is
\* reachable, and so is the root.
LEMMA ReachableIsClosed == Closed(Reachable)
  BY FileSystemAssumption DEF Closed, Reachable, Searchable

\* The initial states: nothing is known.
LEMMA InitEstablishes == Init => IInv
<1> SUFFICES ASSUME Init PROVE IInv
  OBVIOUS
<1>1. Busy = {} /\ Queued = {}
  BY DEF Init, Busy, Queued
<1>2. Known = {} /\ \A t \in Thread : ~ Reading(t)
  BY <1>1 DEF Known, Current, Reading, Init
<1>3. Typed
  <2>1. /\ main_pc \in {"push", "spawn", "set", "notify", "join", "exit"}
        /\ pc \in [Thread -> ThreadPc]
        /\ attempt \in [Thread -> 1..2]
    BY DEF Init, ThreadPc
  <2>2. /\ curr_directory \in [Thread -> Path \cup {NoPath}]
        /\ entries \in [Thread -> SUBSET Path]
        /\ directory_queue \in Seq(Path)
    BY DEF Init
  <2>3. start_searching \in BOOLEAN /\ error_occurred \in BOOLEAN
    BY Zenon DEF Init
  <2>4. files_found \in Nat /\ printed \subseteq Path /\ searched \subseteq Path
    BY DEF Init
  <2>5. TypeOK
    BY <2>1, <2>2, <2>3, <2>4 DEF TypeOK
  <2> QED
    BY <2>5 DEF Init, Typed, BusyFits, Early
<1>4. OneSearcherPerDirectory
  BY <1>1 DEF OneSearcherPerDirectory, Init
<1>5. Fresh /\ Covered /\ Within /\ SomebodyLeft
  BY <1>2 DEF Fresh, Covered, Within, SomebodyLeft, Init
<1> QED
  BY <1>3, <1>4, <1>5 DEF IInv

\* Every step keeps the types, gives a thread a directory exactly while it processes it,
\* and comes after main's push.
LEMMA TypedPreserved == Typed /\ [Next]_vars => Typed'
<1> SUFFICES ASSUME Typed, [Next]_vars PROVE Typed'
  OBVIOUS
<1> USE FileSystemAssumption DEF Typed, TypeOK, BusyFits, Early, ThreadPc, Goto, results
<1>1. CASE MainPush
  BY <1>1 DEF MainPush
<1>2. ASSUME NEW t \in Thread, MainSpawn(t) PROVE Typed'
  BY <1>2 DEF MainSpawn
<1>3. CASE MainSetStart \/ MainJoin
  BY <1>3 DEF MainSetStart, MainJoin
<1>4. CASE MainNotifyAll
  BY <1>4 DEF MainNotifyAll
<1>5. ASSUME NEW t \in Thread, Searching(t) PROVE Typed'
  <2>1. CASE AwaitStart(t)
    BY <2>1 DEF AwaitStart
  <2>2. CASE Pop(t)
    <3>1. Head(directory_queue) \in Path /\ Tail(directory_queue) \in Seq(Path)
      BY <2>2 DEF Pop
    <3> QED
      BY <2>2, <3>1 DEF Pop
  <2>3. CASE PopWait(t)
    BY <2>3 DEF PopWait
  <2>4. CASE PopTimeout(t)
    BY <2>4 DEF PopTimeout
  <2>5. CASE PopNothing(t)
    BY <2>5 DEF PopNothing
  <2>6. CASE Nap(t)
    BY <2>6 DEF Nap
  <2>7. CASE OpenFails(t)
    BY <2>7 DEF OpenFails, Leave
  <2>8. CASE Open(t)
    BY <2>8 DEF Open
  <2>9. CASE NotifyOne(t)
    BY <2>9 DEF NotifyOne
  <2>10. CASE CloseDirectory(t)
    BY <2>10 DEF CloseDirectory, Leave
  <2>11. ASSUME NEW p \in Path, ReadDirectory(t, p) PROVE Typed'
    BY <2>11 DEF ReadDirectory
  <2>12. ASSUME NEW p \in Path, ReadFile(t, p) PROVE Typed'
    BY <2>12 DEF ReadFile
  <2> QED
    BY <1>5, <2>1, <2>2, <2>3, <2>4, <2>5, <2>6, <2>7, <2>8, <2>9, <2>10, <2>11, <2>12
       DEF Searching
<1>6. ASSUME NEW t \in Thread, PopSpurious(t) PROVE Typed'
  BY <1>6 DEF PopSpurious
<1>7. CASE UNCHANGED vars
  BY <1>7 DEF vars
<1> HIDE DEF Typed, TypeOK, BusyFits, Early, ThreadPc, Goto, results
<1> QED
  BY <1>1, <1>2, <1>3, <1>4, <1>5, <1>6, <1>7 DEF Next, Main, Exited

\* What the invariant says of where directories are.
Places == OneSearcherPerDirectory /\ Fresh /\ Covered /\ Within

\* A step that moves no directory, reads no entry and leaves main past its push.
Quiet ==
  /\ UNCHANGED <<directory_queue, searched, curr_directory, entries>>
  /\ \A t \in Thread : Reading(t)' = Reading(t)
  /\ main_pc = "push" => main_pc' = "push"

\* Such a step leaves every directory where it is.
LEMMA QuietPreserves == Places /\ Quiet => Places'
<1> SUFFICES ASSUME Places, Quiet PROVE Places'
  OBVIOUS
<1>1. Queued' = Queued /\ Busy' = Busy /\ Current' = Current /\ Known' = Known
  BY DEF Quiet, Queued, Busy, Current, Known
<1>2. OneSearcherPerDirectory'
  BY <1>1 DEF Places, OneSearcherPerDirectory, Quiet
<1>3. Fresh'
  BY <1>1 DEF Places, Fresh, Quiet
<1>4. Covered'
  BY <1>1 DEF Places, Covered, Quiet
<1>5. Within'
  BY <1>1 DEF Places, Within
<1> QED
  BY <1>2, <1>3, <1>4, <1>5 DEF Places

\* Main pushes the root: it is the first directory known.
LEMMA PushPreserves == Typed /\ Places /\ MainPush => Places'
<1> SUFFICES ASSUME Typed, Places, MainPush PROVE Places'
  OBVIOUS
<1>1. directory_queue = <<>> /\ searched = {} /\ \A t \in Thread : pc[t] = "unborn"
  BY DEF MainPush, Typed, Early
<1>2. Busy = {}
  BY <1>1 DEF Typed, BusyFits, Busy
<1>3. directory_queue' = <<Root>>
  BY <1>1 DEF MainPush
<1>4. Queued' = {Root} /\ Busy' = {} /\ Current' = {} /\ searched' = {}
  BY <1>1, <1>2, <1>3 DEF MainPush, Queued, Busy, Current
<1>5. Known' = {Root} /\ \A t \in Thread : ~ Reading(t)'
  BY <1>1, <1>4 DEF Known, MainPush, Reading
<1>6. OneSearcherPerDirectory'
  BY <1>3, <1>4 DEF OneSearcherPerDirectory
<1>7. Fresh'
  BY <1>5, FileSystemAssumption DEF Fresh
<1>8. Covered'
  BY <1>4, <1>5 DEF Covered
<1>9. Within'
  BY <1>5, ReachableIsClosed DEF Within, Closed
<1> QED
  BY <1>6, <1>7, <1>8, <1>9 DEF Places

\* A thread pops a directory: it leaves the queue and is the thread's.
LEMMA PopPreserves ==
  ASSUME NEW t \in Thread, Typed, Places, Pop(t)
  PROVE  Places'
<1> DEFINE h == Head(directory_queue)
<1>1. /\ directory_queue \in Seq(Path) /\ directory_queue # <<>>
      /\ Injective(directory_queue) /\ Queued = SetOf(directory_queue)
  BY DEF Typed, TypeOK, Pop, Places, OneSearcherPerDirectory, Injective, Queued, SetOf
<1>2. /\ h \in Queued /\ Queued' = Queued \ {h} /\ Injective(directory_queue')
  BY <1>1, TailSet DEF Pop, Queued, SetOf
<1>3. h \in Path /\ h # NoPath
  BY <1>1, FileSystemAssumption, HeadTailProperties
<1>4. t \notin Busy /\ pc[t] \in {"pop", "pop_timed"}
  BY DEF Pop, Typed, BusyFits, Busy
<1>5. /\ curr_directory \in [Thread -> Path \cup {NoPath}] /\ pc \in [Thread -> ThreadPc]
      /\ curr_directory' = [curr_directory EXCEPT ![t] = h]
      /\ pc' = [pc EXCEPT ![t] = "open"]
      /\ UNCHANGED <<searched, entries, main_pc>>
  BY DEF Pop, Typed, TypeOK
<1>6. Busy' = Busy \cup {t} /\ Current' = Current \cup {h}
  BY <1>3, <1>4, <1>5 DEF Busy, Current
<1>7. Known' = Known /\ \A u \in Thread : Reading(u)' = Reading(u)
  BY <1>2, <1>4, <1>5, <1>6 DEF Known, Reading
<1>8. \A u \in Thread : Reading(u) => u # t /\ curr_directory'[u] = curr_directory[u]
  BY <1>4, <1>5 DEF Reading
<1> HIDE DEF h
<1>9. OneSearcherPerDirectory'
  <2>1. \A k, l \in 1..Len(directory_queue') :
           directory_queue'[k] = directory_queue'[l] => k = l
    BY <1>2 DEF Injective
  <2>2. \A u \in Busy : curr_directory'[u] = curr_directory[u] /\ curr_directory[u] # h
    BY <1>2, <1>4, <1>5 DEF Places, OneSearcherPerDirectory, Busy
  <2>3. curr_directory'[t] = h /\ h \notin searched
    BY <1>2, <1>5 DEF Places, OneSearcherPerDirectory
  <2>4. \A u, v \in Busy' : u # v => curr_directory'[u] # curr_directory'[v]
    BY <1>6, <2>2, <2>3 DEF Places, OneSearcherPerDirectory
  <2>5. \A u \in Busy' : curr_directory'[u] \notin Queued' \cup searched'
    BY <1>2, <1>5, <1>6, <2>2, <2>3 DEF Places, OneSearcherPerDirectory
  <2>6. Queued' \cap searched' = {}
    BY <1>2, <1>5 DEF Places, OneSearcherPerDirectory
  <2> QED
    BY <2>1, <2>4, <2>5, <2>6 DEF OneSearcherPerDirectory
<1>10. Fresh'
  BY <1>5, <1>7, <1>8 DEF Places, Fresh
<1>11. Covered'
  BY <1>5, <1>7, <1>8 DEF Places, Covered
<1>12. Within'
  BY <1>7 DEF Places, Within
<1> QED
  BY <1>9, <1>10, <1>11, <1>12 DEF Places

\* A thread is done with its directory, of which nothing is left to be read.
LEMMA LeavePreserves ==
  ASSUME NEW t \in Thread, Typed, Places, NEW from \in {"open", "read"}, Leave(t, from),
         Searchable(curr_directory[t]) \subseteq Known,
         UNCHANGED <<main_pc, entries, directory_queue>>
  PROVE  Places'
<1> DEFINE c == curr_directory[t]
<1>1. /\ curr_directory \in [Thread -> Path \cup {NoPath}] /\ pc \in [Thread -> ThreadPc]
      /\ curr_directory' = [curr_directory EXCEPT ![t] = NoPath]
      /\ pc' = [pc EXCEPT ![t] = "pop"]
      /\ searched' = searched \cup {c}
      /\ UNCHANGED <<main_pc, entries, directory_queue>>
  BY DEF Leave, Goto, Typed, TypeOK
<1>2. c # NoPath /\ c \in Path /\ t \in Busy
  BY <1>1 DEF Leave, Goto, Typed, BusyFits, Busy
<1>3. Queued' = Queued /\ Busy' = Busy \ {t}
  BY <1>1 DEF Queued, Busy
<1>4. \A u \in Busy \ {t} : curr_directory'[u] = curr_directory[u] /\ curr_directory[u] # c
  BY <1>1, <1>2 DEF Places, OneSearcherPerDirectory, Busy
<1>5. Current = Current' \cup {c} /\ Known' = Known
  <2>1. Current = Current' \cup {c}
    BY <1>2, <1>3, <1>4 DEF Current
  <2> QED
    BY <1>1, <1>3, <2>1 DEF Known
<1>6. \A u \in Thread : Reading(u)' => u # t /\ Reading(u) /\ curr_directory'[u] = curr_directory[u]
  BY <1>1 DEF Reading
<1>7. \A u \in Thread : Reading(u) => Reading(u)' \/ curr_directory[u] = c
  BY <1>1 DEF Reading
<1> HIDE DEF c
<1>8. OneSearcherPerDirectory'
  <2>1. \A u \in Busy' : curr_directory'[u] \notin Queued' \cup searched'
    BY <1>1, <1>3, <1>4 DEF Places, OneSearcherPerDirectory
  <2>2. Queued' \cap searched' = {}
    BY <1>1, <1>2, <1>3 DEF Places, OneSearcherPerDirectory, c
  <2>3. \A u, v \in Busy' : u # v => curr_directory'[u] # curr_directory'[v]
    BY <1>3, <1>4 DEF Places, OneSearcherPerDirectory
  <2> QED
    BY <1>1, <2>1, <2>2, <2>3 DEF Places, OneSearcherPerDirectory
<1>9. Fresh'
  <2>1. ASSUME NEW d \in Path, d \notin searched',
               \A u \in Thread : Reading(u)' => curr_directory'[u] # d
        PROVE  Entries[d] \cap Known' = {}
    <3>1. d \notin searched /\ d # c
      BY <1>1, <2>1
    <3>2. \A u \in Thread : Reading(u) => curr_directory[u] # d
      BY <1>6, <1>7, <2>1, <3>1
    <3> QED
      BY <1>5, <3>1, <3>2 DEF Places, Fresh
  <2>2. \A u \in Thread : Reading(u)' =>
          entries'[u] \subseteq Entries[curr_directory'[u]] /\ entries'[u] \cap Known' = {}
    BY <1>1, <1>5, <1>6 DEF Places, Fresh
  <2> QED
    BY <2>1, <2>2 DEF Fresh
<1>10. Covered'
  BY <1>1, <1>5, <1>6 DEF Places, Covered, c
<1>11. Within'
  BY <1>5 DEF Places, Within
<1> QED
  BY <1>8, <1>9, <1>10, <1>11 DEF Places

\* A directory that cannot be opened is left at once.
LEMMA OpenFailsPreserves ==
  ASSUME NEW t \in Thread, Typed, Places, OpenFails(t)
  PROVE  Places'
<1>1. Leave(t, "open") /\ UNCHANGED <<main_pc, entries, directory_queue>>
  BY DEF OpenFails
<1>2. Searchable(curr_directory[t]) = {}
  BY DEF OpenFails, Searchable
<1> QED
  BY <1>1, <1>2, LeavePreserves

\* A directory is closed when all its entries were read.
LEMMA ClosePreserves ==
  ASSUME NEW t \in Thread, Typed, Places, CloseDirectory(t)
  PROVE  Places'
<1>1. Leave(t, "read") /\ UNCHANGED <<main_pc, entries, directory_queue>>
  BY DEF CloseDirectory
<1>2. Searchable(curr_directory[t]) \subseteq Known
  BY DEF CloseDirectory, Leave, Goto, Reading, Places, Covered
<1> QED
  BY <1>1, <1>2, LeavePreserves

\* Opening a directory makes its entries, not known so far, the thread's to read.
LEMMA OpenPreserves ==
  ASSUME NEW t \in Thread, Typed, Places, Open(t)
  PROVE  Places'
<1> DEFINE c == curr_directory[t]
<1>1. /\ pc \in [Thread -> ThreadPc] /\ entries \in [Thread -> SUBSET Path]
      /\ pc[t] = "open" /\ pc' = [pc EXCEPT ![t] = "read"]
      /\ Kind[c] = "dir" /\ entries' = [entries EXCEPT ![t] = Entries[c]]
      /\ UNCHANGED <<main_pc, curr_directory, directory_queue, searched>>
  BY DEF Open, Goto, Typed, TypeOK
<1>2. c # NoPath /\ c \in Path /\ t \in Busy
  BY <1>1 DEF Typed, TypeOK, BusyFits, Busy
<1>3. Queued' = Queued /\ Busy' = Busy /\ Current' = Current /\ Known' = Known
  BY <1>1 DEF Queued, Busy, Current, Known
<1>4. \A u \in Thread \ {t} : (Reading(u)' <=> Reading(u)) /\ entries'[u] = entries[u]
  BY <1>1 DEF Reading
<1>5. Reading(t)' /\ ~ Reading(t) /\ entries'[t] = Entries[c]
  BY <1>1 DEF Reading
<1>6. Entries[c] \cap Known = {}
  <2>1. c \notin searched
    BY <1>2 DEF Places, OneSearcherPerDirectory
  <2>2. \A u \in Thread : Reading(u) => curr_directory[u] # c
    <3>1. ASSUME NEW u \in Thread, Reading(u) PROVE curr_directory[u] # c
      <4>1. u \in Busy /\ u # t
        BY <1>1, <3>1 DEF Reading, Typed, BusyFits, Busy
      <4> QED
        BY <1>2, <4>1 DEF Places, OneSearcherPerDirectory
    <3> QED
      BY <3>1
  <2> QED
    BY <1>2, <2>1, <2>2 DEF Places, Fresh
<1>7. OneSearcherPerDirectory'
  BY <1>1, <1>3 DEF Places, OneSearcherPerDirectory
<1>8. Fresh'
  BY <1>1, <1>3, <1>4, <1>5, <1>6 DEF Places, Fresh
<1>9. Covered'
  <2>1. Searchable(c) \subseteq Entries[c]
    BY <1>1 DEF Searchable
  <2> QED
    BY <1>1, <1>3, <1>4, <1>5, <2>1 DEF Places, Covered
<1>10. Within'
  BY <1>3 DEF Places, Within
<1> QED
  BY <1>7, <1>8, <1>9, <1>10 DEF Places

\* A subdirectory is pushed: it was known to nobody, is reachable, and is now queued.
LEMMA ReadDirectoryPreserves ==
  ASSUME NEW t \in Thread, NEW p \in Path, Typed, Places, ReadDirectory(t, p)
  PROVE  Places'
<1> DEFINE c == curr_directory[t]
<1>1. /\ pc \in [Thread -> ThreadPc] /\ entries \in [Thread -> SUBSET Path]
      /\ pc[t] = "read" /\ pc' = [pc EXCEPT ![t] = "notify"]
      /\ p \in entries[t] /\ Kind[p] \in {"dir", "unopenable"}
      /\ entries' = [entries EXCEPT ![t] = entries[t] \ {p}]
      /\ directory_queue \in Seq(Path) /\ directory_queue' = Append(directory_queue, p)
      /\ UNCHANGED <<main_pc, curr_directory, searched>>
  BY DEF ReadDirectory, Typed, TypeOK
<1>2. c # NoPath /\ c \in Path /\ t \in Busy
  BY <1>1 DEF Typed, TypeOK, BusyFits, Busy
<1>3. Reading(t) /\ \A u \in Thread : Reading(u)' <=> Reading(u)
  BY <1>1 DEF Reading
<1>4. p \in Entries[c] /\ p \notin Known /\ Kind[c] = "dir"
  BY <1>1, <1>3 DEF Places, Fresh, Covered
<1>5. Queued' = Queued \cup {p} /\ Injective(directory_queue')
  <2>1. Injective(directory_queue) /\ Queued = SetOf(directory_queue)
    BY DEF Places, OneSearcherPerDirectory, Injective, Queued, SetOf
  <2>2. Queued' = SetOf(directory_queue')
    BY DEF Queued, SetOf
  <2> QED
    BY <1>1, <1>4, <2>1, <2>2, AppendSet DEF Known
<1>6. Busy' = Busy /\ Current' = Current /\ Known' = Known \cup {p}
  BY <1>1, <1>5 DEF Busy, Current, Known
<1>7. \A d \in Path : d # c => p \notin Entries[d]
  BY <1>2, <1>4, FileSystemAssumption
<1>8. \A u \in Thread : u # t /\ Reading(u) => curr_directory[u] # c /\ curr_directory[u] \in Path
  <2>1. ASSUME NEW u \in Thread, u # t, Reading(u)
        PROVE  curr_directory[u] # c /\ curr_directory[u] \in Path
    <3>1. u \in Busy /\ curr_directory[u] \in Path
      BY <2>1 DEF Reading, Typed, TypeOK, BusyFits, Busy
    <3> QED
      BY <1>2, <2>1, <3>1 DEF Places, OneSearcherPerDirectory
  <2> QED
    BY <2>1
<1> HIDE DEF c
<1>9. OneSearcherPerDirectory'
  <2>1. \A k, l \in 1..Len(directory_queue') :
           directory_queue'[k] = directory_queue'[l] => k = l
    BY <1>5 DEF Injective
  <2>2. \A u \in Busy : curr_directory[u] # p
    BY <1>4 DEF Known, Current
  <2>3. p \notin searched
    BY <1>4 DEF Known
  <2> QED
    BY <1>1, <1>5, <1>6, <2>1, <2>2, <2>3 DEF Places, OneSearcherPerDirectory
<1>10. Fresh'
  <2>1. ASSUME NEW d \in Path, d \notin searched',
               \A u \in Thread : Reading(u)' => curr_directory'[u] # d
        PROVE  Entries[d] \cap Known' = {}
    <3>1. d # c /\ d \notin searched /\ \A u \in Thread : Reading(u) => curr_directory[u] # d
      BY <1>1, <1>3, <2>1 DEF c
    <3>2. Entries[d] \cap Known = {}
      BY <3>1 DEF Places, Fresh
    <3> QED
      BY <1>6, <1>7, <3>1, <3>2
  <2>2. ASSUME NEW u \in Thread, Reading(u)'
        PROVE  /\ entries'[u] \subseteq Entries[curr_directory'[u]]
               /\ entries'[u] \cap Known' = {}
    <3>1. Reading(u) /\ entries[u] \subseteq Entries[curr_directory[u]] /\ entries[u] \cap Known = {}
      BY <1>3, <2>2 DEF Places, Fresh
    <3>2. CASE u = t
      BY <1>1, <1>6, <3>1, <3>2
    <3>3. CASE u # t
      <4>1. entries'[u] = entries[u] /\ p \notin entries[u]
        BY <1>1, <1>7, <1>8, <3>1, <3>3
      <4> QED
        BY <1>1, <1>6, <3>1, <4>1
    <3> QED
      BY <3>2, <3>3
  <2> QED
    BY <2>1, <2>2 DEF Fresh
<1>11. Covered'
  <2>1. ASSUME NEW u \in Thread, Reading(u)'
        PROVE  /\ Kind[curr_directory'[u]] = "dir"
               /\ Searchable(curr_directory'[u]) \subseteq Known' \cup entries'[u]
    BY <1>1, <1>3, <1>6, <2>1 DEF Places, Covered
  <2> QED
    BY <1>1, <1>6, <2>1 DEF Places, Covered
<1>12. Within'
  <2>1. c \in Known
    BY <1>2 DEF c, Known, Current
  <2>2. p \in Searchable(c)
    BY <1>1, <1>4 DEF Searchable
  <2>3. p \in Reachable
    BY <2>1, <2>2, ReachableIsClosed DEF Closed, Places, Within
  <2> QED
    BY <1>6, <2>3 DEF Places, Within
<1> QED
  BY <1>9, <1>10, <1>11, <1>12 DEF Places

\* An entry that is no directory to search is read.
LEMMA ReadFilePreserves ==
  ASSUME NEW t \in Thread, NEW p \in Path, Typed, Places, ReadFile(t, p)
  PROVE  Places'
<1>1. /\ entries \in [Thread -> SUBSET Path]
      /\ pc[t] = "read" /\ Kind[p] \notin {"dir", "unopenable"}
      /\ entries' = [entries EXCEPT ![t] = entries[t] \ {p}]
      /\ UNCHANGED <<main_pc, pc, curr_directory, directory_queue, searched>>
  BY DEF ReadFile, Typed, TypeOK
<1>2. Queued' = Queued /\ Busy' = Busy /\ Current' = Current /\ Known' = Known
  BY <1>1 DEF Queued, Busy, Current, Known
<1>3. \A u \in Thread : (Reading(u)' <=> Reading(u)) /\ entries'[u] \subseteq entries[u]
  BY <1>1 DEF Reading
<1>4. OneSearcherPerDirectory'
  BY <1>1, <1>2 DEF Places, OneSearcherPerDirectory
<1>5. Fresh'
  BY <1>1, <1>2, <1>3 DEF Places, Fresh
<1>6. Covered'
  <2>1. \A d : p \notin Searchable(d)
    BY <1>1 DEF Searchable
  <2>2. \A u \in Thread : entries[u] \subseteq entries'[u] \cup {p}
    BY <1>1
  <2> QED
    BY <1>1, <1>2, <1>3, <2>1, <2>2 DEF Places, Covered
<1>7. Within'
  BY <1>2 DEF Places, Within
<1> QED
  BY <1>4, <1>5, <1>6, <1>7 DEF Places

\* Every step of main and of every thread keeps the account of the directories.
LEMMA PlacesPreserved == Typed /\ Places /\ [Next]_vars => Places'
<1> SUFFICES ASSUME Typed, Places, [Next]_vars PROVE Places'
  OBVIOUS
<1>1. ASSUME \E t \in Thread : MainSpawn(t) PROVE Quiet
  BY <1>1 DEF MainSpawn, Goto, Quiet, Reading, Typed, TypeOK
<1>2. ASSUME MainSetStart \/ MainJoin PROVE Quiet
  BY <1>2 DEF MainSetStart, MainJoin, Quiet, Reading
<1>3. ASSUME MainNotifyAll PROVE Quiet
  BY <1>3 DEF MainNotifyAll, Quiet, Reading, Typed, TypeOK
<1>4. ASSUME NEW t \in Thread, AwaitStart(t) \/ PopNothing(t) PROVE Quiet
  BY <1>4 DEF AwaitStart, PopNothing, Quiet, Reading, Typed, TypeOK
<1>5. ASSUME NEW t \in Thread, PopWait(t) \/ PopTimeout(t) \/ Nap(t) \/ PopSpurious(t)
      PROVE  Quiet
  BY <1>5 DEF PopWait, PopTimeout, Nap, PopSpurious, Goto, Quiet, Reading, Typed, TypeOK
<1>6. ASSUME NEW t \in Thread, NotifyOne(t) PROVE Quiet
  BY <1>6 DEF NotifyOne, Quiet, Reading, Typed, TypeOK
<1>7. ASSUME UNCHANGED vars PROVE Quiet
  BY <1>7 DEF vars, Quiet, Reading
<1>8. ASSUME NEW t \in Thread, Searching(t) PROVE Places'
  BY <1>4, <1>5, <1>6, <1>8, QuietPreserves, PopPreserves, OpenFailsPreserves, OpenPreserves,
     ReadDirectoryPreserves, ReadFilePreserves, ClosePreserves DEF Searching
<1> QED
  BY <1>1, <1>2, <1>3, <1>5, <1>7, <1>8, PushPreserves, QuietPreserves
     DEF Next, Main, Exited

\* A thread gives up only when it sees an empty queue, and only a thread that has not
\* given up adds to the queue.
LEMMA SomebodyLeftPreserved ==
  Typed /\ SomebodyLeft /\ [Next]_vars => SomebodyLeft'
<1> SUFFICES ASSUME Typed, SomebodyLeft, [Next]_vars, directory_queue' # <<>>
             PROVE  \E t \in Thread : pc'[t] # "done"
  BY DEF SomebodyLeft
<1> USE DEF Typed, TypeOK, Goto
<1>1. ASSUME NEW t \in Thread, pc' = [pc EXCEPT ![t] = pc'[t]], pc'[t] # "done"
      PROVE  \E u \in Thread : pc'[u] # "done"
  BY <1>1
<1>2. CASE MainPush
  BY <1>2, FileSystemAssumption DEF MainPush, Early
<1>3. CASE \E t \in Thread : MainSpawn(t)
  BY <1>3 DEF MainSpawn
<1>4. CASE MainSetStart \/ MainJoin
  BY <1>4 DEF MainSetStart, MainJoin, SomebodyLeft
<1>5. CASE MainNotifyAll
  BY <1>5 DEF MainNotifyAll, SomebodyLeft
<1>6. ASSUME NEW t \in Thread, Searching(t) \/ PopSpurious(t)
      PROVE  \E u \in Thread : pc'[u] # "done"
  <2>1. CASE AwaitStart(t) \/ PopWait(t) \/ PopTimeout(t) \/ PopSpurious(t) \/ Nap(t)
    BY <2>1 DEF AwaitStart, PopWait, PopTimeout, PopSpurious, Nap
  <2>2. CASE Pop(t)
    BY <2>2 DEF Pop
  <2>3. CASE PopNothing(t)
    BY <2>3 DEF PopNothing
  <2>4. CASE OpenFails(t) \/ Open(t) \/ CloseDirectory(t)
    BY <2>4 DEF OpenFails, Open, CloseDirectory, Leave
  <2>5. CASE NotifyOne(t)
    BY <2>5 DEF NotifyOne
  <2>6. CASE \E p \in Path : ReadDirectory(t, p)
    BY <2>6 DEF ReadDirectory
  <2>7. CASE \E p \in Path : ReadFile(t, p)
    BY <2>7 DEF ReadFile
  <2> QED
    BY <1>6, <2>1, <2>2, <2>3, <2>4, <2>5, <2>6, <2>7 DEF Searching
<1>7. CASE UNCHANGED vars
  BY <1>7 DEF vars, SomebodyLeft
<1> HIDE DEF Typed, TypeOK, Goto
<1> QED
  BY <1>2, <1>3, <1>4, <1>5, <1>6, <1>7 DEF Next, Main, Exited

\* The inductive invariant holds in every reachable state.
THEOREM SearchInvariant == Spec => []IInv
<1>1. IInv /\ [Next]_vars => IInv'
  BY TypedPreserved, PlacesPreserved, SomebodyLeftPreserved DEF IInv, Places
<1> QED
  BY InitEstablishes, <1>1, PTL DEF Spec

\* Every variable of the search keeps its type.
THEOREM SearchTyped == Spec => []TypeOK
<1>1. IInv => TypeOK
  BY DEF IInv, Typed
<1> QED
  BY SearchInvariant, <1>1, PTL

\* In any tree and with any number of threads, a directory is queued once, searched by
\* one thread, or finished, and never two of these.
THEOREM SearchOnce == Spec => []OneSearcherPerDirectory
<1>1. IInv => OneSearcherPerDirectory
  BY DEF IInv
<1> QED
  BY SearchInvariant, <1>1, PTL

\* When nobody is left to search, the finished directories are the reachable ones.
LEMMA WholeTree ==
  ASSUME IInv, \A t \in Thread : pc[t] = "done"
  PROVE  directory_queue = <<>> /\ searched = Reachable
<1>1. directory_queue = <<>>
  BY DEF IInv, SomebodyLeft
<1>2. Busy = {}
  BY DEF IInv, Typed, BusyFits, Busy
<1>3. Known = searched
  BY <1>1, <1>2 DEF Known, Queued, Current
<1>4. main_pc # "push"
  BY FileSystemAssumption DEF IInv, Typed, Early
<1>5. Closed(searched) /\ searched \in SUBSET Path
  BY <1>3, <1>4 DEF IInv, Covered, Closed, Typed, TypeOK
<1>6. searched \subseteq Reachable
  BY <1>3 DEF IInv, Within
<1>7. Reachable \subseteq searched
  BY <1>5 DEF Reachable
<1> QED
  BY <1>1, <1>6, <1>7

\* When all threads have given up, the whole tree was searched: a thread that times out
\* twice (pfind.cpp:87-91) never leaves behind a directory nobody takes.
THEOREM SearchComplete == Spec => []NothingLeftBehind
<1>1. IInv => NothingLeftBehind
  BY WholeTree DEF NothingLeftBehind
<1> QED
  BY SearchInvariant, <1>1, PTL

-----------------------------------------------------------------------------
(***************************************************************************)
(* What is printed and reported.  An entry was read when its directory is  *)
(* finished, or a thread in that directory no longer has it to read.       *)
(***************************************************************************)
WasRead(d, p) == \/ d \in searched /\ Kind[d] = "dir"
                 \/ \E t \in Thread : Reading(t) /\ curr_directory[t] = d /\ p \notin entries[t]
Read == {p \in Path : \E d \in Path : p \in Entries[d] /\ WasRead(d, p)}

\* The results are those of the entries that were read.
Exact ==
  /\ printed = {p \in Read : Kind[p] = "match"}
  /\ files_found = Cardinality(printed)
  /\ error_occurred <=> \/ \E d \in searched : Kind[d] # "dir"
                        \/ \E p \in Read : Kind[p] = "unstatable"

\* main has joined every thread when it prints and returns.
Joined == main_pc = "exit" => \A t \in Thread : pc[t] = "done"

RInv == IInv /\ Exact /\ Joined

\* Two threads are never in the same directory, nor one in a finished directory.
LEMMA OwnDirectory ==
  ASSUME IInv, NEW t \in Thread, Reading(t)
  PROVE  /\ curr_directory[t] \in Path /\ curr_directory[t] \notin searched
         /\ Kind[curr_directory[t]] = "dir" /\ entries[t] \subseteq Entries[curr_directory[t]]
         /\ \A u \in Thread : Reading(u) /\ curr_directory[u] = curr_directory[t] => u = t
<1>1. \A u \in Thread : Reading(u) => u \in Busy /\ curr_directory[u] \in Path
  BY DEF IInv, Typed, TypeOK, BusyFits, Busy, Reading
<1>2. /\ curr_directory[t] \notin searched
      /\ \A u \in Thread : Reading(u) /\ curr_directory[u] = curr_directory[t] => u = t
  BY <1>1 DEF IInv, OneSearcherPerDirectory
<1> QED
  BY <1>1, <1>2 DEF IInv, Covered, Fresh

\* A step that finishes no directory and reads no entry.
LEMMA ReadStays ==
  ASSUME \A d \in Path : d \in searched' /\ Kind[d] = "dir" <=> d \in searched /\ Kind[d] = "dir",
         \A t \in Thread : Reading(t)' <=> Reading(t),
         \A t \in Thread : Reading(t) => entries'[t] = entries[t] /\ curr_directory'[t] = curr_directory[t]
  PROVE  Read' = Read
<1>1. \A d \in Path, p \in Path : WasRead(d, p)' <=> WasRead(d, p)
  BY DEF WasRead
<1> QED
  BY <1>1 DEF Read

\* Reading an entry adds it, and it was not read before.
LEMMA ReadGrows ==
  ASSUME IInv, NEW t \in Thread, NEW p \in entries[t], Reading(t), Reading(t)',
         \A u \in Thread : Reading(u)' <=> Reading(u),
         entries' = [entries EXCEPT ![t] = @ \ {p}],
         UNCHANGED <<searched, curr_directory>>
  PROVE  p \notin Read /\ Read' = Read \cup {p}
<1> DEFINE c == curr_directory[t]
<1>1. /\ c \in Path /\ c \notin searched /\ p \in Entries[c] /\ p \in Path
      /\ \A u \in Thread : Reading(u) /\ curr_directory[u] = c => u = t
  BY OwnDirectory DEF IInv, Typed, TypeOK
<1>2. \A d \in Path : p \in Entries[d] => d = c
  BY <1>1, FileSystemAssumption
<1>3. entries \in [Thread -> SUBSET Path]
  BY DEF IInv, Typed, TypeOK
<1>4. \A d \in Path, q \in Path : WasRead(d, q)' <=> WasRead(d, q) \/ (d = c /\ q = p)
  <2> SUFFICES ASSUME NEW d \in Path, NEW q \in Path
               PROVE  WasRead(d, q)' <=> WasRead(d, q) \/ (d = c /\ q = p)
    OBVIOUS
  <2>1. \A u \in Thread : q \notin entries'[u] <=> q \notin entries[u] \/ (u = t /\ q = p)
    BY <1>3
  <2> QED
    BY <2>1 DEF WasRead
<1>5. ~ WasRead(c, p)
  BY <1>1 DEF WasRead
<1> HIDE DEF c
<1>6. p \notin Read
  BY <1>2, <1>5 DEF Read
<1>7. Read' = Read \cup {p}
  BY <1>1, <1>2, <1>4 DEF Read
<1> QED
  BY <1>6, <1>7

\* Nothing was read or printed at first.
LEMMA InitExact == Init => RInv
<1> SUFFICES ASSUME Init PROVE RInv
  OBVIOUS
<1>1. Read = {}
  BY DEF Init, Read, WasRead, Reading
<1> QED
  BY <1>1, InitEstablishes, FS_EmptySet DEF Init, RInv, Exact, Joined

\* A step that leaves the results, the finished directories and what was read alone.
LEMMA ExactStays ==
  Exact /\ Read' = Read /\ UNCHANGED <<results, searched>> => Exact'
BY DEF Exact, results

\* Every file that is printed is one more, and every failure is noticed.
LEMMA ExactPreserved == RInv /\ [Next]_vars => Exact'
<1> SUFFICES ASSUME IInv, Exact, [Next]_vars PROVE Exact'
  BY DEF RInv
<1>1. pc \in [Thread -> ThreadPc] /\ curr_directory \in [Thread -> Path \cup {NoPath}]
      /\ entries \in [Thread -> SUBSET Path] /\ searched \subseteq Path
  BY DEF IInv, Typed, TypeOK
<1>2. ASSUME Quiet, UNCHANGED results PROVE Exact'
  <2>1. Read' = Read
    BY <1>2, ReadStays DEF Quiet
  <2> QED
    BY <1>2, <2>1, ExactStays DEF Quiet
<1>3. CASE MainPush \/ \E t \in Thread : Pop(t)
  <2>1. Read' = Read
    BY <1>1, <1>3, ReadStays DEF MainPush, Pop, Reading
  <2> QED
    BY <1>3, <2>1, ExactStays DEF MainPush, Pop
<1>4. ASSUME NEW t \in Thread, Open(t) PROVE Exact'
  <2> DEFINE c == curr_directory[t]
  <2>1. /\ pc[t] = "open" /\ pc' = [pc EXCEPT ![t] = "read"]
        /\ entries' = [entries EXCEPT ![t] = Entries[c]]
        /\ UNCHANGED <<curr_directory, searched, results>>
    BY <1>4 DEF Open, Goto
  <2>2. \A u \in Thread \ {t} : (Reading(u)' <=> Reading(u)) /\ entries'[u] = entries[u]
    BY <1>1, <2>1 DEF Reading
  <2>3. ~ Reading(t) /\ entries'[t] = Entries[c]
    BY <1>1, <2>1 DEF Reading
  <2>4. \A d \in Path, p \in Path : p \in Entries[d] => (WasRead(d, p)' <=> WasRead(d, p))
    BY <2>1, <2>2, <2>3 DEF WasRead
  <2>5. Read' = Read
    BY <2>4 DEF Read
  <2> QED
    BY <2>1, <2>5, ExactStays
<1>5. ASSUME NEW t \in Thread, OpenFails(t) PROVE Exact'
  <2> DEFINE c == curr_directory[t]
  <2>1. /\ pc[t] = "open" /\ pc' = [pc EXCEPT ![t] = "pop"] /\ Kind[c] # "dir"
        /\ curr_directory' = [curr_directory EXCEPT ![t] = NoPath]
        /\ searched' = searched \cup {c} /\ error_occurred' = TRUE
        /\ UNCHANGED <<entries, files_found, printed>>
    BY <1>5 DEF OpenFails, Leave, Goto
  <2>2. Read' = Read
    BY <1>1, <2>1, ReadStays DEF Reading
  <2> QED
    BY <2>1, <2>2 DEF Exact
<1>6. ASSUME NEW t \in Thread, CloseDirectory(t) PROVE Exact'
  <2> DEFINE c == curr_directory[t]
  <2>1. /\ pc[t] = "read" /\ pc' = [pc EXCEPT ![t] = "pop"] /\ entries[t] = {}
        /\ curr_directory' = [curr_directory EXCEPT ![t] = NoPath]
        /\ searched' = searched \cup {c} /\ UNCHANGED <<entries, results>>
    BY <1>6 DEF CloseDirectory, Leave, Goto
  <2>2. Reading(t) /\ Kind[c] = "dir"
    BY <2>1, OwnDirectory DEF Reading
  <2>3. \A u \in Thread : Reading(u)' <=> Reading(u) /\ u # t
    BY <1>1, <2>1 DEF Reading
  <2>4. \A u \in Thread \ {t} : curr_directory'[u] = curr_directory[u]
    BY <1>1, <2>1
  <2>5. \A d \in Path, p \in Path : WasRead(d, p)' <=> WasRead(d, p)
    <3> SUFFICES ASSUME NEW d \in Path, NEW p \in Path PROVE WasRead(d, p)' <=> WasRead(d, p)
      OBVIOUS
    <3>1. CASE d = c
      <4>1. WasRead(d, p)'
        BY <2>1, <2>2, <3>1 DEF WasRead
      <4>2. WasRead(d, p)
        BY <2>1, <2>2, <3>1 DEF WasRead
      <4> QED
        BY <4>1, <4>2
    <3>2. CASE d # c
      BY <2>1, <2>3, <2>4, <3>2 DEF WasRead
    <3> QED
      BY <3>1, <3>2
  <2>6. Read' = Read
    BY <2>5 DEF Read
  <2> HIDE DEF c
  <2> QED
    BY <2>1, <2>2, <2>6 DEF Exact, results, c
<1>7. ASSUME NEW t \in Thread, NEW p \in Path, ReadDirectory(t, p) PROVE Exact'
  <2>1. /\ p \in entries[t] /\ Kind[p] \in {"dir", "unopenable"} /\ pc[t] = "read"
        /\ pc' = [pc EXCEPT ![t] = "notify"] /\ entries' = [entries EXCEPT ![t] = @ \ {p}]
        /\ UNCHANGED <<searched, curr_directory, results>>
    BY <1>7 DEF ReadDirectory
  <2>2. Reading(t) /\ Reading(t)' /\ \A u \in Thread : Reading(u)' <=> Reading(u)
    BY <1>1, <2>1 DEF Reading
  <2>3. Read' = Read \cup {p}
    BY <2>1, <2>2, ReadGrows
  <2> QED
    BY <2>1, <2>3 DEF Exact, results
<1>8. ASSUME NEW t \in Thread, NEW p \in Path, ReadFile(t, p) PROVE Exact'
  <2>1. /\ p \in entries[t] /\ pc[t] = "read" /\ entries' = [entries EXCEPT ![t] = @ \ {p}]
        /\ UNCHANGED <<pc, searched, curr_directory>>
        /\ error_occurred' = (error_occurred \/ Kind[p] = "unstatable")
    BY <1>8 DEF ReadFile
  <2>2. Reading(t) /\ Reading(t)' /\ \A u \in Thread : Reading(u)' <=> Reading(u)
    BY <2>1 DEF Reading
  <2>3. p \notin Read /\ Read' = Read \cup {p}
    BY <2>1, <2>2, ReadGrows
  <2>4. /\ printed' = {q \in Read' : Kind[q] = "match"}
        /\ files_found' = Cardinality(printed')
    <3>1. CASE Kind[p] = "match"
      <4>1. printed' = printed \cup {p} /\ files_found' = files_found + 1
        BY <1>8, <3>1 DEF ReadFile
      <4>2. IsFiniteSet(printed) /\ p \notin printed
        BY <2>3, FileSystemAssumption, FS_Subset DEF Exact, Read
      <4>3. Cardinality(printed') = Cardinality(printed) + 1
        BY <4>1, <4>2, FS_AddElement
      <4> QED
        BY <2>3, <3>1, <4>1, <4>3 DEF Exact
    <3>2. CASE Kind[p] # "match"
      <4>1. UNCHANGED <<printed, files_found>>
        BY <1>8, <3>2 DEF ReadFile
      <4> QED
        BY <2>3, <3>2, <4>1 DEF Exact
    <3> QED
      BY <3>1, <3>2
  <2>5. error_occurred' <=> \/ \E d \in searched' : Kind[d] # "dir"
                            \/ \E q \in Read' : Kind[q] = "unstatable"
    BY <2>1, <2>3 DEF Exact
  <2> QED
    BY <2>4, <2>5 DEF Exact
<1>9. CASE MainSetStart \/ MainNotifyAll \/ MainJoin \/ \E t \in Thread : MainSpawn(t)
  BY <1>1, <1>2, <1>9 DEF MainSetStart, MainNotifyAll, MainJoin, MainSpawn, Goto, Quiet, Reading
<1>10. ASSUME NEW t \in Thread, AwaitStart(t) \/ PopNothing(t) PROVE Exact'
  BY <1>1, <1>2, <1>10 DEF AwaitStart, PopNothing, Quiet, Reading
<1>11. ASSUME NEW t \in Thread, PopWait(t) \/ PopTimeout(t) \/ Nap(t) \/ PopSpurious(t)
       PROVE  Exact'
  BY <1>1, <1>2, <1>11 DEF PopWait, PopTimeout, Nap, PopSpurious, Goto, Quiet, Reading
<1>12. ASSUME NEW t \in Thread, NotifyOne(t) PROVE Exact'
  BY <1>1, <1>2, <1>12 DEF NotifyOne, Quiet, Reading
<1>13. CASE UNCHANGED vars
  BY <1>2, <1>13 DEF vars, results, Quiet, Reading
<1> QED
  BY <1>3, <1>4, <1>5, <1>6, <1>7, <1>8, <1>9, <1>10, <1>11, <1>12, <1>13
     DEF Next, Main, Exited, Searching

\* A thread that has given up stays so.
LEMMA JoinedPreserved == RInv /\ [Next]_vars => Joined'
<1> SUFFICES ASSUME RInv, [Next]_vars, main_pc' = "exit" PROVE \A t \in Thread : pc'[t] = "done"
  BY DEF Joined
<1>1. CASE main_pc = "exit"
  <2>1. \A t \in Thread : pc[t] = "done"
    BY <1>1 DEF RInv, Joined
  <2>2. ASSUME NEW t \in Thread, Searching(t) \/ PopSpurious(t) PROVE FALSE
    BY <2>1, <2>2 DEF Searching, PopSpurious, AwaitStart, Pop, PopWait, PopTimeout, PopNothing,
       Nap, OpenFails, Open, NotifyOne, CloseDirectory, Leave, ReadDirectory, ReadFile, Goto
  <2>3. UNCHANGED pc
    BY <1>1, <2>2 DEF Next, Main, Exited, MainPush, MainSpawn, MainSetStart, MainNotifyAll,
       MainJoin, vars
  <2> QED
    BY <2>1, <2>3
<1>2. CASE main_pc # "exit"
  <2>1. ASSUME NEW t \in Thread, Searching(t) \/ PopSpurious(t) PROVE main_pc' = main_pc
    BY <2>1 DEF Searching, PopSpurious, AwaitStart, Pop, PopWait, PopTimeout, PopNothing,
       Nap, OpenFails, Open, NotifyOne, CloseDirectory, Leave, ReadDirectory, ReadFile
  <2>2. MainJoin
    BY <1>2, <2>1 DEF Next, Main, Exited, MainPush, MainSpawn, MainSetStart, MainNotifyAll, vars
  <2> QED
    BY <2>2 DEF MainJoin
<1> QED
  BY <1>1, <1>2

\* When all have given up, every wanted file was printed and no failure overlooked.
LEMMA DoneIsExact ==
  ASSUME RInv, \A t \in Thread : pc[t] = "done"
  PROVE  /\ printed = Wanted /\ files_found = Cardinality(Wanted)
         /\ error_occurred <=> Faulty
<1>1. searched = Reachable
  BY WholeTree DEF RInv
<1>2. \A t \in Thread : ~ Reading(t)
  BY DEF Reading
<1>3. Read = {p \in Path : \E d \in Opened : p \in Entries[d]}
  BY <1>1, <1>2 DEF Read, WasRead, Opened, Reachable
<1>4. \A d \in Opened : Entries[d] \subseteq Path
  BY FileSystemAssumption DEF Opened, Reachable
<1>5. printed = Wanted /\ files_found = Cardinality(Wanted)
  BY <1>3 DEF RInv, Exact, Wanted
<1>6. error_occurred <=> Faulty
  BY <1>1, <1>3, <1>4 DEF RInv, Exact, Faulty
<1> QED
  BY <1>5, <1>6

\* The account of what was printed is exact in every reachable state.
THEOREM SearchExact == Spec => []RInv
<1>1. IInv /\ [Next]_vars => IInv'
  BY TypedPreserved, PlacesPreserved, SomebodyLeftPreserved DEF IInv, Places
<1>2. RInv /\ [Next]_vars => RInv'
  BY <1>1, ExactPreserved, JoinedPreserved DEF RInv
<1> QED
  BY InitExact, <1>2, PTL DEF Spec

\* In any tree and with any number of threads, what main prints and returns is what a
\* search of the whole tree gives.
THEOREM SearchResult == Spec => []ResultIsExact
<1>1. RInv => ResultIsExact
  BY DoneIsExact DEF RInv, Joined, ResultIsExact
<1> QED
  BY SearchExact, <1>1, PTL

\* The abstract module counts as this one does.
LEMMA SameCardinality == Found!Cardinality(Wanted) = Cardinality(Wanted)
  BY DEF Found!Cardinality, Cardinality

\* Every step of pfind is one of Search, the abstract promise, or invisible to it: a
\* file is reported once and is a wanted one, and the total comes last and is right.
THEOREM SearchReports == Spec => Found!Init /\ [][Found!Next]_Found!vars
<1>1. Init => Found!Init
  BY DEF Init, Found!Init
<1>2. RInv /\ [Next]_vars => [Found!Next]_Found!vars
  <2> SUFFICES ASSUME RInv, [Next]_vars PROVE [Found!Next]_Found!vars
    OBVIOUS
  <2>1. ASSUME NEW t \in Thread, NEW p \in Path, ReadFile(t, p), Kind[p] = "match"
        PROVE  Found!Report(p) /\ p \in Wanted
    <3>1. /\ p \in entries[t] /\ pc[t] = "read" /\ entries' = [entries EXCEPT ![t] = @ \ {p}]
          /\ UNCHANGED <<main_pc, pc, searched, curr_directory>> /\ printed' = printed \cup {p}
      BY <2>1 DEF ReadFile
    <3>2. main_pc # "exit"
      BY <3>1 DEF RInv, Joined
    <3>3. Reading(t) /\ Reading(t)' /\ \A u \in Thread : Reading(u)' <=> Reading(u)
      BY <3>1 DEF Reading
    <3>4. p \notin printed
      BY <3>1, <3>3, ReadGrows DEF RInv, Exact
    <3>5. curr_directory[t] \in Opened /\ p \in Entries[curr_directory[t]]
      <4>1. /\ curr_directory[t] \in Path /\ Kind[curr_directory[t]] = "dir"
            /\ p \in Entries[curr_directory[t]]
        BY <3>1, <3>3, OwnDirectory DEF RInv
      <4>2. curr_directory[t] \in Known
        BY <4>1, FileSystemAssumption DEF Known, Current, Busy
      <4> QED
        BY <4>1, <4>2 DEF Opened, RInv, IInv, Within
    <3>6. p \in Wanted
      BY <2>1, <3>5 DEF Wanted
    <3> QED
      BY <3>1, <3>2, <3>4, <3>6 DEF Found!Report
  <2>2. ASSUME MainJoin PROVE Found!Finish
    <3>1. printed = Wanted /\ files_found = Cardinality(Wanted)
      BY <2>2, DoneIsExact DEF MainJoin
    <3>2. /\ main_pc = "join" /\ main_pc' = "exit" /\ printed' = printed
          /\ files_found' = files_found
      BY <2>2 DEF MainJoin, results
    <3> QED
      BY <3>1, <3>2, SameCardinality DEF Found!Finish
  <2>3. ASSUME UNCHANGED <<main_pc, printed, files_found>> PROVE UNCHANGED Found!vars
    BY <2>3 DEF Found!vars
  <2>4. ASSUME NEW t \in Thread, Searching(t) \/ PopSpurious(t),
               \A p \in Path : ~ (ReadFile(t, p) /\ Kind[p] = "match")
        PROVE  UNCHANGED <<main_pc, printed, files_found>>
    BY <2>4 DEF Searching, PopSpurious, AwaitStart, Pop, PopWait, PopTimeout, PopNothing, Nap,
       OpenFails, Open, NotifyOne, CloseDirectory, Leave, ReadDirectory, ReadFile, results
  <2>5. ASSUME Main, ~ MainJoin PROVE UNCHANGED Found!vars
    BY <2>5 DEF Main, MainPush, MainSpawn, MainSetStart, MainNotifyAll, results, Found!vars
  <2>6. ASSUME UNCHANGED vars PROVE UNCHANGED <<main_pc, printed, files_found>>
    BY <2>6 DEF vars
  <2> QED
    BY <2>1, <2>2, <2>3, <2>4, <2>5, <2>6 DEF Next, Exited, Found!Next
<1> QED
  BY <1>1, <1>2, SearchExact, PTL DEF Spec
=============================================================================
