---------------------------- MODULE PccServerProofs ----------------------------
(***************************************************************************)
(* Proofs about PccServer, for every number of clients, every file and     *)
(* every way its bytes arrive: the answers are exact while no SIGINT was   *)
(* received, and the statistics are those of the completed connections.    *)
(***************************************************************************)
EXTENDS PccServer, PccClientProofs

Reading == {"counting", "read", "read_blocked", "write"}
Sizing == {"size", "size_blocked"}

\* The client being processed has been accepted, and waits no more.
AtClient ==
  /\ client_fd \in Client => c_pc[client_fd] # "connect" /\ client_fd \notin SetOf(backlog)
  /\ pc \in InClient => client_fd \in Client

\* temp_counts are those of the bytes read so far, of which bytes_remaining are missing.
CountsFit ==
  LET c == client_fd IN
  /\ pc \in Sizing \cup Reading => reply[c] = NULL
  /\ pc = "update" => reply[c] # NULL
  /\ pc \in Sizing => Received(c) = 0
  /\ pc \in Reading \cup {"update"} => bytes_remaining = Len(File[c]) - Received(c)
  /\ pc \in Sizing \cup Reading \cup {"update"} =>
       \A b \in Printable : temp_counts[b] = CountIn(File[c], {b}, Received(c)) % UINT
  /\ pc = "write" /\ ~ got_sigint => bytes_remaining = 0

\* The statistics, in terms of the places that were counted.
Totals ==
  \A b \in Printable :
    pcc_total[b] = Cardinality(PlacesIn(Served, [c \in Client |-> Len(File[c])], b)) % UINT

SInv ==
  CInv /\ TypeOK /\ AtClient /\ CountsFit /\ Totals /\ AnswersAreExact

Lengths == [c \in Client |-> Len(File[c])]

\* Initially nobody was served.
LEMMA Initially ==
  ASSUME Init
  PROVE  SInv
<1>1. CInv
  BY ClientInitially DEF Init
<1>2. 0 \in 0..(UINT - 1) /\ UINT \in Nat \ {0}
  BY PccAssumption
<1>3. TypeOK
  BY <1>1, <1>2 DEF Init, TypeOK, CInv, Zero
<1>4. client_fd \notin Client /\ pc = "loop" /\ \A c \in Client : reply[c] = NULL
  BY PccAssumption DEF Init, ClientInit
<1>5. Totals
  <2>1. Served = {}
    BY <1>4 DEF Served
  <2>2. ASSUME NEW b \in Printable PROVE Cardinality(PlacesIn(Served, Lengths, b)) % UINT = 0
    <3>1. PlacesIn(Served, Lengths, b) = {}
      BY <2>1 DEF PlacesIn
    <3>2. 0 % UINT = 0
      BY <1>2, RemainderOfSmall
    <3> QED
      BY <3>1, <3>2, FS_EmptySet
  <2> QED
    BY <2>2 DEF Totals, Init, Zero, Lengths
<1> QED
  BY <1>1, <1>3, <1>4, <1>5 DEF SInv, AtClient, CountsFit, AnswersAreExact, InClient, Sizing, Reading

(***************************************************************************)
(* Steps that read no bytes of a file, write no count and add no totals.   *)
(***************************************************************************)
\* The same clients are served, and their answers are as exact as they were.
LEMMA StillServed ==
  ASSUME SInv, UNCHANGED <<reply, pcc_total>>, got_sigint => got_sigint',
         \A c \in Client : Received(c)' = Received(c),
         \/ pc # "update" /\ pc' # "update"
         \/ UNCHANGED <<pc, client_fd>>
  PROVE  Totals' /\ AnswersAreExact'
<1>1. Served' = Served
  BY DEF Served
<1>2. ASSUME NEW b PROVE PlacesIn(Served, Lengths, b)' = PlacesIn(Served, Lengths, b)
  BY <1>1 DEF PlacesIn, Lengths
<1>3. Totals'
  BY <1>2 DEF SInv, Totals, Lengths
<1>4. AnswersAreExact'
  BY DEF SInv, AnswersAreExact
<1> QED
  BY <1>3, <1>4

\* The server's state fits the client it processes as long as both go on as they were.
LEMMA StillFits ==
  ASSUME SInv, CInv', UNCHANGED <<svars, reply>>,
         \A c \in Client : Received(c)' = Received(c),
         \A c \in Client : c_pc'[c] = "connect" => c_pc[c] = "connect",
         \A c \in SetOf(backlog)' : c \in SetOf(backlog) \/ c_pc[c] = "connect"
  PROVE  SInv'
<1>1. TypeOK'
  BY DEF SInv, TypeOK, CInv, svars
<1>2. AtClient'
  BY DEF SInv, AtClient, svars
<1>3. CountsFit'
  BY DEF SInv, AtClient, CountsFit, svars, InClient, Sizing, Reading
<1>4. Totals' /\ AnswersAreExact'
  BY StillServed DEF svars
<1> QED
  BY <1>1, <1>2, <1>3, <1>4 DEF SInv

\* The clients' steps.
LEMMA ClientsPreserve ==
  ASSUME SInv, NEW c \in Client,
         pcc_client(c) \/ Die(c), UNCHANGED svars
  PROVE  SInv'
<1>1. CInv' /\ ClientKeeps
  BY ClientPreserves DEF SInv
<1> QED
  BY <1>1, StillFits DEF ClientKeeps

\* Steps that change no connection.
LEMMA MovesPreserve ==
  ASSUME SInv,
         handle_sigint \/ Loop \/ AcceptBlocks \/ ReadFails \/ ReadBlocks \/ Counting
  PROVE  SInv'
<1>1. UNCHANGED <<cvars, pcc_total, client_fd, bytes_remaining, temp_counts, printed>>
  BY DEF handle_sigint, Loop, AcceptBlocks, ReadFails, ReadBlocks, Counting
<1>2. got_sigint' \in BOOLEAN /\ (got_sigint => got_sigint')
  BY DEF SInv, TypeOK, handle_sigint, Loop, AcceptBlocks, ReadFails, ReadBlocks, Counting
<1>3. \A c \in Client : Received(c)' = Received(c)
  BY <1>1 DEF cvars, Received
<1>4. CInv'
  <2>1. ClientTypeOK'
    BY <1>1 DEF SInv, CInv, ClientTypeOK, cvars
  <2> QED
    BY <1>1, <2>1, QuietStep DEF SInv, cvars
<1>5. \/ pc' = pc
      \/ pc \in {"loop", "accept", "accept_blocked"} /\ pc' \in {"loop", "accept", "accept_blocked", "print"}
      \/ pc \in InClient /\ pc' = "close"
      \/ pc = "size" /\ pc' = "size_blocked"
      \/ pc = "read" /\ pc' = "read_blocked"
      \/ pc = "counting" /\ pc' = "read"
      \/ pc = "counting" /\ pc' = "write" /\ (got_sigint' \/ bytes_remaining' = 0)
  <2>1. CASE handle_sigint
    BY <2>1 DEF handle_sigint, Blocked, InClient
  <2>2. CASE Counting
    BY <2>2 DEF Counting, Goto, SInv, TypeOK
  <2>3. CASE Loop \/ AcceptBlocks \/ ReadFails \/ ReadBlocks
    BY <2>3 DEF Loop, AcceptBlocks, ReadFails, ReadBlocks, Goto, InClient
  <2> QED
    BY <2>1, <2>2, <2>3
<1>6. \/ pc # "update" /\ pc' # "update"
      \/ UNCHANGED <<pc, client_fd>>
  <2>1. pc = "update" => pc' = pc
    BY DEF handle_sigint, Loop, AcceptBlocks, ReadFails, ReadBlocks, Counting, Goto, Blocked
  <2>2. pc # "update" => pc' # "update"
    BY <1>5
  <2> QED
    BY <1>1, <2>1, <2>2
<1>7. TypeOK'
  <2>1. ClientTypeOK'
    BY <1>4 DEF CInv
  <2>2. pc' \in {"loop", "accept", "accept_blocked", "print", "exited", "killed"} \cup InClient
    BY <1>5 DEF SInv, TypeOK, InClient
  <2> QED
    BY <1>1, <1>2, <2>1, <2>2 DEF SInv, TypeOK
<1>8. AtClient'
  BY <1>1, <1>5 DEF SInv, AtClient, InClient, cvars
<1>9. CountsFit'
  <2>1. pc' \in InClient => Received(client_fd)' = Received(client_fd) /\ client_fd \in Client
    BY <1>1, <1>3, <1>8 DEF AtClient
  <2>2. UNCHANGED <<reply, client_fd, bytes_remaining, temp_counts>>
    BY <1>1 DEF cvars
  <2>3. CASE pc' \notin Sizing \cup Reading \cup {"update"}
    BY <2>3 DEF CountsFit, Sizing, Reading
  <2>4. CASE pc' = pc /\ pc \in Sizing \cup Reading \cup {"update"}
    <3>1. pc' \in InClient
      BY <2>4 DEF InClient, Sizing, Reading
    <3> QED
      BY <1>2, <2>1, <2>2, <2>4, <3>1 DEF SInv, CountsFit, Sizing, Reading
  <2>5. CASE pc' # pc /\ pc' \in Sizing \cup Reading \cup {"update"}
    <3>1. \/ pc = "size" /\ pc' = "size_blocked"
          \/ pc = "read" /\ pc' = "read_blocked"
          \/ pc = "counting" /\ pc' = "read"
          \/ pc = "counting" /\ pc' = "write" /\ (got_sigint' \/ bytes_remaining' = 0)
      BY <1>5, <2>5 DEF Sizing, Reading
    <3>2. pc' \in InClient
      BY <3>1 DEF InClient
    <3> QED
      BY <2>1, <2>2, <3>1, <3>2 DEF SInv, CountsFit, Sizing, Reading
  <2> QED
    BY <2>3, <2>4, <2>5
<1>10. Totals' /\ AnswersAreExact'
  <2>1. UNCHANGED <<reply, pcc_total>>
    BY <1>1 DEF cvars
  <2> QED
    BY <1>2, <1>3, <1>6, <2>1, StillServed
<1> QED
  BY <1>4, <1>7, <1>8, <1>9, <1>10 DEF SInv

\* Steps that end with a client, or with them all.
LEMMA EndsPreserve ==
  ASSUME SInv, Close \/ PrintStatistics \/ WriteFails \/ AcceptFails
  PROVE  SInv'
<1>1. /\ UNCHANGED <<c_pc, sent, size_in, bytes_in, reply, reply_in, result, got_sigint,
                     pcc_total, bytes_remaining, temp_counts>>
      /\ backlog' \in {backlog, <<>>}
      /\ client_fd' = client_fd \/ (client_fd' = NULL /\ pc' = "loop")
      /\ pc \in {"close", "print", "write", "accept", "accept_blocked"}
      /\ pc' \in {"loop", "exited", "killed", "close"}
      /\ pc' = "close" => UNCHANGED <<backlog, client_fd>> /\ pc = "write"
      /\ printed' \in {printed, pcc_total}
  BY DEF Close, PrintStatistics, WriteFails, AcceptFails, Goto
<1>2. hung_up' \in [Client -> BOOLEAN] /\ listening' \in BOOLEAN
  <2>1. hung_up \in [Client -> BOOLEAN] /\ listening \in BOOLEAN
    BY DEF SInv, CInv, ClientTypeOK
  <2>2. CASE Close
    BY <2>1, <2>2 DEF Close, HangUp
  <2>3. CASE PrintStatistics \/ AcceptFails
    <3>1. \A c \in Client : (hung_up[c] \/ \E k \in 1..Len(backlog) : backlog[k] = c) \in BOOLEAN
      OBVIOUS
    <3> QED
      BY <2>3, <3>1 DEF PrintStatistics, AcceptFails
  <2>4. CASE WriteFails
    BY <2>1, <2>4 DEF WriteFails
  <2> QED
    BY <2>2, <2>3, <2>4
<1>3. ClientTypeOK'
  <2>1. backlog' \in Seq(Client)
    <3>1. <<>> \in Seq(Client)
      OBVIOUS
    <3>2. backlog \in Seq(Client)
      BY DEF SInv, CInv, ClientTypeOK
    <3> QED
      BY <1>1, <3>1, <3>2
  <2> QED
    BY <1>1, <1>2, <2>1 DEF SInv, CInv, ClientTypeOK
<1>4. CInv' /\ \A c \in Client : Received(c)' = Received(c)
  <2>1. CASE backlog' = backlog
    BY <1>1, <1>3, <2>1, QuietStep DEF SInv
  <2>2. CASE backlog' = <<>>
    BY <1>1, <1>3, <2>2, StopPreserves DEF SInv
  <2> QED
    BY <1>1, <2>1, <2>2
<1>5. TypeOK'
  BY <1>1, <1>3 DEF SInv, TypeOK, InClient
<1>6. AtClient'
  <2>1. SetOf(backlog)' \subseteq SetOf(backlog)
    BY <1>1 DEF SetOf
  <2>2. NULL \notin Client
    BY PccAssumption
  <2> QED
    BY <1>1, <2>1, <2>2 DEF SInv, AtClient, InClient
<1>7. CountsFit'
  BY <1>1 DEF CountsFit, Sizing, Reading
<1>8. Totals' /\ AnswersAreExact'
  BY <1>1, <1>4, StillServed
<1> QED
  BY <1>4, <1>5, <1>6, <1>7, <1>8 DEF SInv

\* A client is accepted: nothing was read of its file.
LEMMA AcceptKeeps ==
  ASSUME SInv, Accept
  PROVE  SInv'
<1>0. PICK c \in Client : c = Head(backlog)
  BY AcceptPreserves DEF SInv, Accept
<1>1. /\ pc \in {"accept", "accept_blocked"} /\ pc' = "size" /\ backlog # <<>>
      /\ client_fd' = c /\ backlog' = Tail(backlog) /\ temp_counts' = Zero
      /\ UNCHANGED <<listening, c_pc, sent, size_in, bytes_in, hung_up, reply, reply_in,
                     result, got_sigint, pcc_total, bytes_remaining, printed>>
  BY <1>0 DEF Accept, Goto
<1>2. /\ CInv' /\ \A d \in Client : Received(d)' = Received(d)
      /\ c_pc[c] # "connect" /\ Untouched(c) /\ c \notin SetOf(backlog)'
  BY <1>0, <1>1, AcceptPreserves DEF SInv
<1>3. 0 \in 0..(UINT - 1) /\ UINT \in Nat \ {0} /\ 0 % UINT = 0
  BY PccAssumption, RemainderOfSmall
<1>4. TypeOK'
  BY <1>1, <1>2, <1>3 DEF SInv, TypeOK, CInv, InClient, Zero
<1>5. AtClient'
  BY <1>1, <1>2 DEF AtClient
<1>6. Received(c)' = 0 /\ reply'[c] = NULL
  BY <1>1, <1>2 DEF Untouched
<1>7. CountsFit'
  <2>1. \A b \in Printable : temp_counts'[b] = CountIn(File[c], {b}, 0) % UINT
    BY <1>1, <1>3, CountNothing DEF Zero
  <2> QED
    BY <1>1, <1>6, <2>1 DEF CountsFit, Sizing, Reading
<1>8. Totals' /\ AnswersAreExact'
  BY <1>1, <1>2, StillServed
<1> QED
  BY <1>2, <1>4, <1>5, <1>7, <1>8 DEF SInv

\* The size of the file is read, or a piece of it and the connection is given up.
LEMMA SizePreserves ==
  ASSUME SInv, ReadSize
  PROVE  SInv'
<1>0. PICK c \in Client : c = client_fd
  BY DEF SInv, AtClient, ReadSize, InClient
<1>1. /\ pc \in Sizing
      /\ \/ pc' = "counting" /\ bytes_remaining' = Len(File[c])
         \/ pc' = "close" /\ bytes_remaining' = bytes_remaining
      /\ size_in' = [size_in EXCEPT ![c] = 0]
      /\ UNCHANGED <<listening, backlog, c_pc, sent, bytes_in, hung_up, reply, reply_in, result,
                     got_sigint, pcc_total, client_fd, temp_counts, printed>>
  BY <1>0 DEF ReadSize, Sizing
<1>2. Received(c) = 0 /\ reply[c] = NULL
  BY <1>0, <1>1 DEF SInv, AtClient, CountsFit, Sizing, InClient
<1>3. ClientTypeOK'
  <2>1. WORD \in Nat /\ 0 \in 0..WORD /\ size_in \in [Client -> 0..WORD]
    BY PccAssumption DEF SInv, CInv, ClientTypeOK
  <2>2. size_in' \in [Client -> 0..WORD]
    BY <1>1, <2>1
  <2> QED
    BY <1>1, <2>2 DEF SInv, CInv, ClientTypeOK
<1>4. CInv' /\ \A d \in Client : Received(d)' = Received(d)
  BY <1>1, <1>3, QuietStep DEF SInv
<1>5. Len(File[c]) \in Nat
  BY <1>2, ReceivedIsNat DEF SInv
<1>6. TypeOK'
  BY <1>1, <1>3, <1>5 DEF SInv, TypeOK, InClient
<1>7. AtClient'
  BY <1>0, <1>1, <1>2 DEF SInv, AtClient
<1>8. CountsFit'
  <2>1. Received(c)' = 0 /\ reply'[c] = NULL /\ client_fd' = c
    BY <1>0, <1>1, <1>2, <1>4
  <2>2. bytes_remaining' = Len(File[c]) \/ pc' = "close"
    BY <1>1
  <2>3. \A b \in Printable : temp_counts'[b] = CountIn(File[c], {b}, 0) % UINT
    BY <1>0, <1>1, <1>2 DEF SInv, CountsFit, Sizing
  <2>4. pc' \in {"counting", "close"}
    BY <1>1
  <2> QED
    BY <1>5, <2>1, <2>2, <2>3, <2>4 DEF CountsFit, Sizing, Reading
<1>9. Totals' /\ AnswersAreExact'
  BY <1>1, <1>4, StillServed DEF Sizing
<1> QED
  BY <1>4, <1>6, <1>7, <1>8, <1>9 DEF SInv

(***************************************************************************)
(* The steps that count.                                                   *)
(***************************************************************************)
\* What is read is the next part of the file, and is counted once.
LEMMA ContentPreserves ==
  ASSUME SInv, ReadContent
  PROVE  SInv'
<1>1. PICK c \in Client : c = client_fd
  BY DEF SInv, AtClient, ReadContent, Goto, InClient
<1>2. /\ pc \in Reading /\ pc' = "counting" /\ pc # "update"
      /\ UNCHANGED <<listening, backlog, c_pc, sent, size_in, hung_up, reply, reply_in, result,
                     got_sigint, pcc_total, client_fd, printed>>
  BY DEF ReadContent, Goto, Reading
<1>3. PICK n \in 1..SmallerOf(bytes_remaining, Len(bytes_in[c])) :
        /\ TakeBytes(c, n)
        /\ temp_counts' = count_printable(SubSeq(bytes_in[c], 1, n), temp_counts)
        /\ bytes_remaining' = bytes_remaining - n
  BY <1>1 DEF ReadContent
<1>4. /\ Received(c) \in Nat /\ Len(File[c]) \in Nat /\ Len(bytes_in[c]) \in Nat
      /\ bytes_remaining \in Nat /\ UINT \in Nat \ {0}
  BY ReceivedIsNat, PccAssumption DEF SInv, TypeOK
<1>5. n \in 1..Len(bytes_in[c]) /\ n <= bytes_remaining
  BY <1>3, <1>4 DEF SmallerOf
<1>6. c_pc[c] # "connect" /\ c \notin SetOf(backlog) /\ reply[c] = NULL
      /\ bytes_remaining = Len(File[c]) - Received(c)
  BY <1>1, <1>2 DEF SInv, AtClient, CountsFit
<1> DEFINE chunk == SubSeq(bytes_in[c], 1, n)
<1>7. /\ CInv' /\ Received(c)' = Received(c) + n
      /\ \A d \in Client \ {c} : Received(d)' = Received(d)
      /\ Len(chunk) = n /\ Continues(chunk, File[c], Received(c), n)
  BY <1>2, <1>3, <1>5, <1>6, TakePreserves DEF SInv
<1>8. temp_counts' = [b \in Printable |-> (temp_counts[b] + Occurrences(b, chunk)) % UINT]
  BY <1>3 DEF count_printable
<1> HIDE DEF chunk
<1>9. ASSUME NEW b \in Printable
      PROVE  /\ temp_counts'[b] = CountIn(File[c], {b}, Received(c) + n) % UINT
             /\ temp_counts'[b] \in 0..(UINT - 1)
  <2> DEFINE old == CountIn(File[c], {b}, Received(c))
             new == CountIn(chunk, {b}, n)
  <2>1. old \in Nat /\ new \in Nat
    BY <1>4, <1>5, CountIsNat
  <2>2. temp_counts[b] = old % UINT
    BY <1>1, <1>2 DEF SInv, CountsFit, Reading
  <2>3. Occurrences(b, chunk) = new
    BY <1>7, CountsOfSequences
  <2>4. CountIn(File[c], {b}, Received(c) + n) = old + new
    <3>1. n \in Nat /\ Received(c) \in Nat
      BY <1>4, <1>5
    <3> QED
      <4>1. PICK r \in Nat : r = Received(c)
        BY <3>1
      <4>2. Continues(chunk, File[c], r, n)
        BY <1>7, <4>1
      <4>3. CountIn(File[c], {b}, r + n) = CountIn(File[c], {b}, r) + CountIn(chunk, {b}, n)
        BY <3>1, <4>2, CountAdds
      <4> QED
        BY <4>1, <4>3
  <2>5. temp_counts'[b] = (temp_counts[b] + Occurrences(b, chunk)) % UINT
    BY <1>8
  <2> HIDE DEF old, new
  <2>6. ((old % UINT) + new) % UINT = (old + new) % UINT
    BY <1>4, <2>1, RemainderOfSum
  <2>7. (old + new) % UINT \in 0..(UINT - 1)
    <3>1. old + new \in Nat
      BY <2>1
    <3> QED
      BY <1>4, <3>1, Division
  <2> QED
    BY <2>2, <2>3, <2>4, <2>5, <2>6, <2>7
<1>10. bytes_remaining' = Len(File[c]) - (Received(c) + n) /\ bytes_remaining' \in Nat
  BY <1>3, <1>4, <1>5, <1>6
<1>11. TypeOK'
  <2>1. temp_counts' \in [Printable -> 0..(UINT - 1)]
    BY <1>8, <1>9
  <2>2. ClientTypeOK'
    BY <1>7 DEF CInv
  <2> QED
    BY <1>2, <1>10, <2>1, <2>2 DEF SInv, TypeOK, InClient
<1>12. AtClient'
  BY <1>1, <1>2, <1>6 DEF AtClient
<1>13. CountsFit'
  <2>1. client_fd' = c /\ reply'[c] = NULL
    BY <1>1, <1>2, <1>6
  <2> QED
    BY <1>2, <1>7, <1>9, <1>10, <2>1 DEF CountsFit, Reading, Sizing
<1>14. Served' = Served
  <2>1. \A d \in Client : reply'[d] = reply[d]
    BY <1>2
  <2>2. \A d \in Client : reply[d] # NULL => Received(d)' = Received(d)
    BY <1>6, <1>7
  <2>3. pc' # "update" /\ pc # "update"
    BY <1>2
  <2> QED
    BY <2>1, <2>2, <2>3 DEF Served
<1>15. Totals'
  <2>1. ASSUME NEW b PROVE PlacesIn(Served, Lengths, b)' = PlacesIn(Served, Lengths, b)
    BY <1>14 DEF PlacesIn, Lengths
  <2> QED
    BY <1>2, <2>1 DEF SInv, Totals, Lengths
<1>16. AnswersAreExact'
  BY <1>2 DEF SInv, AnswersAreExact
<1> QED
  BY <1>7, <1>11, <1>12, <1>13, <1>15, <1>16 DEF SInv

\* The count of what was read is written: of the whole file, unless SIGINT cut it short.
LEMMA WritePreserves ==
  ASSUME SInv, WriteCount
  PROVE  SInv'
<1>1. PICK c \in Client : c = client_fd
  BY DEF SInv, AtClient, WriteCount, Goto, InClient
<1>2. /\ pc = "write" /\ pc' = "update" /\ WriteReply(c, total_printable)
      /\ UNCHANGED <<listening, backlog, c_pc, sent, size_in, bytes_in, hung_up, result,
                     got_sigint, pcc_total, client_fd, bytes_remaining, temp_counts, printed>>
  BY <1>1 DEF WriteCount, Goto
<1>3. /\ Received(c) \in Nat /\ Len(File[c]) \in Nat /\ Received(c) <= Len(File[c])
      /\ File[c] \in Seq(Byte)
  BY ReceivedIsNat DEF SInv
<1>4. c_pc[c] # "connect" /\ c \notin SetOf(backlog) /\ reply[c] = NULL
      /\ bytes_remaining = Len(File[c]) - Received(c) /\ (~ got_sigint => bytes_remaining = 0)
  BY <1>1, <1>2 DEF SInv, AtClient, CountsFit, Reading
<1>5. PICK v \in Nat : /\ v = total_printable
                       /\ ~ got_sigint => v = PrintableIn(File[c])
  <2> DEFINE s == SubSeq(File[c], 1, Received(c))
  <2>1. s \in Seq(Byte)
    <3>1. \A k \in 1..Received(c) : File[c][k] \in Byte
      BY <1>3
    <3> QED
      BY <1>3, <3>1, SubSeqProperties
  <2>2. total_printable = PrintableIn(s)
    BY <1>1 DEF total_printable
  <2>3. Received(c) = Len(File[c]) => s = File[c]
    BY <1>3, SubSeqFull
  <2> HIDE DEF s
  <2>4. PrintableIn(s) \in Nat
    <3>1. Len(s) \in Nat
      BY <2>1
    <3> QED
      BY <3>1, CountsOfSequences, CountIsNat
  <2> QED
    BY <1>3, <1>4, <2>2, <2>3, <2>4
<1>6. WriteReply(c, v)
  BY <1>2, <1>5 DEF WriteReply
<1>7. /\ CInv' /\ \A d \in Client : Received(d)' = Received(d)
      /\ reply'[c] = v /\ \A d \in Client \ {c} : reply'[d] = reply[d]
  BY <1>2, <1>4, <1>6, ReplyPreserves DEF SInv
<1>8. TypeOK'
  BY <1>2, <1>7 DEF SInv, TypeOK, CInv, InClient
<1>9. AtClient'
  BY <1>1, <1>2, <1>4 DEF AtClient
<1>10. v # NULL
  BY PccAssumption
<1>11. CountsFit'
  <2>1. client_fd' = c /\ reply'[c] # NULL /\ Received(c)' = Received(c)
    BY <1>1, <1>2, <1>7, <1>10
  <2>2. \A b \in Printable : temp_counts'[b] = CountIn(File[c], {b}, Received(c)) % UINT
    BY <1>1, <1>2 DEF SInv, CountsFit, Reading
  <2> QED
    BY <1>2, <1>4, <2>1, <2>2 DEF CountsFit, Reading, Sizing
<1>12. Served' = Served
  <2>1. c \notin Served /\ c \notin Served'
    BY <1>1, <1>2, <1>4 DEF Served
  <2>2. \A d \in Client \ {c} : d \in Served' <=> d \in Served
    BY <1>1, <1>2, <1>7 DEF Served
  <2>3. Served \subseteq Client /\ Served' \subseteq Client
    BY DEF Served
  <2>4. \A d : d \in Served' <=> d \in Served
    BY <2>1, <2>2, <2>3
  <2> QED
    BY <2>4
<1>13. Totals'
  <2>1. ASSUME NEW b PROVE PlacesIn(Served, Lengths, b)' = PlacesIn(Served, Lengths, b)
    BY <1>12 DEF PlacesIn, Lengths
  <2> QED
    BY <1>2, <2>1 DEF SInv, Totals, Lengths
<1>14. AnswersAreExact'
  <2>1. ASSUME ~ got_sigint', NEW d \in Client, reply'[d] # NULL
        PROVE  reply'[d] = PrintableIn(File[d])
    <3>1. CASE d = c
      BY <1>2, <1>5, <1>7, <2>1, <3>1
    <3>2. CASE d # c
      BY <1>2, <1>7, <2>1, <3>2 DEF SInv, AnswersAreExact
    <3> QED
      BY <3>1, <3>2
  <2> QED
    BY <2>1 DEF AnswersAreExact
<1> QED
  BY <1>7, <1>8, <1>9, <1>11, <1>13, <1>14 DEF SInv

\* A client whose whole file was read is added to the statistics.
LEMMA UpdatePreserves ==
  ASSUME SInv, UpdateTotal
  PROVE  SInv'
<1>1. PICK c \in Client : c = client_fd
  BY DEF SInv, AtClient, UpdateTotal, Goto, InClient
<1>2. /\ pc = "update" /\ pc' = "close"
      /\ UNCHANGED <<cvars, got_sigint, client_fd, bytes_remaining, temp_counts, printed>>
  BY DEF UpdateTotal, Goto
<1>3. \A d \in Client : Received(d)' = Received(d) /\ reply'[d] = reply[d]
  BY <1>2 DEF cvars, Received
<1>4. /\ Received(c) \in Nat /\ Len(File[c]) \in Nat /\ Len(File[c]) < UINT
      /\ UINT \in Nat \ {0}
  BY ReceivedIsNat, PccAssumption DEF SInv
<1>5. /\ reply[c] # NULL /\ bytes_remaining = Len(File[c]) - Received(c)
      /\ \A b \in Printable : temp_counts[b] = CountIn(File[c], {b}, Received(c)) % UINT
  BY <1>1, <1>2 DEF SInv, CountsFit
<1>6. c \notin Served /\ Served \subseteq Client
  BY <1>1, <1>2 DEF Served
<1>7. CInv'
  <2>1. ClientTypeOK'
    BY <1>2 DEF SInv, CInv, ClientTypeOK, cvars
  <2> QED
    BY <1>2, <2>1, QuietStep DEF SInv, cvars
<1>8. pcc_total' \in [Printable -> 0..(UINT - 1)] /\ Totals'
  <2>1. CASE bytes_remaining = 0
    <3>1. Received(c) = Len(File[c])
      BY <1>4, <1>5, <2>1
    <3>2. Served' = Served \cup {c}
      <4>1. c \in Served'
        BY <1>2, <1>3, <1>5, <3>1 DEF Served
      <4>2. \A d \in Client \ {c} : d \in Served' <=> d \in Served
        BY <1>1, <1>2, <1>3 DEF Served
      <4>3. Served' \subseteq Client
        BY DEF Served
      <4> QED
        BY <1>6, <4>1, <4>2, <4>3
    <3>3. pcc_total' = [b \in Printable |-> (pcc_total[b] + temp_counts[b]) % UINT]
      BY <2>1 DEF UpdateTotal
    <3>4. ASSUME NEW b \in Printable
          PROVE  /\ pcc_total'[b] = Cardinality(PlacesIn(Served, Lengths, b)') % UINT
                 /\ pcc_total'[b] \in 0..(UINT - 1)
      <4> DEFINE A == PlacesIn(Served, Lengths, b)
                 old == Cardinality(A)
                 new == CountIn(File[c], {b}, Len(File[c]))
      <4>1. PlacesIn(Served, Lengths, b)' = PlacesIn(Served \cup {c}, Lengths, b)
        BY <3>2 DEF PlacesIn, Lengths
      <4>2. Lengths \in [Client -> Nat] /\ Lengths[c] = Len(File[c])
        BY PccAssumption DEF Lengths
      <4>3. old \in Nat /\ Cardinality(PlacesIn(Served \cup {c}, Lengths, b)) = old + new
        <5>1. Served \in SUBSET Client /\ c \in Client \ Served /\ Lengths[c] < UINT
          BY <1>4, <1>6, <4>2
        <5> QED
          <6>1. /\ Cardinality(PlacesIn(Served, Lengths, b)) \in Nat
                /\ Cardinality(PlacesIn(Served \cup {c}, Lengths, b))
                     = Cardinality(PlacesIn(Served, Lengths, b))
                       + CountIn(File[c], {b}, Lengths[c])
            BY <4>2, <5>1, PlacesAdd
          <6> QED
            BY <4>2, <6>1
      <4>4. new \in Nat
        BY <1>4, CountIsNat
      <4>5. pcc_total[b] = old % UINT
        BY DEF SInv, Totals, Lengths
      <4>6. temp_counts[b] = new % UINT
        BY <1>5, <3>1
      <4>7. pcc_total'[b] = (pcc_total[b] + temp_counts[b]) % UINT
        BY <3>3
      <4> HIDE DEF A, old, new
      <4>8. ((old % UINT) + (new % UINT)) % UINT = (old + new) % UINT
        BY <1>4, <4>3, <4>4, RemainderOfSum
      <4>9. (old + new) % UINT \in 0..(UINT - 1)
        BY <1>4, <4>3, <4>4, Division
      <4> QED
        BY <4>1, <4>3, <4>5, <4>6, <4>7, <4>8, <4>9
    <3> QED
      BY <3>3, <3>4 DEF Totals, Lengths
  <2>2. CASE bytes_remaining # 0
    <3>1. c \notin Served'
      BY <1>3, <1>4, <1>5, <2>2 DEF Served
    <3>2. Served' = Served
      <4>1. \A d \in Client \ {c} : d \in Served' <=> d \in Served
        BY <1>1, <1>2, <1>3 DEF Served
      <4>2. Served' \subseteq Client
        BY DEF Served
      <4> QED
        <5>1. \A d : d \in Served' <=> d \in Served
          BY <1>6, <3>1, <4>1, <4>2
        <5> QED
          BY <5>1
    <3>3. pcc_total' = pcc_total
      BY <2>2 DEF UpdateTotal
    <3>4. ASSUME NEW b PROVE PlacesIn(Served, Lengths, b)' = PlacesIn(Served, Lengths, b)
      BY <3>2 DEF PlacesIn, Lengths
    <3> QED
      BY <3>3, <3>4 DEF SInv, TypeOK, Totals, Lengths
  <2> QED
    BY <2>1, <2>2
<1>9. TypeOK'
  BY <1>2, <1>7, <1>8 DEF SInv, TypeOK, CInv, InClient
<1>10. AtClient'
  BY <1>2 DEF SInv, AtClient, InClient, cvars
<1>11. CountsFit'
  BY <1>2 DEF CountsFit, Reading, Sizing
<1>12. AnswersAreExact'
  BY <1>2 DEF SInv, AnswersAreExact, cvars
<1> QED
  BY <1>7, <1>8, <1>9, <1>10, <1>11, <1>12 DEF SInv

(***************************************************************************)
(* The theorems.                                                           *)
(***************************************************************************)
\* Every step preserves the inductive invariant.
LEMMA StepPreserves ==
  ASSUME SInv, [Next]_vars
  PROVE  SInv'
<1>1. CASE Next
  <2>1. CASE Server
    BY <2>1, MovesPreserve, EndsPreserve, AcceptKeeps, SizePreserves, ContentPreserves,
       WritePreserves, UpdatePreserves DEF Server, handle_client
  <2>2. CASE AcceptFails \/ handle_sigint
    BY <2>2, MovesPreserve, EndsPreserve
  <2>3. CASE Quiet \/ UNCHANGED vars
    <3>1. UNCHANGED <<cvars, svars>>
      BY <2>3 DEF Quiet, vars
    <3>2. \A c \in Client : Received(c)' = Received(c)
      BY <3>1 DEF cvars, Received
    <3>3. ClientTypeOK'
      BY <3>1 DEF SInv, CInv, ClientTypeOK, cvars
    <3>4. CInv'
      BY <3>1, <3>3, QuietStep DEF SInv, cvars
    <3> QED
      BY <3>1, <3>2, <3>4, StillFits DEF cvars
  <2>4. CASE \E c \in Client : Client_(c) \/ (Die(c) /\ UNCHANGED svars)
    BY <2>4, ClientsPreserve DEF Client_
  <2> QED
    BY <1>1, <2>1, <2>2, <2>3, <2>4 DEF Next
<1>2. CASE UNCHANGED vars
  <2>1. UNCHANGED <<cvars, svars>>
    BY <1>2 DEF vars
  <2>2. \A c \in Client : Received(c)' = Received(c)
    BY <2>1 DEF cvars, Received
  <2>3. ClientTypeOK'
    BY <2>1 DEF SInv, CInv, ClientTypeOK, cvars
  <2>4. CInv'
    BY <2>1, <2>3, QuietStep DEF SInv, cvars
  <2> QED
    BY <2>1, <2>2, <2>4, StillFits DEF cvars
<1> QED
  BY <1>1, <1>2

\* The inductive invariant holds of every behaviour of the server and its clients.
THEOREM ServerInvariant == Spec => []SInv
<1>1. Init => SInv
  BY Initially, PccAssumption, InterruptsAssumption
<1>2. SInv /\ [Next]_vars => SInv'
  BY StepPreserves, PccAssumption
<1> QED
  BY <1>1, <1>2, PTL DEF Spec

\* While no SIGINT was received, every count the server writes is that of the whole file,
\* for any files, clients that die half-way, and bytes that arrive in any pieces.
THEOREM ServerAnswers == Spec => []AnswersAreExact
<1>1. SInv => AnswersAreExact
  BY DEF SInv
<1> QED
  BY <1>1, ServerInvariant, PTL

\* The statistics are those of the completed connections, each counted once, modulo 2^32.
THEOREM ServerTotals == Spec => []TotalsOfServed
<1>1. SInv => TotalsOfServed
  <2> SUFFICES ASSUME SInv PROVE TotalsOfServed
    OBVIOUS
  <2>1. ASSUME NEW b \in Printable
        PROVE  PlacesIn(Served, [c \in Client |-> Len(File[c])], b)
                 = {p \in Served \X (1..UINT) : p[2] <= Len(File[p[1]]) /\ File[p[1]][p[2]] = b}
    BY DEF PlacesIn, Served
  <2> QED
    BY <2>1 DEF SInv, Totals, TotalsOfServed
<1> QED
  BY <1>1, ServerInvariant, PTL

=============================================================================
