-------------------------- MODULE PccServerCppProofs --------------------------
(***************************************************************************)
(* Proofs about PccServerCpp, for every number of clients, every file and  *)
(* every way its bytes arrive: the answers are exact, the summary is never  *)
(* printed in the middle of a client, and it is that of the files whose    *)
(* count was sent if no client of which bytes were read broke off.         *)
(***************************************************************************)
EXTENDS PccServerCpp, PccClientProofs

WithClient == {"accepted", "size", "content", "close"}

\* The client being processed has been accepted, and waits no more.
AtClient ==
  /\ client_fd \in Client => c_pc[client_fd] # "connect" /\ client_fd \notin SetOf(backlog)
  /\ pc \in WithClient => client_fd \in Client
  /\ pc \in {"accept", "next_client"} => client_fd = NULL

\* printable_count is that of the bytes read so far, of the client being processed only.
CountsFit ==
  LET c == client_fd IN
  /\ pc \in {"accepted", "size"} => Untouched(c)
  /\ pc = "size" => bytes_read_total = 0 /\ printable_count = 0
  /\ pc = "content" =>
       /\ reply[c] = NULL /\ file_size = Len(File[c]) /\ bytes_read_total = Received(c)
       /\ printable_count = CountIn(File[c], Printable, Received(c))

\* Without the flag no client is half-way, the handler runs on a program that has not
\* ended, and what it printed is the end.
FlagFits ==
  /\ ~ processing_client => pc \in {"accept", "accepted"} \cup Ended
  /\ handler = "waiting" => pc \notin Ended
  /\ printed # NULL => pc \in Ended /\ printed = pcc_total

\* A client of which bytes were read, that has no count and has not broken off, is the one
\* being processed.
HalfWay ==
  \A c \in Client : Received(c) > 0 /\ reply[c] = NULL /\ ~ Lost(c) =>
    pc \in {"content"} \cup Ended /\ c = client_fd

\* The statistics, in terms of the places that were counted.
Totals ==
  \A b \in Printable :
    pcc_total[b] = Cardinality(PlacesIn(Client, [c \in Client |-> Received(c)], b)) % UINT

RepliesExact ==
  \A c \in Client : reply[c] # NULL => /\ reply[c] = PrintableIn(File[c])
                                     /\ Received(c) = Len(File[c])

SInv ==
  CInv /\ TypeOK /\ AtClient /\ CountsFit /\ FlagFits /\ HalfWay /\ Totals /\ RepliesExact
  /\ NoSummaryMidClient

ReadOf == [c \in Client |-> Received(c)]

\* Initially nothing was read.
LEMMA Initially ==
  ASSUME Init
  PROVE  SInv
<1>1. CInv
  BY ClientInitially DEF Init
<1>2. 0 \in 0..(UINT - 1) /\ UINT \in Nat \ {0}
  BY PccAssumption
<1>3. TypeOK
  BY <1>1, <1>2 DEF Init, TypeOK, CInv
<1>4. /\ client_fd = NULL /\ NULL \notin Client /\ pc = "accept" /\ handler = "none" /\ printed = NULL
      /\ \A c \in Client : reply[c] = NULL /\ Received(c) = 0
  BY PccAssumption DEF Init, ClientInit, Received
<1>5. Totals
  <2>1. ASSUME NEW b \in Printable PROVE Cardinality(PlacesIn(Client, ReadOf, b)) % UINT = 0
    <3>1. PlacesIn(Client, ReadOf, b) = {}
      <4>1. \A p \in Client \X (1..UINT) : ~ (p[2] <= ReadOf[p[1]])
        BY <1>2, <1>4 DEF ReadOf
      <4> QED
        BY <4>1 DEF PlacesIn
    <3>2. 0 % UINT = 0
      BY <1>2, RemainderOfSmall
    <3> QED
      BY <3>1, <3>2, FS_EmptySet
  <2> QED
    BY <2>1 DEF Totals, Init, ReadOf
<1> QED
  BY <1>1, <1>3, <1>4, <1>5 DEF SInv, AtClient, CountsFit, FlagFits, HalfWay,
     RepliesExact, NoSummaryMidClient, WithClient, Ended

(***************************************************************************)
(* Steps that read no bytes of a file and write no count.                  *)
(***************************************************************************)
\* The same bytes were counted, and the replies are as exact as they were.
LEMMA StillRead ==
  ASSUME SInv, UNCHANGED <<reply, pcc_total>>, \A c \in Client : Received(c)' = Received(c)
  PROVE  Totals' /\ RepliesExact'
<1>1. ReadOf' = ReadOf
  BY DEF ReadOf
<1>2. ASSUME NEW b PROVE PlacesIn(Client, ReadOf, b)' = PlacesIn(Client, ReadOf, b)
  BY <1>1 DEF PlacesIn
<1>3. Totals'
  BY <1>2 DEF SInv, Totals, ReadOf
<1>4. RepliesExact'
  BY DEF SInv, RepliesExact
<1> QED
  BY <1>3, <1>4

\* The server's state fits the client it processes as long as both go on as they were.
LEMMA StillFits ==
  ASSUME SInv, CInv', UNCHANGED <<svars, reply>>,
         \A c \in Client : Received(c)' = Received(c),
         \A c \in Client : Lost(c) => Lost(c)',
         \A c \in Client : c_pc'[c] = "connect" => c_pc[c] = "connect",
         \A c \in SetOf(backlog)' : c \in SetOf(backlog) \/ c_pc[c] = "connect"
  PROVE  SInv'
<1>1. TypeOK'
  BY DEF SInv, TypeOK, CInv, svars
<1>2. AtClient'
  BY DEF SInv, AtClient, svars
<1>3. CountsFit'
  <2>1. pc \in WithClient => /\ Received(client_fd)' = Received(client_fd)
                             /\ Untouched(client_fd)' = Untouched(client_fd)
    BY DEF SInv, AtClient, svars, Untouched
  <2> QED
    BY <2>1 DEF SInv, CountsFit, svars, WithClient
<1>4. FlagFits' /\ HalfWay' /\ NoSummaryMidClient'
  BY DEF SInv, FlagFits, HalfWay, NoSummaryMidClient, svars
<1>5. Totals' /\ RepliesExact'
  BY StillRead DEF svars
<1> QED
  BY <1>1, <1>2, <1>3, <1>4, <1>5 DEF SInv

\* The clients' steps.
LEMMA ClientsPreserve ==
  ASSUME SInv, NEW c \in Client,
         pcc_client(c) \/ Die(c), UNCHANGED svars
  PROVE  SInv'
<1>1. CInv' /\ ClientKeeps
  BY ClientPreserves DEF SInv
<1>2. \A d \in Client : Lost(d) => Lost(d)'
  <2>1. c_pc \in [Client -> {"connect", "size", "content", "count", "done", "failed"}]
    BY DEF SInv, CInv, ClientTypeOK
  <2>2. ~ Lost(c) /\ \E to : c_pc' = [c_pc EXCEPT ![c] = to]
    BY DEF Lost, pcc_client, Connect, SendSize, SendBytes, SendToNobody, ReceiveCount,
       ReceiveNothing, Die, ClientGoto
  <2> QED
    BY <2>1, <2>2 DEF Lost
<1> QED
  BY <1>1, <1>2, StillFits DEF ClientKeeps

\* No step of the program comes after the summary.
LEMMA StillSilent ==
  ASSUME SInv, pc \notin Ended, printed' = printed
  PROVE  printed' = NULL /\ NoSummaryMidClient'
BY DEF SInv, FlagFits, NoSummaryMidClient

\* Steps that change no connection.
LEMMA MovesPreserve ==
  ASSUME SInv, SetProcessing \/ NextClient \/ SigintArrives
  PROVE  SInv'
<1>1. /\ UNCHANGED <<cvars, pcc_total, client_fd, file_size, printed>> /\ pc \notin Ended
      /\ should_exit' \in BOOLEAN /\ processing_client' \in BOOLEAN /\ handler' \in {"none", "waiting"}
  BY DEF SetProcessing, NextClient, SigintArrives, Goto, Ended, SInv, TypeOK
<1>2. \/ /\ pc = "accepted" /\ pc' = "size" /\ processing_client' /\ handler' = "none"
         /\ bytes_read_total' = 0 /\ printable_count' = 0
      \/ /\ pc = "next_client" /\ pc' \in {"accept", "exited"} /\ handler' = "none"
         /\ UNCHANGED <<bytes_read_total, printable_count>>
      \/ UNCHANGED <<pc, processing_client, bytes_read_total, printable_count>>
  BY DEF SetProcessing, NextClient, SigintArrives, Goto
<1>3. \A c \in Client : Received(c)' = Received(c) /\ Untouched(c)' = Untouched(c)
  BY <1>1 DEF cvars, Received, Untouched
<1>4. CInv'
  <2>1. ClientTypeOK'
    BY <1>1 DEF SInv, CInv, ClientTypeOK, cvars
  <2> QED
    BY <1>1, <2>1, QuietStep DEF SInv, cvars
<1>5. TypeOK'
  <2>1. ClientTypeOK'
    BY <1>4 DEF CInv
  <2>2. bytes_read_total' \in Nat /\ printable_count' \in Nat
    BY <1>2 DEF SInv, TypeOK
  <2>3. pc' \in {"accept", "accepted", "size", "content", "close", "next_client"} \cup Ended
    BY <1>2 DEF SInv, TypeOK, Ended
  <2> QED
    BY <1>1, <2>1, <2>2, <2>3 DEF SInv, TypeOK
<1>6. AtClient'
  BY <1>1, <1>2 DEF SInv, AtClient, WithClient, cvars
<1>7. CountsFit'
  <2>1. pc \in WithClient => client_fd \in Client
    BY DEF SInv, AtClient
  <2>2. client_fd' = client_fd /\ reply' = reply /\ file_size' = file_size
    BY <1>1 DEF cvars
  <2> QED
    BY <1>2, <1>3, <2>1, <2>2 DEF SInv, CountsFit, WithClient
<1>8. FlagFits' /\ HalfWay'
  BY <1>1, <1>2, <1>3 DEF SInv, FlagFits, HalfWay, Lost, Ended, cvars
<1>9. NoSummaryMidClient'
  BY <1>1, StillSilent
<1>10. Totals' /\ RepliesExact'
  BY <1>1, <1>3, StillRead DEF cvars
<1> QED
  BY <1>4, <1>5, <1>6, <1>7, <1>8, <1>9, <1>10 DEF SInv

\* A client is given up or closed.
LEMMA EndsPreserve ==
  ASSUME SInv, ReceiveFails \/ SendFails \/ Close \/ ReceiveBreaks
  PROVE  SInv'
<1>1. /\ UNCHANGED <<c_pc, sent, size_in, bytes_in, reply, reply_in, result, handler,
                     processing_client, should_exit, pcc_total, file_size, bytes_read_total,
                     printable_count, printed>>
      /\ pc \in {"size", "content", "close"} /\ handler = "none"
      /\ backlog' \in {backlog, <<>>}
      /\ \/ pc' = "next_client" /\ client_fd' = NULL
         \/ pc' \in {"close", "killed", "exited"} /\ client_fd' = client_fd
      /\ pc = "content" => pc' = "exited" \/ Lost(client_fd)
  BY DEF ReceiveFails, SendFails, Close, ReceiveBreaks, Goto
<1>2. hung_up' \in [Client -> BOOLEAN] /\ listening' \in BOOLEAN
  <2>1. hung_up \in [Client -> BOOLEAN] /\ listening \in BOOLEAN
    BY DEF SInv, CInv, ClientTypeOK
  <2>2. \/ hung_up' = hung_up \/ hung_up' = [hung_up EXCEPT ![client_fd] = TRUE]
        \/ hung_up' = [c \in Client |-> hung_up[c] \/ c_pc[c] # "connect"]
    BY DEF ReceiveFails, SendFails, Close, ReceiveBreaks, HangUp
  <2>3. listening' = listening \/ listening' = FALSE
    BY DEF ReceiveFails, SendFails, Close, ReceiveBreaks
  <2> QED
    BY <2>1, <2>2, <2>3
<1>3. ClientTypeOK'
  <2>1. backlog' \in Seq(Client)
    <3>1. <<>> \in Seq(Client) /\ backlog \in Seq(Client)
      BY DEF SInv, CInv, ClientTypeOK
    <3> QED
      BY <1>1, <3>1
  <2> QED
    BY <1>1, <1>2, <2>1 DEF SInv, CInv, ClientTypeOK
<1>4. CInv' /\ \A c \in Client : Received(c)' = Received(c)
  <2>1. CASE backlog' = backlog
    BY <1>1, <1>3, <2>1, QuietStep DEF SInv
  <2>2. CASE backlog' = <<>>
    BY <1>1, <1>3, <2>2, StopPreserves DEF SInv
  <2> QED
    BY <1>1, <2>1, <2>2
<1>5. TypeOK'
  BY <1>1, <1>3 DEF SInv, TypeOK, Ended
<1>6. AtClient'
  <2>1. SetOf(backlog)' \subseteq SetOf(backlog)
    BY <1>1 DEF SetOf
  <2> QED
    BY <1>1, <2>1, PccAssumption DEF SInv, AtClient, WithClient
<1>7. CountsFit'
  BY <1>1 DEF CountsFit
<1>8. FlagFits' /\ HalfWay'
  BY <1>1, <1>4 DEF SInv, FlagFits, HalfWay, Lost, Ended
<1>9. NoSummaryMidClient'
  BY <1>1, StillSilent DEF Ended
<1>10. Totals' /\ RepliesExact'
  BY <1>1, <1>4, StillRead
<1> QED
  BY <1>4, <1>5, <1>6, <1>7, <1>8, <1>9, <1>10 DEF SInv

\* The summary is printed when no client is half-way, and every connection ends with it.
LEMMA SummaryPreserves ==
  ASSUME SInv, SummaryExits
  PROVE  SInv'
<1>1. /\ handler = "waiting" /\ ~ processing_client /\ handler' = "none" /\ pc' = "exited"
      /\ printed' = pcc_total /\ listening' = FALSE /\ backlog' = <<>>
      /\ hung_up' = [c \in Client |-> hung_up[c] \/ c_pc[c] # "connect"]
      /\ UNCHANGED <<c_pc, sent, size_in, bytes_in, reply, reply_in, result, processing_client,
                     should_exit, pcc_total, client_fd, file_size, bytes_read_total,
                     printable_count>>
  BY DEF SummaryExits
<1>2. ClientTypeOK'
  <2>1. <<>> \in Seq(Client)
    OBVIOUS
  <2>2. hung_up' \in [Client -> BOOLEAN]
    BY <1>1 DEF SInv, CInv, ClientTypeOK
  <2> QED
    BY <1>1, <2>1, <2>2 DEF SInv, CInv, ClientTypeOK
<1>3. CInv' /\ \A c \in Client : Received(c)' = Received(c)
  BY <1>1, <1>2, StopPreserves DEF SInv
<1>4. TypeOK'
  BY <1>1, <1>2 DEF SInv, TypeOK, Ended
<1>5. AtClient'
  <2>1. SetOf(backlog)' = {}
    BY <1>1 DEF SetOf
  <2> QED
    BY <1>1, <2>1 DEF SInv, AtClient, WithClient
<1>6. CountsFit' /\ FlagFits'
  BY <1>1 DEF CountsFit, FlagFits, Ended
<1>7. NoSummaryMidClient' /\ HalfWay'
  <2>1. pc \in {"accept", "accepted"}
    BY <1>1 DEF SInv, FlagFits
  <2>2. \A c \in Client : Received(c) > 0 => reply[c] # NULL \/ Lost(c)
    BY <2>1 DEF SInv, HalfWay, Ended
  <2> QED
    BY <1>1, <1>3, <2>2 DEF NoSummaryMidClient, HalfWay, Lost
<1>8. Totals' /\ RepliesExact'
  BY <1>1, <1>3, StillRead
<1> QED
  BY <1>3, <1>4, <1>5, <1>6, <1>7, <1>8 DEF SInv

\* A client is accepted: nothing was read of its file.
LEMMA AcceptKeeps ==
  ASSUME SInv, Accept
  PROVE  SInv'
<1>1. PICK c \in Client : c = Head(backlog)
  BY AcceptPreserves DEF SInv, Accept
<1>2. /\ pc = "accept" /\ pc' = "accepted" /\ backlog # <<>> /\ handler = "none"
      /\ client_fd' = c /\ backlog' = Tail(backlog)
      /\ UNCHANGED <<listening, c_pc, sent, size_in, bytes_in, hung_up, reply, reply_in, result,
                     handler, processing_client, should_exit, pcc_total, file_size,
                     bytes_read_total, printable_count, printed>>
  BY <1>1 DEF Accept, Goto
<1>3. /\ CInv' /\ \A d \in Client : Received(d)' = Received(d)
      /\ c_pc[c] # "connect" /\ Untouched(c) /\ c \notin SetOf(backlog)'
  BY <1>1, <1>2, AcceptPreserves DEF SInv
<1>4. TypeOK'
  BY <1>2, <1>3 DEF SInv, TypeOK, CInv, Ended
<1>5. AtClient'
  BY <1>2, <1>3 DEF AtClient
<1>6. Untouched(c)'
  BY <1>2, <1>3 DEF Untouched
<1>7. CountsFit'
  BY <1>2, <1>6 DEF CountsFit
<1>8. FlagFits' /\ HalfWay'
  BY <1>2, <1>3 DEF SInv, FlagFits, HalfWay, Lost, Ended
<1>9. NoSummaryMidClient'
  BY <1>2, StillSilent DEF Ended
<1>10. Totals' /\ RepliesExact'
  BY <1>2, <1>3, StillRead
<1> QED
  BY <1>3, <1>4, <1>5, <1>7, <1>8, <1>9, <1>10 DEF SInv

\* The size of the file is read.
LEMMA SizePreserves ==
  ASSUME SInv, ReceiveSize
  PROVE  SInv'
<1>1. PICK c \in Client : c = client_fd
  BY DEF SInv, AtClient, ReceiveSize, Goto, WithClient
<1>2. /\ pc = "size" /\ pc' = "content" /\ handler = "none" /\ file_size' = Len(File[c])
      /\ size_in' = [size_in EXCEPT ![c] = 0]
      /\ UNCHANGED <<listening, backlog, c_pc, sent, bytes_in, hung_up, reply, reply_in, result,
                     handler, processing_client, should_exit, pcc_total, client_fd,
                     bytes_read_total, printable_count, printed>>
  BY <1>1 DEF ReceiveSize, Goto
<1>3. Received(c) = 0 /\ reply[c] = NULL /\ bytes_read_total = 0 /\ printable_count = 0
  BY <1>1, <1>2 DEF SInv, CountsFit, Untouched
<1>4. ClientTypeOK'
  <2>1. WORD \in Nat /\ 0 \in 0..WORD /\ size_in \in [Client -> 0..WORD]
    BY PccAssumption DEF SInv, CInv, ClientTypeOK
  <2>2. size_in' \in [Client -> 0..WORD]
    BY <1>2, <2>1
  <2> QED
    BY <1>2, <2>2 DEF SInv, CInv, ClientTypeOK
<1>5. CInv' /\ \A d \in Client : Received(d)' = Received(d)
  BY <1>2, <1>4, QuietStep DEF SInv
<1>6. Len(File[c]) \in Nat
  BY ReceivedIsNat DEF SInv
<1>7. TypeOK'
  BY <1>2, <1>4, <1>6 DEF SInv, TypeOK, Ended
<1>8. AtClient'
  BY <1>1, <1>2 DEF SInv, AtClient
<1>9. CountsFit'
  <2>1. Received(c)' = 0 /\ reply'[c] = NULL /\ client_fd' = c /\ bytes_read_total' = 0
        /\ printable_count' = 0
    BY <1>1, <1>2, <1>3, <1>5
  <2>2. CountIn(File[c], Printable, 0) = 0
    BY CountNothing
  <2> QED
    BY <1>2, <2>1, <2>2 DEF CountsFit
<1>10. FlagFits' /\ HalfWay'
  BY <1>2, <1>5 DEF SInv, FlagFits, HalfWay, Lost, Ended
<1>11. NoSummaryMidClient'
  BY <1>2, StillSilent DEF Ended
<1>12. Totals' /\ RepliesExact'
  BY <1>2, <1>5, StillRead
<1> QED
  BY <1>5, <1>7, <1>8, <1>9, <1>10, <1>11, <1>12 DEF SInv

(***************************************************************************)
(* The steps that count.                                                   *)
(***************************************************************************)
\* The places counted are those of one file and those of the others.
LEMMA PlacesSplit ==
  ASSUME NEW c \in Client, NEW L \in [Client -> Nat], L[c] < UINT, NEW b
  PROVE  /\ Cardinality(PlacesIn(Client \ {c}, L, b)) \in Nat
         /\ Cardinality(PlacesIn(Client, L, b))
              = Cardinality(PlacesIn(Client \ {c}, L, b)) + CountIn(File[c], {b}, L[c])
<1>1. PICK X \in SUBSET Client : X = Client \ {c}
  OBVIOUS
<1>2. c \in Client \ X
  BY <1>1
<1>3. /\ Cardinality(PlacesIn(X, L, b)) \in Nat
      /\ Cardinality(PlacesIn(X \cup {c}, L, b))
           = Cardinality(PlacesIn(X, L, b)) + CountIn(File[c], {b}, L[c])
  BY <1>2, PlacesAdd
<1>4. X \cup {c} = Client
  BY <1>1
<1> QED
  BY <1>1, <1>3, <1>4

\* What has been read of every file changes from L to M: of c's file n bytes more, t.
ReadsOn(L, M, c, n, t) ==
  /\ c \in Client /\ n \in Nat /\ L \in [Client -> Nat] /\ M \in [Client -> Nat]
  /\ M[c] = L[c] + n /\ M[c] < UINT /\ L[c] < UINT
  /\ \A d \in Client \ {c} : M[d] = L[d]
  /\ Continues(t, File[c], L[c], n)

\* The places counted when n more bytes of one file are.
LEMMA PlacesOfChunk ==
  ASSUME NEW c, NEW n, NEW t, NEW b, NEW L, NEW M, ReadsOn(L, M, c, n, t)
  PROVE  /\ Cardinality(PlacesIn(Client, L, b)) \in Nat
         /\ Cardinality(PlacesIn(Client, M, b))
              = Cardinality(PlacesIn(Client, L, b)) + CountIn(t, {b}, n)
<1> c \in Client /\ n \in Nat /\ L \in [Client -> Nat] /\ M \in [Client -> Nat]
  BY DEF ReadsOn
<1>1. /\ Cardinality(PlacesIn(Client \ {c}, L, b)) \in Nat
      /\ Cardinality(PlacesIn(Client, L, b))
           = Cardinality(PlacesIn(Client \ {c}, L, b)) + CountIn(File[c], {b}, L[c])
  <2>1. L[c] < UINT
    BY DEF ReadsOn
  <2> QED
    BY <2>1, PlacesSplit
<1>2. Cardinality(PlacesIn(Client, M, b))
        = Cardinality(PlacesIn(Client \ {c}, M, b)) + CountIn(File[c], {b}, M[c])
  <2>1. M[c] < UINT
    BY DEF ReadsOn
  <2> QED
    BY <2>1, PlacesSplit
<1>3. PlacesIn(Client \ {c}, M, b) = PlacesIn(Client \ {c}, L, b)
  BY DEF PlacesIn, ReadsOn
<1>4. PICK r \in Nat : r = L[c]
  OBVIOUS
<1>5. CountIn(File[c], {b}, r + n) = CountIn(File[c], {b}, r) + CountIn(t, {b}, n)
  <2>1. Continues(t, File[c], r, n)
    BY <1>4 DEF ReadsOn
  <2> QED
    BY <2>1, CountAdds
<1>6. M[c] = r + n
  BY <1>4 DEF ReadsOn
<1>7. CountIn(File[c], {b}, r) \in Nat /\ CountIn(t, {b}, n) \in Nat
  BY CountIsNat
<1> QED
  BY <1>1, <1>2, <1>3, <1>4, <1>5, <1>6, <1>7

\* What is read is the next part of the file, and is counted once.
LEMMA ContentPreserves ==
  ASSUME SInv, ReceiveContent
  PROVE  SInv'
<1>1. PICK c \in Client : c = client_fd
  BY DEF SInv, AtClient, ReceiveContent, Goto, WithClient
<1>2. /\ pc = "content" /\ pc' = "content" /\ handler = "none"
      /\ UNCHANGED <<listening, backlog, c_pc, sent, size_in, hung_up, reply, reply_in, result,
                     handler, processing_client, should_exit, client_fd, file_size, printed>>
  BY DEF ReceiveContent, Goto
<1>3. /\ Received(c) \in Nat /\ Len(File[c]) \in Nat /\ Len(bytes_in[c]) \in Nat
      /\ Received(c) + Len(bytes_in[c]) <= Len(File[c])
      /\ file_size \in Nat /\ bytes_read_total \in Nat /\ printable_count \in Nat
      /\ UINT \in Nat \ {0}
  BY ReceivedIsNat, PccAssumption DEF SInv, TypeOK
<1>4. PICK n \in Nat :
        LET chunk == SubSeq(bytes_in[c], 1, n) IN
        /\ n \in 1..Len(bytes_in[c]) /\ TakeBytes(c, n)
        /\ printable_count' = printable_count + PrintableIn(chunk)
        /\ pcc_total' = [b \in Printable |-> (pcc_total[b] + Occurrences(b, chunk)) % UINT]
        /\ bytes_read_total' = bytes_read_total + n
  <2>1. PICK n \in 1..SmallerOf(file_size - bytes_read_total, Len(bytes_in[c])) :
          LET chunk == SubSeq(bytes_in[c], 1, n) IN
          /\ TakeBytes(c, n)
          /\ printable_count' = printable_count + PrintableIn(chunk)
          /\ pcc_total' = [b \in Printable |-> (pcc_total[b] + Occurrences(b, chunk)) % UINT]
          /\ bytes_read_total' = bytes_read_total + n
    BY <1>1 DEF ReceiveContent
  <2>2. n \in Nat /\ n \in 1..Len(bytes_in[c])
    BY <1>3 DEF SmallerOf
  <2> QED
    BY <2>1, <2>2
<1>5. n \in 1..Len(bytes_in[c])
  BY <1>4
<1>6. /\ c_pc[c] # "connect" /\ c \notin SetOf(backlog) /\ reply[c] = NULL
      /\ file_size = Len(File[c]) /\ bytes_read_total = Received(c)
      /\ printable_count = CountIn(File[c], Printable, Received(c))
  BY <1>1, <1>2 DEF SInv, AtClient, CountsFit
<1> DEFINE chunk == SubSeq(bytes_in[c], 1, n)
<1>7. /\ CInv' /\ Received(c)' = Received(c) + n
      /\ \A d \in Client \ {c} : Received(d)' = Received(d)
      /\ Len(chunk) = n /\ Continues(chunk, File[c], Received(c), n)
  BY <1>2, <1>4, <1>5, <1>6, TakePreserves DEF SInv
<1>8. /\ printable_count' = printable_count + PrintableIn(chunk)
      /\ pcc_total' = [b \in Printable |-> (pcc_total[b] + Occurrences(b, chunk)) % UINT]
      /\ bytes_read_total' = bytes_read_total + n
  BY <1>4
<1> HIDE DEF chunk
<1>9. printable_count' = CountIn(File[c], Printable, Received(c) + n) /\ printable_count' \in Nat
  <2>1. PICK r \in Nat : r = Received(c)
    BY <1>3
  <2>2. Continues(chunk, File[c], r, n)
    BY <1>7, <2>1
  <2>3. CountIn(File[c], Printable, r + n) = CountIn(File[c], Printable, r) + CountIn(chunk, Printable, n)
    BY <1>5, <2>2, CountAdds
  <2>4. PrintableIn(chunk) = CountIn(chunk, Printable, n)
    BY <1>7, CountsOfSequences
  <2>5. CountIn(chunk, Printable, n) \in Nat
    BY <1>5, CountIsNat
  <2>6. /\ printable_count \in Nat /\ printable_count = CountIn(File[c], Printable, r)
        /\ printable_count' = printable_count + PrintableIn(chunk)
    BY <1>3, <1>6, <1>8, <2>1
  <2>7. printable_count' = CountIn(File[c], Printable, r + n) /\ printable_count' \in Nat
    BY <2>3, <2>4, <2>5, <2>6
  <2> QED
    BY <2>1, <2>7
<1>10. ASSUME NEW b \in Printable
       PROVE  /\ pcc_total'[b] = Cardinality(PlacesIn(Client, ReadOf, b)') % UINT
              /\ pcc_total'[b] \in 0..(UINT - 1)
  <2> DEFINE old == Cardinality(PlacesIn(Client, ReadOf, b))
             new == CountIn(chunk, {b}, n)
  <2>1. old \in Nat /\ Cardinality(PlacesIn(Client, ReadOf, b)') = old + new
    <3>1. PICK L \in [Client -> Nat] : L = ReadOf
      BY ReceivedIsNat DEF SInv, ReadOf
    <3>2. PICK M \in [Client -> Nat] : M = ReadOf'
      <4>1. \A d \in Client : Received(d)' \in Nat
        <5>1. \A d \in Client : Received(d) \in Nat
          BY ReceivedIsNat DEF SInv
        <5> QED
          BY <1>5, <1>7, <5>1
      <4> QED
        BY <4>1 DEF ReadOf
    <3>3. /\ L[c] = Received(c) /\ M[c] = Received(c) + n
          /\ \A d \in Client \ {c} : M[d] = L[d]
      BY <1>7, <3>1, <3>2 DEF ReadOf
    <3>4. Continues(chunk, File[c], L[c], n)
      BY <1>7, <3>3
    <3>5. ReadsOn(L, M, c, n, chunk)
      <4>1. Received(c) + n <= Len(File[c]) /\ Len(File[c]) < UINT
        BY <1>3, <1>5, PccAssumption
      <4>2. M[c] = L[c] + n /\ M[c] < UINT /\ L[c] < UINT
        BY <1>3, <3>3, <4>1
      <4> QED
        BY <3>3, <3>4, <4>2 DEF ReadsOn
    <3>6. /\ Cardinality(PlacesIn(Client, L, b)) \in Nat
          /\ Cardinality(PlacesIn(Client, M, b))
               = Cardinality(PlacesIn(Client, L, b)) + CountIn(chunk, {b}, n)
      BY <3>5, PlacesOfChunk
    <3>7. PlacesIn(Client, ReadOf, b)' = PlacesIn(Client, M, b)
      BY <3>2 DEF PlacesIn
    <3> QED
      BY <3>1, <3>6, <3>7
  <2>2. new \in Nat
    BY <1>5, CountIsNat
  <2>3. pcc_total[b] = old % UINT
    BY DEF SInv, Totals, ReadOf
  <2>4. Occurrences(b, chunk) = new
    BY <1>7, CountsOfSequences
  <2>5. pcc_total'[b] = (pcc_total[b] + Occurrences(b, chunk)) % UINT
    BY <1>8
  <2> HIDE DEF old, new
  <2>6. ((old % UINT) + new) % UINT = (old + new) % UINT
    BY <1>3, <2>1, <2>2, RemainderOfSum
  <2>7. (old + new) % UINT \in 0..(UINT - 1)
    <3>1. old + new \in Nat
      BY <2>1, <2>2
    <3> QED
      BY <1>3, <3>1, Division
  <2> QED
    BY <2>1, <2>3, <2>4, <2>5, <2>6, <2>7
<1>11. Totals' /\ pcc_total' \in [Printable -> 0..(UINT - 1)]
  BY <1>8, <1>10 DEF Totals, ReadOf
<1>12. TypeOK'
  <2>1. ClientTypeOK'
    BY <1>7 DEF CInv
  <2>2. bytes_read_total' \in Nat
    BY <1>3, <1>5, <1>8
  <2> QED
    BY <1>2, <1>9, <1>11, <2>1, <2>2 DEF SInv, TypeOK, Ended
<1>13. AtClient'
  BY <1>1, <1>2, <1>6 DEF AtClient
<1>14. CountsFit'
  <2>1. /\ client_fd' = c /\ reply'[c] = NULL /\ file_size' = Len(File[c])
        /\ bytes_read_total' = Received(c) + n
    BY <1>1, <1>2, <1>6, <1>8
  <2> QED
    BY <1>2, <1>7, <1>9, <2>1 DEF CountsFit
<1>15. FlagFits' /\ HalfWay'
  BY <1>1, <1>2, <1>7 DEF SInv, FlagFits, HalfWay, Lost, Ended
<1>16. NoSummaryMidClient'
  BY <1>2, StillSilent DEF Ended
<1>17. RepliesExact'
  BY <1>2, <1>6, <1>7 DEF SInv, RepliesExact
<1> QED
  BY <1>7, <1>11, <1>12, <1>13, <1>14, <1>15, <1>16, <1>17 DEF SInv

\* The count of the whole file is sent.
LEMMA SendPreservesInv ==
  ASSUME SInv, Send
  PROVE  SInv'
<1>1. PICK c \in Client : c = client_fd
  BY DEF SInv, AtClient, Send, Goto, WithClient
<1>2. /\ pc = "content" /\ pc' = "close" /\ handler = "none"
      /\ bytes_read_total = file_size /\ WriteReply(c, printable_count)
      /\ UNCHANGED <<listening, backlog, c_pc, sent, size_in, bytes_in, hung_up, result,
                     handler, processing_client, should_exit, pcc_total, client_fd, file_size,
                     bytes_read_total, printable_count, printed>>
  BY <1>1 DEF Send, Goto
<1>3. /\ c_pc[c] # "connect" /\ c \notin SetOf(backlog) /\ reply[c] = NULL
      /\ file_size = Len(File[c]) /\ bytes_read_total = Received(c)
      /\ printable_count = CountIn(File[c], Printable, Received(c)) /\ printable_count \in Nat
  BY <1>1, <1>2 DEF SInv, AtClient, CountsFit, TypeOK
<1>4. printable_count = PrintableIn(File[c])
  BY <1>2, <1>3, CountsOfSequences
<1>5. PICK v \in Nat : v = printable_count
  BY <1>3
<1>6. WriteReply(c, v)
  BY <1>2, <1>5 DEF WriteReply
<1>7. /\ CInv' /\ \A d \in Client : Received(d)' = Received(d)
      /\ reply'[c] = v /\ \A d \in Client \ {c} : reply'[d] = reply[d]
  BY <1>2, <1>3, <1>6, ReplyPreserves DEF SInv
<1>8. TypeOK'
  BY <1>2, <1>7 DEF SInv, TypeOK, CInv, Ended
<1>9. AtClient'
  BY <1>1, <1>2, <1>3 DEF AtClient
<1>10. CountsFit'
  BY <1>2 DEF CountsFit
<1>11. FlagFits' /\ HalfWay'
  <2>1. reply'[c] # NULL
    BY <1>7, PccAssumption
  <2> QED
    BY <1>1, <1>2, <1>7, <2>1 DEF SInv, FlagFits, HalfWay, Lost, Ended
<1>12. NoSummaryMidClient'
  BY <1>2, StillSilent DEF Ended
<1>13. RepliesExact'
  <2>1. ASSUME NEW d \in Client, reply'[d] # NULL
        PROVE  reply'[d] = PrintableIn(File[d]) /\ Received(d)' = Len(File[d])
    <3>1. CASE d = c
      BY <1>2, <1>3, <1>4, <1>5, <1>7, <3>1
    <3>2. CASE d # c
      BY <1>7, <2>1, <3>2 DEF SInv, RepliesExact
    <3> QED
      BY <3>1, <3>2
  <2> QED
    BY <2>1 DEF RepliesExact
<1>14. Totals'
  <2>1. ReadOf' = ReadOf
    BY <1>7 DEF ReadOf
  <2>2. ASSUME NEW b PROVE PlacesIn(Client, ReadOf, b)' = PlacesIn(Client, ReadOf, b)
    BY <2>1 DEF PlacesIn
  <2> QED
    BY <1>2, <2>2 DEF SInv, Totals, ReadOf
<1> QED
  BY <1>7, <1>8, <1>9, <1>10, <1>11, <1>12, <1>13, <1>14 DEF SInv

(***************************************************************************)
(* The theorems.                                                           *)
(***************************************************************************)
\* A step that changes nothing preserves the invariant.
LEMMA StutterPreserves ==
  ASSUME SInv, UNCHANGED vars
  PROVE  SInv'
<1>1. UNCHANGED <<cvars, svars>>
  BY DEF vars
<1>2. \A c \in Client : Received(c)' = Received(c)
  BY <1>1 DEF cvars, Received
<1>3. ClientTypeOK'
  BY <1>1 DEF SInv, CInv, ClientTypeOK, cvars
<1>4. CInv'
  BY <1>1, <1>3, QuietStep DEF SInv, cvars
<1> QED
  BY <1>1, <1>2, <1>4, StillFits DEF cvars, Lost

\* Every step preserves the inductive invariant.
LEMMA StepPreserves ==
  ASSUME SInv, [Next]_vars
  PROVE  SInv'
<1>1. CASE receiveFromClient \/ ReceiveBreaks
  BY <1>1, MovesPreserve, EndsPreserve, AcceptKeeps, SizePreserves, ContentPreserves,
     SendPreservesInv DEF receiveFromClient
<1>2. CASE printSummary
  BY <1>2, MovesPreserve, SummaryPreserves DEF printSummary
<1>3. CASE Sleeps \/ Quiet \/ UNCHANGED vars
  BY <1>3, StutterPreserves DEF Sleeps, Quiet
<1>4. CASE \E c \in Client : Client_(c) \/ (Die(c) /\ UNCHANGED svars)
  BY <1>4, ClientsPreserve DEF Client_
<1> QED
  BY <1>1, <1>2, <1>3, <1>4 DEF Next

\* The inductive invariant holds of every behaviour of the server and its clients.
THEOREM ServerInvariant == Spec => []SInv
<1>1. Init => SInv
  BY Initially, PccAssumption, InterruptsAssumption
<1>2. SInv /\ [Next]_vars => SInv'
  BY StepPreserves, PccAssumption
<1> QED
  BY <1>1, <1>2, PTL DEF Spec

\* With clients that wait for the whole word of the reply, what is sent and what is
\* printed is the count of the whole file, SIGINT or not.
THEOREM ServerAnswers ==
  ASSUME WaitAll
  PROVE  Spec => []AnswersAreExact
<1>1. Init => AnswersAreExact
  BY DEF Init, ClientInit, AnswersAreExact
<1>2. SInv /\ SInv' /\ AnswersAreExact /\ [Next]_vars => AnswersAreExact'
  <2> SUFFICES ASSUME SInv, SInv', AnswersAreExact, [Next]_vars PROVE AnswersAreExact'
    OBVIOUS
  <2>1. \A d \in Client : result'[d] = result[d] \/ (result'[d] = reply[d] /\ reply[d] # NULL)
    <3>1. CASE \E c \in Client : pcc_client(c) \/ Die(c)
      BY <3>1, ResultIsReply DEF SInv
    <3>2. CASE receiveFromClient \/ ReceiveBreaks
      BY <3>2 DEF receiveFromClient, ReceiveBreaks, Accept, SetProcessing, ReceiveSize, ReceiveFails,
         ReceiveContent, Send, SendFails, Close, NextClient, cvars
    <3>3. CASE printSummary \/ Sleeps \/ Quiet \/ UNCHANGED vars
      BY <3>3 DEF printSummary, SigintArrives, SummaryExits, Sleeps, Quiet, vars, cvars
    <3> QED
      BY <3>1, <3>2, <3>3 DEF Next, Client_
  <2> QED
    BY <2>1 DEF SInv, RepliesExact, AnswersAreExact
<1> QED
  BY <1>1, <1>2, ServerInvariant, PTL DEF Spec

\* The summary is that of the files whose count was sent, each counted once modulo 2^32,
\* if every client of which bytes were read was sent its count.
THEOREM ServerTotals == Spec => []SummaryOfAnswered
<1>1. SInv => SummaryOfAnswered
  <2> SUFFICES ASSUME SInv, printed # NULL, \A c \in Client : Received(c) > 0 => reply[c] # NULL,
                      NEW b \in Printable
               PROVE  printed[b] = AnsweredTotal(b)
    BY DEF SInv, SummaryOfAnswered
  <2>1. \A c \in Client : Received(c) \in Nat /\ Len(File[c]) \in Nat
    BY ReceivedIsNat DEF SInv
  <2>2. \A c \in Client, k \in 1..UINT :
          k <= Received(c) <=> reply[c] # NULL /\ k <= Len(File[c])
    BY <2>1, PccAssumption DEF SInv, RepliesExact, CInv, NotAccepted, Untouched
  <2>3. PlacesIn(Client, [c \in Client |-> Received(c)], b)
          = {p \in Client \X (1..UINT) :
               reply[p[1]] # NULL /\ p[2] <= Len(File[p[1]]) /\ File[p[1]][p[2]] = b}
    BY <2>2 DEF PlacesIn
  <2>4. printed[b] = pcc_total[b]
    BY DEF SInv, FlagFits
  <2> QED
    BY <2>3, <2>4 DEF SInv, Totals, AnsweredTotal
<1> QED
  BY <1>1, ServerInvariant, PTL

\* The handler of SIGINT prints only when every client of which bytes were read was sent
\* its count or broke off, wherever it interrupts the program.
THEOREM SummaryBetweenClients == Spec => []NoSummaryMidClient
<1>1. SInv => NoSummaryMidClient
  BY DEF SInv
<1> QED
  BY <1>1, ServerInvariant, PTL

=============================================================================
