----------------------------- MODULE PccServerCpp -----------------------------
(***************************************************************************)
(* Operating Systems/ex5/C++ solution/pcc_server.cpp: the same service, but *)
(* SIGINT's handler itself waits for the client and prints, on the only    *)
(* thread there is, and the statistics are updated while bytes arrive.     *)
(* signal() restarts an interrupted call, so no call sees EINTR.           *)
(***************************************************************************)
EXTENDS PccClient

CONSTANT Interrupts   \* may SIGINT be delivered?

ASSUME InterruptsAssumption == Interrupts \in BOOLEAN

VARIABLES
  pc,               \* where receiveFromClient is
  handler,          \* "none", or where printSummary is; it suspends receiveFromClient
  processing_client, should_exit, pcc_total,
  client_fd, file_size, bytes_read_total, printable_count,
  printed           \* the statistics printed on exit, or NULL

svars == <<pc, handler, processing_client, should_exit, pcc_total, client_fd, file_size,
           bytes_read_total, printable_count, printed>>
vars == <<cvars, svars>>

Init ==
  /\ ClientInit
  /\ pc = "accept" /\ handler = "none"
  /\ processing_client = FALSE /\ should_exit = FALSE
  /\ pcc_total = [b \in Printable |-> 0]
  /\ client_fd = NULL /\ file_size = 0 /\ bytes_read_total = 0 /\ printable_count = 0
  /\ printed = NULL

Ended == {"exited", "killed"}

\* The main thread runs only while no handler is on its stack.
Goto(from, to) == handler = "none" /\ pc = from /\ pc' = to

(***************************************************************************)
(* receiveFromClient                                                       *)
(***************************************************************************)
Accept ==
  /\ Goto("accept", "accepted")
  /\ backlog # <<>>
  /\ client_fd' = Head(backlog)
  /\ backlog' = Tail(backlog)
  /\ UNCHANGED <<listening, c_pc, sent, size_in, bytes_in, hung_up, reply, reply_in, result,
                 handler, processing_client, should_exit, pcc_total, file_size,
                 bytes_read_total, printable_count, printed>>

\* Mutant: printable_count is not reset for the next client.
SetProcessingKeeps ==
  /\ Goto("accepted", "size")
  /\ processing_client' = TRUE
  /\ bytes_read_total' = 0
  /\ UNCHANGED <<cvars, handler, should_exit, pcc_total, client_fd, file_size,
                 printable_count, printed>>

SetProcessing ==
  /\ Goto("accepted", "size")
  /\ processing_client' = TRUE
  /\ printable_count' = 0 /\ bytes_read_total' = 0
  /\ UNCHANGED <<cvars, handler, should_exit, pcc_total, client_fd, file_size, printed>>

\* MSG_WAITALL: the whole word, or the connection is at its end.
ReceiveSize ==
  LET c == client_fd IN
  /\ Goto("size", "content")
  /\ size_in[c] = WORD
  /\ size_in' = [size_in EXCEPT ![c] = 0]
  /\ file_size' = Len(File[c])
  /\ UNCHANGED <<listening, backlog, c_pc, sent, bytes_in, hung_up, reply, reply_in, result,
                 handler, processing_client, should_exit, pcc_total, client_fd,
                 bytes_read_total, printable_count, printed>>

\* Mutant: the end of the connection is taken for a recv to be repeated.
ReceiveFailsRepeats ==
  /\ handler = "none" /\ pc \in {"size", "content"}
  /\ pc = "content" => bytes_read_total < file_size
  /\ Lost(client_fd)
  /\ UNCHANGED vars

ReceiveFails ==
  /\ \/ Goto("size", "next_client")
     \/ Goto("content", "next_client") /\ bytes_read_total < file_size
  /\ Lost(client_fd)
  /\ HangUp(client_fd)
  /\ client_fd' = NULL
  /\ UNCHANGED <<listening, backlog, c_pc, sent, size_in, bytes_in, reply, reply_in, result,
                 handler, processing_client, should_exit, pcc_total, file_size,
                 bytes_read_total, printable_count, printed>>

\* recv fails for a reason that is not the connection's: main returns.
ReceiveBreaks ==
  /\ Goto("content", "exited") /\ bytes_read_total < file_size
  /\ listening' = FALSE
  /\ hung_up' = [c \in Client |-> hung_up[c] \/ c_pc[c] # "connect"]
  /\ backlog' = <<>>
  /\ UNCHANGED <<c_pc, sent, size_in, bytes_in, reply, reply_in, result, handler,
                 processing_client, should_exit, pcc_total, client_fd, file_size,
                 bytes_read_total, printable_count, printed>>

SmallerOf(m, n) == IF m < n THEN m ELSE n

\* Mutant: the statistics count the file from its start at each recv.
ReceiveContentAgain ==
  LET c == client_fd IN
  /\ Goto("content", "content")
  /\ \E n \in 1..SmallerOf(file_size - bytes_read_total, Len(bytes_in[c])) :
       LET chunk == SubSeq(File[c], 1, bytes_read_total + n) IN
       /\ TakeBytes(c, n)
       /\ printable_count' = printable_count + PrintableIn(chunk)
       /\ pcc_total' = [b \in Printable |-> (pcc_total[b] + Occurrences(b, chunk)) % UINT]
       /\ bytes_read_total' = bytes_read_total + n
  /\ UNCHANGED <<listening, backlog, c_pc, sent, size_in, hung_up, reply, reply_in, result,
                 handler, processing_client, should_exit, client_fd, file_size, printed>>

ReceiveContent ==
  LET c == client_fd IN
  /\ Goto("content", "content")
  /\ \E n \in 1..SmallerOf(file_size - bytes_read_total, Len(bytes_in[c])) :
       LET chunk == SubSeq(bytes_in[c], 1, n) IN
       /\ TakeBytes(c, n)
       /\ printable_count' = printable_count + PrintableIn(chunk)
       /\ pcc_total' = [b \in Printable |-> (pcc_total[b] + Occurrences(b, chunk)) % UINT]
       /\ bytes_read_total' = bytes_read_total + n
  /\ UNCHANGED <<listening, backlog, c_pc, sent, size_in, hung_up, reply, reply_in, result,
                 handler, processing_client, should_exit, client_fd, file_size, printed>>

Send ==
  /\ Goto("content", "close")
  /\ bytes_read_total = file_size
  /\ WriteReply(client_fd, printable_count)
  /\ UNCHANGED <<listening, backlog, c_pc, sent, size_in, bytes_in, hung_up, result,
                 handler, processing_client, should_exit, pcc_total, client_fd, file_size,
                 bytes_read_total, printable_count, printed>>

SendFails ==
  /\ pc = "content" /\ bytes_read_total = file_size
  /\ Lost(client_fd)
  /\ \/ Goto("content", "close") /\ UNCHANGED <<listening, hung_up>>
     \/ /\ Goto("content", "killed")     \* SIGPIPE
        /\ listening' = FALSE
        /\ hung_up' = [c \in Client |-> hung_up[c] \/ c_pc[c] # "connect"]
  /\ UNCHANGED <<backlog, c_pc, sent, size_in, bytes_in, reply, reply_in, result,
                 handler, processing_client, should_exit, pcc_total, client_fd, file_size,
                 bytes_read_total, printable_count, printed>>

Close ==
  /\ Goto("close", "next_client")
  /\ HangUp(client_fd)
  /\ client_fd' = NULL
  /\ UNCHANGED <<listening, backlog, c_pc, sent, size_in, bytes_in, reply, reply_in, result,
                 handler, processing_client, should_exit, pcc_total, file_size,
                 bytes_read_total, printable_count, printed>>

\* The loop ends, and main returns, only if the handler ran and came back.
NextClient ==
  /\ Goto("next_client", IF should_exit THEN "exited" ELSE "accept")
  /\ processing_client' = FALSE
  /\ UNCHANGED <<cvars, handler, should_exit, pcc_total, client_fd, file_size,
                 bytes_read_total, printable_count, printed>>

receiveFromClient == Accept \/ SetProcessing \/ ReceiveSize \/ ReceiveFails
                     \/ ReceiveContent \/ Send \/ SendFails \/ Close \/ NextClient

(***************************************************************************)
(* printSummary, delivered between any two steps of the main thread.       *)
(***************************************************************************)
SigintArrives ==
  /\ Interrupts
  /\ handler = "none" /\ pc \notin Ended
  /\ handler' = "waiting"
  /\ should_exit' = TRUE
  /\ UNCHANGED <<cvars, pc, processing_client, pcc_total, client_fd, file_size,
                 bytes_read_total, printable_count, printed>>

\* Mutant: the summary does not wait for the client.
SummaryExitsAtOnce ==
  /\ handler = "waiting"
  /\ handler' = "none" /\ pc' = "exited"
  /\ printed' = pcc_total
  /\ listening' = FALSE
  /\ hung_up' = [c \in Client |-> hung_up[c] \/ c_pc[c] # "connect"]
  /\ backlog' = <<>>
  /\ UNCHANGED <<c_pc, sent, size_in, bytes_in, reply, reply_in, result, processing_client,
                 should_exit, pcc_total, client_fd, file_size, bytes_read_total,
                 printable_count>>

\* exit() closes every socket: the client's and the listening one.
SummaryExits ==
  /\ handler = "waiting" /\ ~ processing_client
  /\ handler' = "none" /\ pc' = "exited"
  /\ printed' = pcc_total
  /\ listening' = FALSE
  /\ hung_up' = [c \in Client |-> hung_up[c] \/ c_pc[c] # "connect"]
  /\ backlog' = <<>>
  /\ UNCHANGED <<c_pc, sent, size_in, bytes_in, reply, reply_in, result, processing_client,
                 should_exit, pcc_total, client_fd, file_size, bytes_read_total,
                 printable_count>>

\* sleep_for, and the flag is tested again: nothing has changed.
printSummary == SigintArrives \/ SummaryExits

Client_(c) == pcc_client(c) /\ UNCHANGED svars

Quiet ==
  /\ \A c \in Client : c_pc[c] \in {"done", "failed"}
  /\ pc = "accept" \/ pc \in Ended
  /\ UNCHANGED vars

Sleeps == handler = "waiting" /\ processing_client /\ UNCHANGED vars

Next ==
  \/ receiveFromClient \/ ReceiveBreaks \/ printSummary \/ Sleeps \/ Quiet
  \/ \E c \in Client : Client_(c) \/ (Die(c) /\ UNCHANGED svars)

Spec == Init /\ [][Next]_vars

\* The process and the clients run; no client has to die, no signal has to come and no
\* recv has to break.
FairSpec ==
  /\ Spec
  /\ WF_vars(receiveFromClient) /\ WF_vars(SummaryExits)
  /\ \A c \in Client : WF_vars(Client_(c))

-----------------------------------------------------------------------------
TypeOK ==
  /\ ClientTypeOK
  /\ pc \in {"accept", "accepted", "size", "content", "close", "next_client"} \cup Ended
  /\ handler \in {"none", "waiting"}
  /\ processing_client \in BOOLEAN /\ should_exit \in BOOLEAN
  /\ pcc_total \in [Printable -> 0..(UINT - 1)]
  /\ client_fd \in Client \cup {NULL}
  /\ file_size \in Nat /\ bytes_read_total \in Nat /\ printable_count \in Nat
  /\ printed \in {NULL} \cup [Printable -> 0..(UINT - 1)]

\* What a client is sent, and what it makes of the pieces it is sent, is the count of
\* its whole file, even with SIGINT, other clients that die in the middle of theirs, and
\* bytes that arrive one by one (lines 102-138): printable_count restarts with each client.
AnswersAreExact ==
  \A c \in Client : /\ reply[c] # NULL => reply[c] = PrintableIn(File[c])
                    /\ result[c] # NULL => result[c] = PrintableIn(File[c])

\* How often b is in the files whose count was sent.
AnsweredTotal(b) ==
  Cardinality({p \in Client \X (1..UINT) :
    reply[p[1]] # NULL /\ p[2] <= Len(File[p[1]]) /\ File[p[1]][p[2]] = b}) % UINT

\* If every client of which bytes were read got its count, the summary is that of their
\* files, each counted once, but for the wrap of 32 bits (lines 124-130, 161).  Of a
\* client that broke off, the bytes that were read stay in it.
SummaryOfAnswered ==
  /\ TypeOK
  /\ printed # NULL /\ (\A c \in Client : Received(c) > 0 => reply[c] # NULL) =>
       \A b \in Printable : printed[b] = AnsweredTotal(b)

\* When the summary is printed, each client of which bytes were read was sent its count or
\* broke off, wherever the handler interrupted the program (lines 89, 157).  The process
\* may end without a summary in the middle of a client, by SIGPIPE or a failing recv.
NoSummaryMidClient ==
  printed # NULL => \A c \in Client : Received(c) > 0 => reply[c] # NULL \/ Lost(c)

\* A client that has connected gets its count or sees its connection end, as long as no
\* SIGINT comes: one that comes in the middle of a client stops the program for good, as
\* the handler waits for the code it interrupted (line 157).
ClientsAreServed ==
  \A c \in Client : c_pc[c] = "size" ~> c_pc[c] \in {"done", "failed"} \/ should_exit

=============================================================================
