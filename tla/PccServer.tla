------------------------------ MODULE PccServer ------------------------------
(***************************************************************************)
(* Operating Systems/ex5/C solution/pcc_server.c: one process that serves  *)
(* clients one after the other and stops on SIGINT.  Every system call is  *)
(* a step, and a call that may block has a state of its own, as a signal   *)
(* interrupts the call only when it is already blocked.                    *)
(***************************************************************************)
EXTENDS PccClient

CONSTANT Interrupts   \* may SIGINT be delivered?

ASSUME InterruptsAssumption == Interrupts \in BOOLEAN

VARIABLES
  pc,               \* where the server is
  got_sigint, pcc_total,
  client_fd,        \* the client being processed, or NULL
  bytes_remaining, temp_counts,
  printed           \* the statistics printed on exit, or NULL

svars == <<pc, got_sigint, pcc_total, client_fd, bytes_remaining, temp_counts, printed>>
vars == <<cvars, svars>>

Zero == [b \in Printable |-> 0]

Init ==
  /\ ClientInit
  /\ pc = "loop" /\ got_sigint = FALSE
  /\ pcc_total = Zero /\ temp_counts = Zero
  /\ client_fd = NULL /\ bytes_remaining = 0
  /\ printed = NULL

Goto(from, to) == pc \in from /\ pc' = to

Blocked == {"accept_blocked", "size_blocked", "read_blocked"}
InClient == {"size", "size_blocked", "counting", "read", "read_blocked", "write",
             "update", "close"}

\* The handler sets the flag; a blocked accept fails with EINTR and is retried by the
\* loop, a blocked read fails with EINTR as with any other error.
handle_sigint ==
  /\ Interrupts
  /\ pc \notin {"exited", "killed"}
  /\ got_sigint' = TRUE
  /\ pc' = IF pc = "accept_blocked" THEN "loop" ELSE IF pc \in Blocked THEN "close" ELSE pc
  /\ UNCHANGED <<cvars, pcc_total, client_fd, bytes_remaining, temp_counts, printed>>

(***************************************************************************)
(* main                                                                    *)
(***************************************************************************)
Loop ==
  /\ Goto({"loop"}, IF got_sigint THEN "print" ELSE "accept")
  /\ UNCHANGED <<cvars, got_sigint, pcc_total, client_fd, bytes_remaining, temp_counts,
                 printed>>

AcceptBlocks ==
  /\ Goto({"accept"}, "accept_blocked")
  /\ backlog = <<>>
  /\ UNCHANGED <<cvars, got_sigint, pcc_total, client_fd, bytes_remaining, temp_counts,
                 printed>>

Accept ==
  /\ Goto({"accept", "accept_blocked"}, "size")
  /\ backlog # <<>>
  /\ client_fd' = Head(backlog)
  /\ backlog' = Tail(backlog)
  /\ temp_counts' = Zero
  /\ UNCHANGED <<listening, c_pc, sent, size_in, bytes_in, hung_up, reply, reply_in,
                 result, got_sigint, pcc_total, bytes_remaining, printed>>

\* accept fails for another reason than a signal: handle_error exits, and the connections
\* in the queue are reset.
AcceptFails ==
  /\ Goto({"accept", "accept_blocked"}, "exited")
  /\ listening' = FALSE
  /\ hung_up' = [c \in Client |-> hung_up[c] \/ \E k \in 1..Len(backlog) : backlog[k] = c]
  /\ backlog' = <<>>
  /\ UNCHANGED <<c_pc, sent, size_in, bytes_in, reply, reply_in, result, got_sigint,
                 pcc_total, client_fd, bytes_remaining, temp_counts, printed>>

\* The loop's condition is the break of line 187.
Close ==
  /\ Goto({"close"}, "loop")
  /\ HangUp(client_fd)
  /\ client_fd' = NULL
  /\ UNCHANGED <<listening, backlog, c_pc, sent, size_in, bytes_in, reply, reply_in,
                 result, got_sigint, pcc_total, bytes_remaining, temp_counts, printed>>

\* The statistics, cleanup, and the exit, which resets the connections in the queue.
PrintStatistics ==
  /\ Goto({"print"}, "exited")
  /\ printed' = pcc_total
  /\ listening' = FALSE
  /\ hung_up' = [c \in Client |-> hung_up[c] \/ \E k \in 1..Len(backlog) : backlog[k] = c]
  /\ backlog' = <<>>
  /\ UNCHANGED <<c_pc, sent, size_in, bytes_in, reply, reply_in, result, got_sigint,
                 pcc_total, client_fd, bytes_remaining, temp_counts>>

(***************************************************************************)
(* handle_client                                                           *)
(***************************************************************************)
ReadSize ==
  LET c == client_fd IN
  /\ pc \in {"size", "size_blocked"}
  /\ \E k \in 1..size_in[c] :
       \/ /\ k = WORD
          /\ pc' = "counting"
          /\ bytes_remaining' = Len(File[c])
       \/ k # WORD /\ pc' = "close" /\ UNCHANGED bytes_remaining
  /\ size_in' = [size_in EXCEPT ![c] = 0]
  /\ UNCHANGED <<listening, backlog, c_pc, sent, bytes_in, hung_up, reply, reply_in,
                 result, got_sigint, pcc_total, client_fd, temp_counts, printed>>

\* Mutant: the end of the connection is taken for a read to be repeated.
ReadFailsRepeats ==
  /\ pc \in {"size", "size_blocked", "read", "read_blocked"}
  /\ Lost(client_fd)
  /\ UNCHANGED <<cvars, svars>>

\* The peer closed the connection, or it broke.
ReadFails ==
  /\ Goto({"size", "size_blocked", "read", "read_blocked"}, "close")
  /\ Lost(client_fd)
  /\ UNCHANGED <<cvars, got_sigint, pcc_total, client_fd, bytes_remaining, temp_counts,
                 printed>>

ReadBlocks ==
  LET c == client_fd IN
  /\ \/ Goto({"size"}, "size_blocked") /\ size_in[c] = 0
     \/ Goto({"read"}, "read_blocked") /\ bytes_in[c] = <<>>
  /\ ~ Lost(c)
  /\ UNCHANGED <<cvars, got_sigint, pcc_total, client_fd, bytes_remaining, temp_counts,
                 printed>>

Counting ==
  /\ Goto({"counting"}, IF bytes_remaining > 0 /\ ~ got_sigint THEN "read" ELSE "write")
  /\ UNCHANGED <<cvars, got_sigint, pcc_total, client_fd, bytes_remaining, temp_counts,
                 printed>>

count_printable(s, counts) == [b \in Printable |-> (counts[b] + Occurrences(b, s)) % UINT]

SmallerOf(m, n) == IF m < n THEN m ELSE n

\* Mutant: what one read returns is taken for the file.
ReadContentOnce ==
  LET c == client_fd IN
  /\ Goto({"read", "read_blocked"}, "write")
  /\ \E n \in 1..SmallerOf(bytes_remaining, Len(bytes_in[c])) :
       /\ TakeBytes(c, n)
       /\ temp_counts' = count_printable(SubSeq(bytes_in[c], 1, n), temp_counts)
       /\ bytes_remaining' = bytes_remaining - n
  /\ UNCHANGED <<listening, backlog, c_pc, sent, size_in, hung_up, reply, reply_in, result,
                 got_sigint, pcc_total, client_fd, printed>>

ReadContent ==
  LET c == client_fd IN
  /\ Goto({"read", "read_blocked"}, "counting")
  /\ \E n \in 1..SmallerOf(bytes_remaining, Len(bytes_in[c])) :
       /\ TakeBytes(c, n)
       /\ temp_counts' = count_printable(SubSeq(bytes_in[c], 1, n), temp_counts)
       /\ bytes_remaining' = bytes_remaining - n
  /\ UNCHANGED <<listening, backlog, c_pc, sent, size_in, hung_up, reply, reply_in, result,
                 got_sigint, pcc_total, client_fd, printed>>

\* total_printable, counted along with temp_counts.
total_printable ==
  LET received == SubSeq(File[client_fd], 1, Received(client_fd)) IN PrintableIn(received)

WriteCount ==
  /\ Goto({"write"}, "update")
  /\ WriteReply(client_fd, total_printable)
  /\ UNCHANGED <<listening, backlog, c_pc, sent, size_in, bytes_in, hung_up, result,
                 got_sigint, pcc_total, client_fd, bytes_remaining, temp_counts, printed>>

\* To a connection that is lost, the write fails, or raises SIGPIPE, which nobody
\* handles or ignores.
WriteFails ==
  /\ \/ Goto({"write"}, "close") /\ UNCHANGED <<listening, hung_up>>
     \/ /\ Goto({"write"}, "killed")
        /\ listening' = FALSE
        /\ hung_up' = [c \in Client |-> hung_up[c] \/ c_pc[c] # "connect"]
  /\ Lost(client_fd)
  /\ UNCHANGED <<backlog, c_pc, sent, size_in, bytes_in, reply, reply_in, result,
                 got_sigint, pcc_total, client_fd, bytes_remaining, temp_counts, printed>>

\* Mutant: a client cut short is counted.
UpdateTotalAlways ==
  /\ Goto({"update"}, "close")
  /\ pcc_total' = [b \in Printable |-> (pcc_total[b] + temp_counts[b]) % UINT]
  /\ UNCHANGED <<cvars, got_sigint, client_fd, bytes_remaining, temp_counts, printed>>

UpdateTotal ==
  /\ Goto({"update"}, "close")
  /\ pcc_total' = IF bytes_remaining = 0
                  THEN [b \in Printable |-> (pcc_total[b] + temp_counts[b]) % UINT]
                  ELSE pcc_total
  /\ UNCHANGED <<cvars, got_sigint, client_fd, bytes_remaining, temp_counts, printed>>

handle_client == ReadSize \/ ReadFails \/ ReadBlocks \/ Counting \/ ReadContent
                 \/ WriteCount \/ WriteFails \/ UpdateTotal

Server == Loop \/ AcceptBlocks \/ Accept \/ Close \/ PrintStatistics \/ handle_client

Client_(c) == pcc_client(c) /\ UNCHANGED svars

\* Everybody has finished, or waits for a client or a signal that never comes.
Quiet ==
  /\ \A c \in Client : c_pc[c] \in {"done", "failed"}
  /\ pc \in {"accept_blocked", "exited", "killed"}
  /\ UNCHANGED vars

Next ==
  \/ Server \/ AcceptFails \/ handle_sigint \/ Quiet
  \/ \E c \in Client : Client_(c) \/ (Die(c) /\ UNCHANGED svars)

Spec == Init /\ [][Next]_vars

\* The kernel runs the server and the clients; connections deliver what they accept.
\* No client has to die, no signal has to come and no accept has to fail.
FairSpec == Spec /\ WF_vars(Server) /\ \A c \in Client : WF_vars(Client_(c))

-----------------------------------------------------------------------------
TypeOK ==
  /\ ClientTypeOK
  /\ pc \in {"loop", "accept", "accept_blocked", "print", "exited", "killed"} \cup InClient
  /\ got_sigint \in BOOLEAN
  /\ pcc_total \in [Printable -> 0..(UINT - 1)]
  /\ temp_counts \in [Printable -> 0..(UINT - 1)]
  /\ client_fd \in Client \cup {NULL}
  /\ bytes_remaining \in Nat
  /\ printed \in {NULL} \cup [Printable -> 0..(UINT - 1)]

\* The clients whose whole file was read and whose count was written, without those
\* whose statistics are about to be added.
Served == {c \in Client : /\ reply[c] # NULL /\ Received(c) = Len(File[c])
                          /\ ~ (pc = "update" /\ client_fd = c)}

\* The statistics reflect exactly the completed connections: nothing of a connection
\* that was cut short, by its client or by SIGINT, and nothing twice (lines 72, 102, 113-116).
TotalsOfServed ==
  /\ TypeOK
  /\ \A b \in Printable :
       pcc_total[b] = Cardinality({p \in Served \X (1..UINT) :
                             p[2] <= Len(File[p[1]]) /\ File[p[1]][p[2]] = b}) % UINT

\* While no SIGINT was received, every count the server writes is that of the whole
\* file, however its bytes arrive (lines 89-107).
AnswersAreExact ==
  ~ got_sigint => \A c \in Client : reply[c] # NULL => reply[c] = PrintableIn(File[c])

\* A client that has connected is not kept waiting for good: it gets its count or its
\* connection ends, whoever else connects, is slow or dies.
ClientsAreServed == \A c \in Client : c_pc[c] = "size" ~> c_pc[c] \in {"done", "failed"}

=============================================================================
