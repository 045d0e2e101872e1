------------------------------ MODULE PccClient ------------------------------
(***************************************************************************)
(* Operating Systems/ex5: the clients of the printable-characters server   *)
(* (C solution/pcc_client.c) and their TCP connections, as the modules of  *)
(* the two servers use them.  A connection is what each end has not read   *)
(* yet; a 32-bit word crosses it in up to WORD pieces, which a read may    *)
(* return separately.  WORD = 1 is a network that never splits a word, and *)
(* WaitAll = TRUE the client of C++ solution/pcc_client.cpp, which asks    *)
(* recv for the whole word.  Files are shorter than UINT, as pcc.pdf says. *)
(***************************************************************************)
EXTENDS Naturals, Sequences, FiniteSets

CONSTANTS
  Client, Printable, Unprintable,
  File,          \* the content of each client's file
  UINT,          \* 2^32
  WORD, WaitAll,
  ClientsDie,    \* may clients be killed and connections break?
  NULL, Garbage

Byte == Printable \cup Unprintable

ASSUME PccAssumption ==
  /\ Printable \cap Unprintable = {}
  /\ UINT \in Nat \ {0} /\ WORD \in Nat \ {0} /\ WaitAll \in BOOLEAN /\ ClientsDie \in BOOLEAN
  /\ IsFiniteSet(Client) /\ File \in [Client -> Seq(Byte)]
  /\ \A c \in Client : Len(File[c]) < UINT
  /\ NULL \notin Client \cup Nat /\ Garbage \notin Nat /\ NULL # Garbage

VARIABLES
  listening,     \* does the server's socket listen?
  backlog,       \* connections the server has not accepted, oldest first
  c_pc,          \* where each client is
  sent,          \* how many bytes of its file a client has sent
  size_in,       \* pieces of the file size the server has not read
  bytes_in,      \* bytes of the file the server has not read
  hung_up,       \* has the server closed its end?
  reply,         \* the count the server wrote, or NULL
  reply_in,      \* its pieces the client has not read
  result         \* the count a client printed, or NULL

cvars == <<listening, backlog, c_pc, sent, size_in, bytes_in, hung_up, reply, reply_in,
           result>>

Occurrences(b, s) == Cardinality({k \in 1..Len(s) : s[k] = b})
PrintableIn(s) == Cardinality({k \in 1..Len(s) : s[k] \in Printable})

ClientInit ==
  /\ listening = TRUE /\ backlog = <<>>
  /\ c_pc = [c \in Client |-> "connect"]
  /\ sent = [c \in Client |-> 0]
  /\ size_in = [c \in Client |-> 0]
  /\ bytes_in = [c \in Client |-> <<>>]
  /\ hung_up = [c \in Client |-> FALSE]
  /\ reply = [c \in Client |-> NULL]
  /\ reply_in = [c \in Client |-> 0]
  /\ result = [c \in Client |-> NULL]

ClientGoto(c, from, to) == c_pc[c] = from /\ c_pc' = [c_pc EXCEPT ![c] = to]

\* connect succeeds once the connection is in the listen queue.
Connect(c) ==
  /\ ClientGoto(c, "connect", IF listening THEN "size" ELSE "failed")
  /\ backlog' = IF listening THEN Append(backlog, c) ELSE backlog
  /\ UNCHANGED <<listening, sent, size_in, bytes_in, hung_up, reply, reply_in, result>>

WhatIsNext(n, c) == IF n = Len(File[c]) THEN "count" ELSE "content"

SendSize(c) ==
  /\ ~ hung_up[c]
  /\ ClientGoto(c, "size", WhatIsNext(0, c))
  /\ size_in' = [size_in EXCEPT ![c] = WORD]
  /\ UNCHANGED <<listening, backlog, sent, bytes_in, hung_up, reply, reply_in, result>>

\* One write, which may be partial.
SendBytes(c) ==
  /\ ~ hung_up[c]
  /\ \E n \in (sent[c] + 1)..Len(File[c]) :
       /\ ClientGoto(c, "content", WhatIsNext(n, c))
       /\ sent' = [sent EXCEPT ![c] = n]
       /\ bytes_in' = [bytes_in EXCEPT ![c] = @ \o SubSeq(File[c], sent[c] + 1, n)]
  /\ UNCHANGED <<listening, backlog, size_in, hung_up, reply, reply_in, result>>

\* A write to a connection the server has closed: it fails (EPIPE, ECONNRESET,
\* SIGPIPE), or the kernel takes the data and nobody reads it.
SendToNobody(c) ==
  /\ hung_up[c] /\ c_pc[c] \in {"size", "content"}
  /\ \E to \in {"failed", "content", "count"} : c_pc' = [c_pc EXCEPT ![c] = to]
  /\ UNCHANGED <<listening, backlog, sent, size_in, bytes_in, hung_up, reply, reply_in,
                 result>>

\* read returns at least one piece; the C client takes any number for the whole word.
ReceiveCount(c) ==
  /\ reply_in[c] > 0
  /\ ClientGoto(c, "count", "done")
  /\ \E k \in IF WaitAll THEN {WORD} ELSE 1..reply_in[c] :
       result' = [result EXCEPT ![c] = IF k = WORD THEN reply[c] ELSE Garbage]
  /\ reply_in' = [reply_in EXCEPT ![c] = 0]
  /\ UNCHANGED <<listening, backlog, sent, size_in, bytes_in, hung_up, reply>>

\* The server hung up: end of file, or a reset that overtakes the reply when the
\* server had not read everything.
ReceiveNothing(c) ==
  /\ hung_up[c] /\ (reply_in[c] = 0 \/ bytes_in[c] # <<>> \/ sent[c] < Len(File[c]))
  /\ ClientGoto(c, "count", "failed")
  /\ UNCHANGED <<listening, backlog, sent, size_in, bytes_in, hung_up, reply, reply_in,
                 result>>

\* The client is killed, or its connection breaks.
Die(c) ==
  /\ ClientsDie
  /\ c_pc[c] \in {"size", "content", "count"}
  /\ c_pc' = [c_pc EXCEPT ![c] = "failed"]
  /\ UNCHANGED <<listening, backlog, sent, size_in, bytes_in, hung_up, reply, reply_in,
                 result>>

pcc_client(c) == Connect(c) \/ SendSize(c) \/ SendBytes(c) \/ SendToNobody(c)
                 \/ ReceiveCount(c) \/ ReceiveNothing(c)

ClientTypeOK ==
  /\ listening \in BOOLEAN
  /\ backlog \in Seq(Client)
  /\ c_pc \in [Client -> {"connect", "size", "content", "count", "done", "failed"}]
  /\ sent \in [Client -> Nat]
  /\ size_in \in [Client -> 0..WORD]
  /\ bytes_in \in [Client -> Seq(Byte)]
  /\ hung_up \in [Client -> BOOLEAN]
  /\ reply \in [Client -> Nat \cup {NULL}]
  /\ reply_in \in [Client -> 0..WORD]
  /\ result \in [Client -> Nat \cup {NULL, Garbage}]

(***************************************************************************)
(* What the two servers read off and do to a connection.                   *)
(***************************************************************************)
Lost(c) == c_pc[c] = "failed"

Received(c) == sent[c] - Len(bytes_in[c])   \* bytes of c's file the server has read

\* recv takes the first n bytes.
TakeBytes(c, n) ==
  bytes_in' = [bytes_in EXCEPT ![c] = SubSeq(@, n + 1, Len(@))]

HangUp(c) == hung_up' = [hung_up EXCEPT ![c] = TRUE]

WriteReply(c, count) ==
  /\ reply' = [reply EXCEPT ![c] = count]
  /\ reply_in' = [reply_in EXCEPT ![c] = WORD]
=============================================================================
