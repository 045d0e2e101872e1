---------------------------- MODULE PccClientProofs ----------------------------
(***************************************************************************)
(* What the proofs about both printable-characters servers share: the      *)
(* invariant of a connection, that the clients' steps and the servers'     *)
(* reads and writes preserve, and how the counts of bytes add up.          *)
(***************************************************************************)
EXTENDS PccClient, SequenceTheorems, FiniteSetTheorems, TLAPS

-----------------------------------------------------------------------------
(* Sequences without repetitions, parts of a sequence, counting, remainders. *)

SetOf(q) == {q[k] : k \in 1..Len(q)}
Injective(q) == \A k, l \in 1..Len(q) : q[k] = q[l] => k = l

\* Appending an element to a sequence without repetitions.
LEMMA AppendSet ==
  ASSUME NEW S, NEW q \in Seq(S), NEW e \in S
  PROVE  /\ SetOf(Append(q, e)) = SetOf(q) \cup {e}
         /\ Injective(q) /\ e \notin SetOf(q) => Injective(Append(q, e))
<1> DEFINE r == Append(q, e)
<1>1. /\ Len(q) \in Nat /\ Len(r) = Len(q) + 1
      /\ \A k \in 1..Len(q) : r[k] = q[k]
      /\ r[Len(q) + 1] = e
  BY AppendProperties
<1> HIDE DEF r
<1>2. SetOf(r) = SetOf(q) \cup {e}
  <2>1. ASSUME NEW x \in SetOf(r) PROVE x \in SetOf(q) \cup {e}
    BY <1>1, <2>1 DEF SetOf
  <2>2. SetOf(q) \subseteq SetOf(r)
    BY <1>1 DEF SetOf
  <2>3. e \in SetOf(r)
    BY <1>1 DEF SetOf
  <2> QED
    BY <2>1, <2>2, <2>3
<1>3. Injective(q) /\ e \notin SetOf(q) => Injective(r)
  BY <1>1 DEF Injective, SetOf
<1> QED
  BY <1>2, <1>3 DEF r

\* Removing the head of a sequence without repetitions.
LEMMA TailSet ==
  ASSUME NEW S, NEW q \in Seq(S), q # <<>>, Injective(q)
  PROVE  /\ Head(q) \in SetOf(q)
         /\ SetOf(Tail(q)) = SetOf(q) \ {Head(q)}
         /\ Injective(Tail(q))
<1> DEFINE r == Tail(q)
<1>1. /\ Len(q) \in Nat \ {0} /\ Len(r) = Len(q) - 1 /\ Head(q) = q[1]
      /\ \A k \in 1..Len(r) : r[k] = q[k + 1]
  BY HeadTailProperties
<1> HIDE DEF r
<1>2. q[1] \in SetOf(q)
  BY <1>1 DEF SetOf
<1>3. ASSUME NEW x \in SetOf(r) PROVE x \in SetOf(q) \ {q[1]}
  <2>1. PICK k \in 1..Len(r) : x = r[k]
    BY <1>3 DEF SetOf
  <2>2. k + 1 \in 1..Len(q) /\ x = q[k + 1] /\ k + 1 # 1
    BY <1>1, <2>1
  <2>3. 1 \in 1..Len(q)
    BY <1>1
  <2> QED
    BY <2>2, <2>3 DEF SetOf, Injective
<1>4. ASSUME NEW x \in SetOf(q) \ {q[1]} PROVE x \in SetOf(r)
  <2>1. PICK k \in 1..Len(q) : x = q[k]
    BY <1>4 DEF SetOf
  <2>2. k # 1 /\ k - 1 \in 1..Len(r)
    BY <1>1, <1>4, <2>1
  <2>3. r[k - 1] = x
    BY <1>1, <2>1, <2>2
  <2> QED
    BY <2>2, <2>3 DEF SetOf
<1>5. Injective(r)
  BY <1>1 DEF Injective
<1> QED
  BY <1>1, <1>2, <1>3, <1>4, <1>5 DEF r

(***************************************************************************)
(* A sequence q is the part of s that ends at m when it holds, in order,   *)
(* the last Len(q) of the first m elements of s.                           *)
(***************************************************************************)
IsPart(q, s, m) ==
  /\ Len(q) <= m /\ m <= Len(s)
  /\ \A k \in 1..Len(q) : q[k] = s[m - Len(q) + k]

\* The elements from m + 1 to n.
LEMMA SubSeqIsPart ==
  ASSUME NEW S, NEW s \in Seq(S), NEW m \in Nat, NEW n \in Nat, m <= n, n <= Len(s)
  PROVE  /\ SubSeq(s, m + 1, n) \in Seq(S) /\ Len(SubSeq(s, m + 1, n)) = n - m
         /\ \A k \in 1..(n - m) : SubSeq(s, m + 1, n)[k] = s[m + k]
<1> DEFINE r == SubSeq(s, m + 1, n)
<1>1. \A k \in (m + 1)..n : s[k] \in S
  OBVIOUS
<1>2. /\ r \in Seq(S) /\ Len(r) = (IF m + 1 <= n THEN n - (m + 1) + 1 ELSE 0)
      /\ \A k \in 1..(n - (m + 1) + 1) : r[k] = s[(m + 1) + k - 1]
  BY <1>1, SubSeqProperties
<1> HIDE DEF r
<1>3. n - (m + 1) + 1 = n - m /\ \A k \in 1..(n - m) : (m + 1) + k - 1 = m + k
  OBVIOUS
<1>4. ~ (m + 1 <= n) => n - m = 0
  OBVIOUS
<1> QED
  BY <1>2, <1>3, <1>4 DEF r

\* The next elements go behind a part.
LEMMA PartGrows ==
  ASSUME NEW S, NEW s \in Seq(S), NEW q \in Seq(S), NEW m \in Nat, NEW n \in Nat,
         m <= n, n <= Len(s), IsPart(q, s, m)
  PROVE  /\ q \o SubSeq(s, m + 1, n) \in Seq(S)
         /\ Len(q \o SubSeq(s, m + 1, n)) = Len(q) + (n - m)
         /\ IsPart(q \o SubSeq(s, m + 1, n), s, n)
<1> DEFINE t == SubSeq(s, m + 1, n)
           r == q \o t
<1>1. t \in Seq(S) /\ Len(t) = n - m /\ \A k \in 1..(n - m) : t[k] = s[m + k]
  BY SubSeqIsPart
<1> HIDE DEF t
<1>2. /\ r \in Seq(S) /\ Len(r) = Len(q) + Len(t)
      /\ \A k \in 1..(Len(q) + Len(t)) :
           r[k] = IF k <= Len(q) THEN q[k] ELSE t[k - Len(q)]
  <2>1. t \in Seq(S)
    BY <1>1
  <2> QED
    BY <2>1, ConcatProperties
<1> HIDE DEF r
<1>3. Len(q) \in Nat /\ Len(s) \in Nat /\ Len(r) = Len(q) + (n - m)
  BY <1>1, <1>2
<1>4. ASSUME NEW k \in 1..Len(r) PROVE r[k] = s[n - Len(r) + k]
  <2>1. n - Len(r) + k = m - Len(q) + k
    BY <1>3
  <2>2. CASE k <= Len(q)
    <3>1. k \in 1..Len(q)
      BY <1>3, <2>2
    <3>2. q[k] = s[m - Len(q) + k]
      BY <3>1 DEF IsPart
    <3>3. r[k] = q[k]
      BY <1>1, <1>2, <1>3, <2>2
    <3> QED
      BY <2>1, <3>2, <3>3
  <2>3. CASE k > Len(q)
    <3>1. k - Len(q) \in 1..(n - m) /\ m + (k - Len(q)) = m - Len(q) + k
      BY <1>3, <2>3
    <3>2. r[k] = t[k - Len(q)]
      BY <1>1, <1>2, <1>3, <2>3
    <3> QED
      BY <1>1, <2>1, <3>1, <3>2
  <2> QED
    BY <1>3, <2>2, <2>3
<1>5. IsPart(r, s, n)
  <2>1. Len(r) <= n
    BY <1>3 DEF IsPart
  <2> QED
    BY <1>4, <2>1 DEF IsPart
<1> QED
  BY <1>2, <1>3, <1>5 DEF r, t

\* The first elements of a part are taken off it.
LEMMA PartShrinks ==
  ASSUME NEW S, NEW s \in Seq(S), NEW q \in Seq(S), NEW m \in Nat, NEW n \in 0..Len(q),
         IsPart(q, s, m)
  PROVE  /\ SubSeq(q, n + 1, Len(q)) \in Seq(S)
         /\ Len(SubSeq(q, n + 1, Len(q))) = Len(q) - n
         /\ IsPart(SubSeq(q, n + 1, Len(q)), s, m)
<1> DEFINE r == SubSeq(q, n + 1, Len(q))
<1>1. Len(q) \in Nat /\ n \in Nat /\ n <= Len(q) /\ Len(s) \in Nat
  OBVIOUS
<1>2. r \in Seq(S) /\ Len(r) = Len(q) - n /\ \A k \in 1..(Len(q) - n) : r[k] = q[n + k]
  BY <1>1, SubSeqIsPart
<1> HIDE DEF r
<1>3. ASSUME NEW k \in 1..Len(r) PROVE r[k] = s[m - Len(r) + k]
  <2>1. n + k \in 1..Len(q) /\ m - Len(q) + (n + k) = m - Len(r) + k
    BY <1>1, <1>2
  <2> QED
    BY <1>2, <2>1 DEF IsPart
<1>4. IsPart(r, s, m)
  BY <1>1, <1>2, <1>3 DEF IsPart
<1> QED
  BY <1>2, <1>4 DEF r

(***************************************************************************)
(* Counting: how many places of a sequence, or of a function on numbers,   *)
(* hold an element of a set.                                               *)
(***************************************************************************)
CountIn(s, T, n) == Cardinality({k \in 1..n : s[k] \in T})

\* Such a count is a number, and no more than the number of places.
LEMMA CountIsNat ==
  ASSUME NEW s, NEW T, NEW n \in Nat
  PROVE  CountIn(s, T, n) \in Nat /\ CountIn(s, T, n) <= n
<1>1. IsFiniteSet(1..n) /\ Cardinality(1..n) = n
  BY FS_Interval
<1>2. {k \in 1..n : s[k] \in T} \in SUBSET (1..n)
  OBVIOUS
<1> QED
  BY <1>1, <1>2, FS_Subset, FS_CardinalityType DEF CountIn

\* Nothing is counted in no place.
LEMMA CountNothing ==
  ASSUME NEW s, NEW T
  PROVE  CountIn(s, T, 0) = 0
<1>1. {k \in 1..0 : s[k] \in T} = {}
  OBVIOUS
<1> QED
  BY <1>1, FS_EmptySet DEF CountIn

\* The first n elements of t are those of s behind the first r.
Continues(t, s, r, n) == \A k \in 1..n : t[k] = s[r + k]

\* What is counted in the first r places and in the n places after them adds up.
LEMMA CountAdds ==
  ASSUME NEW s, NEW t, NEW T, NEW r \in Nat, NEW n \in Nat, Continues(t, s, r, n)
  PROVE  CountIn(s, T, r + n) = CountIn(s, T, r) + CountIn(t, T, n)
<1> DEFINE A == {k \in 1..r : s[k] \in T}
           B == {k \in (r + 1)..(r + n) : s[k] \in T}
           C == {k \in 1..n : t[k] \in T}
<1>1. IsFiniteSet(A) /\ IsFiniteSet(B) /\ IsFiniteSet(C)
  <2>1. IsFiniteSet(1..r) /\ IsFiniteSet((r + 1)..(r + n)) /\ IsFiniteSet(1..n)
    BY FS_Interval
  <2>2. A \in SUBSET (1..r) /\ B \in SUBSET ((r + 1)..(r + n)) /\ C \in SUBSET (1..n)
    OBVIOUS
  <2> HIDE DEF A, B, C
  <2> QED
    BY <2>1, <2>2, FS_Subset
<1>2. {k \in 1..(r + n) : s[k] \in T} = A \cup B /\ A \cap B = {}
  OBVIOUS
<1>3. Cardinality(B) = Cardinality(C)
  <2> DEFINE f == [k \in C |-> r + k]
  <2>1. f \in [C -> B]
    BY DEF Continues
  <2>2. \A k, l \in C : f[k] = f[l] => k = l
    OBVIOUS
  <2>3. ASSUME NEW j \in B PROVE \E k \in C : f[k] = j
    <3>1. j - r \in C /\ f[j - r] = j
      BY DEF Continues
    <3> QED
      BY <3>1
  <2> HIDE DEF f, B, C
  <2>4. f \in Bijection(C, B)
    BY <2>1, <2>2, <2>3 DEF Bijection, Injection, Surjection, IsInjective
  <2> QED
    BY <1>1, <2>4, FS_Bijection DEF ExistsBijection
<1>4. Cardinality(A) \in Nat /\ Cardinality(B) \in Nat
  BY <1>1, FS_CardinalityType
<1> HIDE DEF A, B, C
<1>5. Cardinality(A \cup B) = Cardinality(A) + Cardinality(B)
  <2>1. Cardinality(A \cap B) = 0
    BY <1>2, FS_EmptySet
  <2>2. Cardinality(A \cup B) = Cardinality(A) + Cardinality(B) - Cardinality(A \cap B)
    BY <1>1, FS_Union
  <2> QED
    BY <1>4, <2>1, <2>2
<1>6. CountIn(s, T, r + n) = Cardinality(A \cup B)
  BY <1>2 DEF CountIn
<1>7. CountIn(s, T, r) = Cardinality(A) /\ CountIn(t, T, n) = Cardinality(C)
  BY DEF CountIn, A, C
<1> QED
  BY <1>3, <1>5, <1>6, <1>7

(***************************************************************************)
(* Counting modulo U, as an unsigned integer does.                         *)
(***************************************************************************)
\* The quotient and the remainder.
LEMMA Division ==
  ASSUME NEW U \in Nat \ {0}, NEW a \in Nat
  PROVE  a \div U \in Nat /\ a % U \in 0..(U - 1) /\ a = U * (a \div U) + (a % U)
<1>1. a \div U \in Int /\ a % U \in 0..(U - 1)
  OBVIOUS
<1>2. a = U * (a \div U) + (a % U)
  OBVIOUS
<1>3. a \div U >= 0
  OBVIOUS
<1> QED
  BY <1>1, <1>2, <1>3

\* What is below U is its own remainder, whatever multiple of U is added.
LEMMA RemainderOfSmall ==
  ASSUME NEW U \in Nat \ {0}, NEW r \in 0..(U - 1), NEW q \in Nat
  PROVE  (U * q + r) % U = r /\ r % U = r
OBVIOUS

\* A multiple of U does not change the remainder.
LEMMA RemainderOfMultiple ==
  ASSUME NEW U \in Nat \ {0}, NEW m \in Nat, NEW n \in Nat
  PROVE  (U * m + n) % U = n % U
<1> DEFINE k == n \div U
           t == n % U
<1>1. k \in Nat /\ t \in 0..(U - 1) /\ n = U * k + t
  BY Division
<1> HIDE DEF k, t
<1>2. U * m + n = U * (m + k) + t
  BY <1>1
<1>3. (U * (m + k) + t) % U = t
  BY <1>1, RemainderOfSmall
<1> QED
  BY <1>2, <1>3 DEF t

\* The remainder of a sum is that of the remainders' sum.
LEMMA RemainderOfSum ==
  ASSUME NEW U \in Nat \ {0}, NEW a \in Nat, NEW b \in Nat
  PROVE  /\ ((a % U) + (b % U)) % U = (a + b) % U
         /\ ((a % U) + b) % U = (a + b) % U
<1> DEFINE r == a % U
           s == b % U
           p == a \div U
           q == b \div U
<1>1. a = U * p + r /\ b = U * q + s /\ p \in Nat /\ q \in Nat /\ r \in Nat /\ s \in Nat
  BY Division
<1> HIDE DEF r, s, p, q
<1>2. a + b = U * (p + q) + (r + s) /\ a + b = U * p + (r + b)
  BY <1>1
<1>3. p + q \in Nat /\ r + s \in Nat /\ r + b \in Nat
  BY <1>1
<1>4. (U * (p + q) + (r + s)) % U = (r + s) % U /\ (U * p + (r + b)) % U = (r + b) % U
  BY <1>1, <1>3, RemainderOfMultiple
<1> QED
  BY <1>2, <1>4 DEF r, s

-----------------------------------------------------------------------------
\* Nothing was read from the client and nothing was written to it.
Untouched(c) == Received(c) = 0 /\ reply[c] = NULL

\* The bytes on their way are those of the file the server reads next, so reads in any
\* pieces return the file in order.
BytesInOrder == \A c \in Client : IsPart(bytes_in[c], File[c], sent[c])

\* Who has not connected, or waits to be accepted, is untouched, and waits once.
NotAccepted ==
  /\ \A c \in Client : c_pc[c] = "connect" => sent[c] = 0 /\ c \notin SetOf(backlog)
  /\ \A c \in Client : c_pc[c] = "connect" \/ c \in SetOf(backlog) => Untouched(c)
  /\ Injective(backlog)

\* A reply on its way was written.
RepliesWritten == \A c \in Client : reply_in[c] > 0 => reply[c] # NULL

CInv == ClientTypeOK /\ BytesInOrder /\ NotAccepted /\ RepliesWritten

\* Initially no byte was sent.
LEMMA ClientInitially ==
  ASSUME ClientInit
  PROVE  CInv
<1>1. ClientTypeOK
  BY PccAssumption DEF ClientInit, ClientTypeOK
<1>2. \A c \in Client : Received(c) = 0 /\ Len(File[c]) \in Nat
  BY PccAssumption DEF ClientInit, Received
<1>3. BytesInOrder
  BY <1>2 DEF ClientInit, BytesInOrder, IsPart
<1>4. NotAccepted
  BY <1>2 DEF ClientInit, NotAccepted, Untouched, SetOf, Injective
<1>5. RepliesWritten
  BY DEF ClientInit, RepliesWritten
<1> QED
  BY <1>1, <1>3, <1>4, <1>5 DEF CInv

\* A step that changes neither the bytes nor the replies, nor who was accepted.
LEMMA QuietStep ==
  ASSUME CInv, ClientTypeOK', UNCHANGED <<backlog, sent, bytes_in, reply>>,
         \A c \in Client : c_pc'[c] = "connect" => c_pc[c] = "connect",
         \A c \in Client : reply_in'[c] > 0 => reply_in[c] > 0
  PROVE  CInv' /\ \A c \in Client : Received(c)' = Received(c)
<1>1. \A c \in Client : Received(c)' = Received(c) /\ Untouched(c)' = Untouched(c)
  BY DEF Received, Untouched
<1>2. BytesInOrder'
  BY <1>1 DEF CInv, BytesInOrder
<1>3. NotAccepted'
  BY <1>1 DEF CInv, NotAccepted
<1>4. RepliesWritten'
  BY DEF CInv, RepliesWritten
<1> QED
  BY <1>1, <1>2, <1>3, <1>4 DEF CInv

\* What a client's step does to the others and to what the server knows of it.
ClientKeeps ==
  /\ \A d \in Client : Received(d)' = Received(d)
  /\ UNCHANGED <<hung_up, reply>>
  /\ \A d \in Client : c_pc'[d] = "connect" => c_pc[d] = "connect"
  /\ \A d \in SetOf(backlog)' : d \in SetOf(backlog) \/ c_pc[d] = "connect"

\* A client that connects waits at the end of the queue.
LEMMA ConnectPreserves ==
  ASSUME CInv, NEW c \in Client, Connect(c)
  PROVE  CInv' /\ ClientKeeps
<1>1. /\ UNCHANGED <<sent, bytes_in, reply, reply_in, hung_up>> /\ c_pc[c] = "connect"
      /\ c_pc' = [c_pc EXCEPT ![c] = IF listening THEN "size" ELSE "failed"]
      /\ backlog' = IF listening THEN Append(backlog, c) ELSE backlog
      /\ UNCHANGED <<listening, size_in, result>>
  BY DEF Connect, ClientGoto
<1>2. c_pc \in [Client -> {"connect", "size", "content", "count", "done", "failed"}]
      /\ backlog \in Seq(Client)
  BY DEF CInv, ClientTypeOK
<1>3. ClientTypeOK'
  <2>1. backlog' \in Seq(Client)
    BY <1>1, <1>2, AppendProperties
  <2> QED
    BY <1>1, <2>1 DEF CInv, ClientTypeOK
<1>4. \A d \in Client : Received(d)' = Received(d) /\ Untouched(d)' = Untouched(d)
  BY <1>1 DEF Received, Untouched
<1>5. /\ c \notin SetOf(backlog) /\ Injective(backlog) /\ Untouched(c)
  BY <1>1 DEF CInv, NotAccepted
<1>6. /\ SetOf(backlog)' \subseteq SetOf(backlog) \cup {c} /\ Injective(backlog)'
      /\ ~ listening => SetOf(backlog)' = SetOf(backlog)
  BY <1>1, <1>2, <1>5, AppendSet
<1>7. \A d \in Client : c_pc'[d] = "connect" => c_pc[d] = "connect" /\ d # c
  BY <1>1, <1>2
<1>8. BytesInOrder'
  BY <1>1, <1>4 DEF CInv, BytesInOrder
<1>9. NotAccepted'
  BY <1>1, <1>4, <1>5, <1>6, <1>7 DEF CInv, NotAccepted
<1>10. RepliesWritten'
  BY <1>1 DEF CInv, RepliesWritten
<1> QED
  BY <1>1, <1>3, <1>4, <1>6, <1>7, <1>8, <1>9, <1>10 DEF CInv, ClientKeeps

\* The bytes a client sends go behind those on their way.
LEMMA SendPreserves ==
  ASSUME CInv, NEW c \in Client, SendBytes(c)
  PROVE  CInv' /\ ClientKeeps
<1>1. PICK n \in (sent[c] + 1)..Len(File[c]) :
        /\ c_pc[c] = "content" /\ c_pc' = [c_pc EXCEPT ![c] = WhatIsNext(n, c)]
        /\ sent' = [sent EXCEPT ![c] = n]
        /\ bytes_in' = [bytes_in EXCEPT ![c] = @ \o SubSeq(File[c], sent[c] + 1, n)]
  BY DEF SendBytes, ClientGoto
<1>2. UNCHANGED <<listening, backlog, size_in, hung_up, reply, reply_in, result>>
  BY DEF SendBytes
<1> DEFINE chunk == SubSeq(File[c], sent[c] + 1, n)
<1>3. /\ c_pc \in [Client -> {"connect", "size", "content", "count", "done", "failed"}]
      /\ sent \in [Client -> Nat] /\ bytes_in \in [Client -> Seq(Byte)]
      /\ File[c] \in Seq(Byte) /\ Len(File[c]) \in Nat /\ n \in Nat
      /\ \A d \in Client : bytes_in[d] \in Seq(Byte) /\ Len(bytes_in[d]) \in Nat
  <2>1. /\ c_pc \in [Client -> {"connect", "size", "content", "count", "done", "failed"}]
        /\ sent \in [Client -> Nat] /\ bytes_in \in [Client -> Seq(Byte)]
    BY DEF CInv, ClientTypeOK
  <2>2. File[c] \in Seq(Byte)
    BY PccAssumption
  <2>3. \A d \in Client : bytes_in[d] \in Seq(Byte) /\ Len(bytes_in[d]) \in Nat
    BY <2>1
  <2>4. Len(File[c]) \in Nat /\ sent[c] \in Nat
    BY <2>1, <2>2
  <2>5. n \in Nat
    BY <1>1, <2>4
  <2> QED
    BY <2>1, <2>2, <2>3, <2>4, <2>5
<1>4. /\ sent[c] <= n /\ n <= Len(File[c]) /\ Len(bytes_in[c]) <= sent[c]
      /\ IsPart(bytes_in[c], File[c], sent[c])
  BY <1>1, <1>3 DEF CInv, BytesInOrder, IsPart
<1>5. bytes_in'[c] = bytes_in[c] \o chunk /\ \A d \in Client \ {c} : bytes_in'[d] = bytes_in[d]
  BY <1>1, <1>3
<1>6. sent'[c] = n /\ \A d \in Client \ {c} : sent'[d] = sent[d]
  BY <1>1, <1>3
<1>7. /\ bytes_in'[c] \in Seq(Byte) /\ Len(bytes_in'[c]) = Len(bytes_in[c]) + (n - sent[c])
      /\ IsPart(bytes_in'[c], File[c], n)
  <2>1. bytes_in[c] \in Seq(Byte) /\ sent[c] \in Nat
    BY <1>3
  <2> QED
    BY <1>3, <1>4, <1>5, <2>1, PartGrows
<1>8. bytes_in' = [bytes_in EXCEPT ![c] = bytes_in[c] \o chunk]
  BY <1>1
<1> HIDE DEF chunk
<1>9. \A d \in Client : Received(d)' = Received(d) /\ Untouched(d)' = Untouched(d)
  <2>1. Received(c)' = Received(c)
    BY <1>3, <1>4, <1>6, <1>7 DEF Received
  <2> QED
    BY <1>2, <1>5, <1>6, <2>1 DEF Received, Untouched
<1>10. ClientTypeOK'
  <2>1. bytes_in' \in [Client -> Seq(Byte)]
    BY <1>3, <1>5, <1>7, <1>8
  <2>2. sent' \in [Client -> Nat]
    BY <1>1, <1>3
  <2>3. c_pc' \in [Client -> {"connect", "size", "content", "count", "done", "failed"}]
    BY <1>1, <1>3 DEF WhatIsNext
  <2> QED
    BY <1>2, <2>1, <2>2, <2>3 DEF CInv, ClientTypeOK
<1>11. BytesInOrder'
  BY <1>5, <1>6, <1>7 DEF CInv, BytesInOrder
<1>12. \A d \in Client : c_pc'[d] = "connect" => c_pc[d] = "connect" /\ d # c
  BY <1>1, <1>3 DEF WhatIsNext
<1>13. NotAccepted'
  BY <1>2, <1>6, <1>9, <1>12 DEF CInv, NotAccepted
<1>14. RepliesWritten'
  BY <1>2 DEF CInv, RepliesWritten
<1> QED
  BY <1>2, <1>9, <1>10, <1>11, <1>12, <1>13, <1>14 DEF CInv, ClientKeeps

\* The other steps of a client change where it is and what it has of its reply.
LEMMA OtherPreserves ==
  ASSUME CInv, NEW c \in Client,
         SendSize(c) \/ SendToNobody(c) \/ ReceiveCount(c) \/ ReceiveNothing(c) \/ Die(c)
  PROVE  CInv' /\ ClientKeeps
<1>1. PICK to \in {"size", "content", "count", "done", "failed"} :
        c_pc' = [c_pc EXCEPT ![c] = to]
  BY DEF SendSize, SendToNobody, ReceiveCount, ReceiveNothing, Die, ClientGoto, WhatIsNext
<1>2. UNCHANGED <<listening, backlog, sent, bytes_in, hung_up, reply>>
  BY DEF SendSize, SendToNobody, ReceiveCount, ReceiveNothing, Die
<1>3. size_in' = size_in \/ size_in' = [size_in EXCEPT ![c] = WORD]
  BY DEF SendSize, SendToNobody, ReceiveCount, ReceiveNothing, Die
<1>4. \/ result' = result /\ reply_in' = reply_in
      \/ /\ \E v \in {reply[c], Garbage} : result' = [result EXCEPT ![c] = v]
         /\ reply_in' = [reply_in EXCEPT ![c] = 0]
  BY DEF SendSize, SendToNobody, ReceiveCount, ReceiveNothing, Die
<1>5. WORD \in Nat /\ 0 \in 0..WORD /\ WORD \in 0..WORD
  BY PccAssumption
<1>6. ClientTypeOK'
  <2>1. c_pc' \in [Client -> {"connect", "size", "content", "count", "done", "failed"}]
    BY <1>1 DEF CInv, ClientTypeOK
  <2>2. size_in \in [Client -> 0..WORD] /\ reply_in \in [Client -> 0..WORD]
    BY DEF CInv, ClientTypeOK
  <2>3. size_in' \in [Client -> 0..WORD] /\ reply_in' \in [Client -> 0..WORD]
    <3>1. size_in' = size_in => size_in' \in [Client -> 0..WORD]
      BY <2>2
    <3>2. size_in' = [size_in EXCEPT ![c] = WORD] => size_in' \in [Client -> 0..WORD]
      BY <1>5, <2>2
    <3>3. reply_in' = reply_in => reply_in' \in [Client -> 0..WORD]
      BY <2>2
    <3>4. reply_in' = [reply_in EXCEPT ![c] = 0] => reply_in' \in [Client -> 0..WORD]
      BY <1>5, <2>2
    <3> QED
      BY <1>3, <1>4, <3>1, <3>2, <3>3, <3>4
  <2>4. result' \in [Client -> Nat \cup {NULL, Garbage}]
    BY <1>4 DEF CInv, ClientTypeOK
  <2> QED
    BY <1>2, <2>1, <2>3, <2>4 DEF CInv, ClientTypeOK
<1>7. \A d \in Client : c_pc'[d] = "connect" => c_pc[d] = "connect"
  BY <1>1 DEF CInv, ClientTypeOK
<1>8. \A d \in Client : reply_in'[d] > 0 => reply_in[d] > 0
  <2>1. reply_in \in [Client -> 0..WORD]
    BY DEF CInv, ClientTypeOK
  <2>2. reply_in' = reply_in \/ reply_in' = [reply_in EXCEPT ![c] = 0]
    BY <1>4
  <2>3. ASSUME NEW d \in Client, reply_in'[d] > 0 PROVE reply_in[d] > 0
    <3>1. reply_in' = reply_in => reply_in[d] > 0
      BY <2>3
    <3>2. reply_in' = [reply_in EXCEPT ![c] = 0] => reply_in[d] > 0
      BY <1>5, <2>1, <2>3
    <3> QED
      BY <2>2, <3>1, <3>2
  <2> QED
    BY <2>3
<1> QED
  BY <1>2, <1>6, <1>7, <1>8, QuietStep DEF ClientKeeps

\* A client's steps preserve the invariant, and leave what the server knows of it.
LEMMA ClientPreserves ==
  ASSUME CInv, NEW c \in Client, pcc_client(c) \/ Die(c)
  PROVE  CInv' /\ ClientKeeps
BY ConnectPreserves, SendPreserves, OtherPreserves DEF pcc_client

\* A client that waits for the whole word has the reply that was written to it.
LEMMA ResultIsReply ==
  ASSUME CInv, WaitAll, NEW c \in Client, pcc_client(c) \/ Die(c)
  PROVE  \A d \in Client : result'[d] = result[d] \/ (result'[d] = reply[d] /\ reply[d] # NULL)
<1>1. result \in [Client -> Nat \cup {NULL, Garbage}]
  BY DEF CInv, ClientTypeOK
<1>2. CASE ReceiveCount(c)
  <2>1. result' = [result EXCEPT ![c] = reply[c]] /\ reply[c] # NULL
    BY <1>2 DEF ReceiveCount, CInv, RepliesWritten
  <2> QED
    BY <1>1, <2>1
<1>3. CASE ~ ReceiveCount(c)
  BY <1>3 DEF pcc_client, Connect, SendSize, SendBytes, SendToNobody, ReceiveNothing, Die
<1> QED
  BY <1>2, <1>3

(***************************************************************************)
(* What a server does to a connection.                                     *)
(***************************************************************************)
\* It may stop listening, and what it has not accepted is lost.
LEMMA StopPreserves ==
  ASSUME CInv, ClientTypeOK', backlog' = <<>>,
         UNCHANGED <<c_pc, sent, bytes_in, reply, reply_in>>
  PROVE  CInv' /\ \A c \in Client : Received(c)' = Received(c)
<1>1. \A c \in Client : Received(c)' = Received(c) /\ Untouched(c)' = Untouched(c)
  BY DEF Received, Untouched
<1>2. BytesInOrder' /\ RepliesWritten'
  BY DEF CInv, BytesInOrder, RepliesWritten
<1>3. SetOf(backlog)' = {} /\ Injective(backlog)'
  BY DEF SetOf, Injective
<1>4. NotAccepted'
  BY <1>1, <1>3 DEF CInv, NotAccepted
<1> QED
  BY <1>1, <1>2, <1>4 DEF CInv

\* It accepts the client that has waited longest, which nobody has served.
LEMMA AcceptPreserves ==
  ASSUME CInv, backlog # <<>>, backlog' = Tail(backlog),
         UNCHANGED <<listening, c_pc, sent, size_in, bytes_in, hung_up, reply, reply_in, result>>
  PROVE  /\ CInv' /\ \A c \in Client : Received(c)' = Received(c)
         /\ Head(backlog) \in Client /\ c_pc[Head(backlog)] # "connect"
         /\ Untouched(Head(backlog)) /\ Head(backlog) \notin SetOf(backlog)'
<1>1. \A c \in Client : Received(c)' = Received(c) /\ Untouched(c)' = Untouched(c)
  BY DEF Received, Untouched
<1>2. backlog \in Seq(Client) /\ Injective(backlog)
  BY DEF CInv, ClientTypeOK, NotAccepted
<1>3. /\ Head(backlog) \in Client /\ Tail(backlog) \in Seq(Client)
      /\ Head(backlog) \in SetOf(backlog) /\ SetOf(backlog)' = SetOf(backlog) \ {Head(backlog)}
      /\ Injective(backlog)'
  BY <1>2, HeadTailProperties, TailSet
<1>4. ClientTypeOK'
  BY <1>3 DEF CInv, ClientTypeOK
<1>5. BytesInOrder' /\ RepliesWritten'
  BY DEF CInv, BytesInOrder, RepliesWritten
<1>6. NotAccepted'
  BY <1>1, <1>3 DEF CInv, NotAccepted
<1>7. c_pc[Head(backlog)] # "connect" /\ Untouched(Head(backlog))
  BY <1>3 DEF CInv, NotAccepted
<1> QED
  BY <1>1, <1>3, <1>4, <1>5, <1>6, <1>7 DEF CInv

\* It has read a number of bytes between none and all of the file.
LEMMA ReceivedIsNat ==
  ASSUME CInv, NEW c \in Client
  PROVE  /\ Received(c) \in Nat /\ Len(File[c]) \in Nat /\ File[c] \in Seq(Byte)
         /\ sent[c] \in Nat /\ bytes_in[c] \in Seq(Byte) /\ Len(bytes_in[c]) \in Nat
         /\ Received(c) + Len(bytes_in[c]) <= Len(File[c]) /\ Len(File[c]) < UINT
<1>1. sent[c] \in Nat /\ bytes_in[c] \in Seq(Byte)
  BY DEF CInv, ClientTypeOK
<1>2. File[c] \in Seq(Byte) /\ Len(File[c]) < UINT
  BY PccAssumption
<1>3. Len(bytes_in[c]) \in Nat /\ Len(File[c]) \in Nat
  BY <1>1, <1>2
<1>4. Len(bytes_in[c]) <= sent[c] /\ sent[c] <= Len(File[c])
  BY DEF CInv, BytesInOrder, IsPart
<1> QED
  BY <1>1, <1>2, <1>3, <1>4 DEF Received

\* It reads the next bytes of the file.
LEMMA TakePreserves ==
  ASSUME CInv, NEW c \in Client, NEW n \in 1..Len(bytes_in[c]), TakeBytes(c, n),
         c_pc[c] # "connect", c \notin SetOf(backlog),
         UNCHANGED <<listening, backlog, c_pc, sent, size_in, hung_up, reply, reply_in, result>>
  PROVE  /\ CInv' /\ Received(c)' = Received(c) + n
         /\ \A d \in Client \ {c} : Received(d)' = Received(d)
         /\ Len(SubSeq(bytes_in[c], 1, n)) = n
         /\ Continues(SubSeq(bytes_in[c], 1, n), File[c], Received(c), n)
<1>1. /\ File[c] \in Seq(Byte) /\ sent[c] \in Nat /\ bytes_in[c] \in Seq(Byte)
      /\ Len(bytes_in[c]) \in Nat /\ n \in 0..Len(bytes_in[c])
  BY ReceivedIsNat
<1>2. IsPart(bytes_in[c], File[c], sent[c])
  BY DEF CInv, BytesInOrder
<1>3. bytes_in \in [Client -> Seq(Byte)]
  BY DEF CInv, ClientTypeOK
<1> DEFINE q == SubSeq(bytes_in[c], n + 1, Len(bytes_in[c]))
           chunk == SubSeq(bytes_in[c], 1, n)
<1>4. q \in Seq(Byte) /\ Len(q) = Len(bytes_in[c]) - n /\ IsPart(q, File[c], sent[c])
  BY <1>1, <1>2, PartShrinks
<1>5. bytes_in' = [bytes_in EXCEPT ![c] = q]
  BY DEF TakeBytes
<1>6. Len(chunk) = n /\ \A k \in 1..n : chunk[k] = bytes_in[c][k]
  <2>1. \A k \in 1..n : bytes_in[c][k] \in Byte
    BY <1>1
  <2>2. /\ Len(chunk) = (IF 1 <= n THEN n - 1 + 1 ELSE 0)
        /\ \A k \in 1..(n - 1 + 1) : chunk[k] = bytes_in[c][1 + k - 1]
    BY <1>1, <2>1, SubSeqProperties
  <2>3. n - 1 + 1 = n /\ 1 <= n /\ \A k \in 1..n : 1 + k - 1 = k
    BY <1>1
  <2> HIDE DEF chunk
  <2> QED
    BY <2>2, <2>3
<1>7. \A k \in 1..n : bytes_in[c][k] = File[c][Received(c) + k]
  <2>1. Received(c) = sent[c] - Len(bytes_in[c])
    BY DEF Received
  <2>2. \A k \in 1..Len(bytes_in[c]) : bytes_in[c][k] = File[c][sent[c] - Len(bytes_in[c]) + k]
    BY <1>2 DEF IsPart
  <2>3. \A k \in 1..n : k \in 1..Len(bytes_in[c])
    BY <1>1
  <2> QED
    BY <2>1, <2>2, <2>3
<1>8. Continues(chunk, File[c], Received(c), n)
  BY <1>6, <1>7 DEF Continues
<1> HIDE DEF q, chunk
<1>9. bytes_in'[c] = q /\ \A d \in Client \ {c} : bytes_in'[d] = bytes_in[d]
  BY <1>3, <1>5
<1>10. Received(c)' = Received(c) + n /\ \A d \in Client \ {c} : Received(d)' = Received(d)
  BY <1>1, <1>4, <1>9 DEF Received
<1>11. ClientTypeOK'
  BY <1>4, <1>5 DEF CInv, ClientTypeOK
<1>12. BytesInOrder'
  BY <1>4, <1>9 DEF CInv, BytesInOrder
<1>13. NotAccepted'
  BY <1>10 DEF CInv, NotAccepted, Untouched
<1>14. RepliesWritten'
  BY DEF CInv, RepliesWritten
<1> QED
  BY <1>6, <1>10, <1>11, <1>12, <1>13, <1>14, <1>8 DEF CInv, chunk

\* It writes the count.
LEMMA ReplyPreserves ==
  ASSUME CInv, NEW c \in Client, NEW v \in Nat, WriteReply(c, v),
         c_pc[c] # "connect", c \notin SetOf(backlog),
         UNCHANGED <<listening, backlog, c_pc, sent, size_in, bytes_in, hung_up, result>>
  PROVE  /\ CInv' /\ \A d \in Client : Received(d)' = Received(d)
         /\ reply'[c] = v /\ \A d \in Client \ {c} : reply'[d] = reply[d]
<1>1. reply \in [Client -> Nat \cup {NULL}] /\ reply_in \in [Client -> 0..WORD]
  BY DEF CInv, ClientTypeOK
<1>2. reply' = [reply EXCEPT ![c] = v] /\ reply_in' = [reply_in EXCEPT ![c] = WORD]
  BY DEF WriteReply
<1>3. WORD \in Nat /\ WORD \in 0..WORD /\ v # NULL
  BY PccAssumption
<1>4. reply' \in [Client -> Nat \cup {NULL}] /\ reply_in' \in [Client -> 0..WORD]
  BY <1>1, <1>2, <1>3
<1>5. reply'[c] = v /\ \A d \in Client \ {c} : reply'[d] = reply[d] /\ reply_in'[d] = reply_in[d]
  BY <1>1, <1>2
<1>6. \A d \in Client : Received(d)' = Received(d)
  BY DEF Received
<1>7. ClientTypeOK'
  BY <1>4 DEF CInv, ClientTypeOK
<1>8. BytesInOrder'
  BY DEF CInv, BytesInOrder
<1>9. NotAccepted'
  BY <1>5, <1>6 DEF CInv, NotAccepted, Untouched
<1>10. RepliesWritten'
  BY <1>3, <1>5 DEF CInv, RepliesWritten
<1> QED
  BY <1>5, <1>6, <1>7, <1>8, <1>9, <1>10 DEF CInv

(***************************************************************************)
(* Counts over the files of several clients.                               *)
(***************************************************************************)
\* The places that hold b among the first L[c] bytes of the file of each client in X.
PlacesIn(X, L, b) == {p \in X \X (1..UINT) : p[2] <= L[p[1]] /\ File[p[1]][p[2]] = b}

\* What is counted in one more file is added.
LEMMA PlacesAdd ==
  ASSUME NEW X \in SUBSET Client, NEW c \in Client \ X,
         NEW L \in [Client -> Nat], L[c] < UINT, NEW b
  PROVE  /\ Cardinality(PlacesIn(X, L, b)) \in Nat
         /\ Cardinality(PlacesIn(X \cup {c}, L, b))
              = Cardinality(PlacesIn(X, L, b)) + CountIn(File[c], {b}, L[c])
<1> DEFINE A == PlacesIn(X, L, b)
           B == PlacesIn({c}, L, b)
           D == {k \in 1..L[c] : File[c][k] \in {b}}
<1>1. PlacesIn(X \cup {c}, L, b) = A \cup B /\ A \cap B = {}
  BY DEF PlacesIn
<1>2. IsFiniteSet(A) /\ IsFiniteSet(B)
  <2>1. IsFiniteSet(X) /\ IsFiniteSet({c}) /\ IsFiniteSet(1..UINT)
    <3>1. IsFiniteSet(Client) /\ UINT \in Int /\ 1 \in Int
      BY PccAssumption
    <3>2. IsFiniteSet(X)
      BY <3>1, FS_Subset
    <3>3. IsFiniteSet(1..UINT)
      BY <3>1, FS_Interval
    <3> QED
      BY <3>2, <3>3, FS_Singleton
  <2>2. IsFiniteSet(X \X (1..UINT)) /\ IsFiniteSet({c} \X (1..UINT))
    BY <2>1, FS_Product
  <2>3. A \in SUBSET (X \X (1..UINT)) /\ B \in SUBSET ({c} \X (1..UINT))
    BY DEF PlacesIn
  <2> QED
    BY <2>2, <2>3, FS_Subset
<1>3. IsFiniteSet(D)
  <2>1. IsFiniteSet(1..L[c])
    BY FS_Interval
  <2> QED
    BY <2>1, FS_Subset
<1>4. Cardinality(B) = Cardinality(D)
  <2> DEFINE f == [k \in D |-> <<c, k>>]
  <2>1. ASSUME NEW k \in D PROVE <<c, k>> \in B
    <3>1. k \in 1..UINT
      BY PccAssumption
    <3> QED
      BY <3>1 DEF PlacesIn
  <2>2. \A k, l \in D : f[k] = f[l] => k = l
    OBVIOUS
  <2>3. ASSUME NEW p \in B PROVE \E k \in D : f[k] = p
    <3>1. p = <<c, p[2]>> /\ p[2] \in 1..UINT /\ p[2] <= L[c] /\ File[c][p[2]] = b
      BY DEF PlacesIn
    <3>2. p[2] \in D
      BY <3>1
    <3> QED
      BY <3>1, <3>2
  <2>4. f \in [D -> B]
    BY <2>1
  <2> HIDE DEF f, B, D
  <2>5. f \in Bijection(D, B)
    BY <2>2, <2>3, <2>4 DEF Bijection, Injection, Surjection, IsInjective
  <2> QED
    BY <1>3, <2>5, FS_Bijection DEF ExistsBijection
<1>5. Cardinality(A) \in Nat /\ Cardinality(B) \in Nat
  BY <1>2, FS_CardinalityType
<1>6. CountIn(File[c], {b}, L[c]) = Cardinality(D)
  BY DEF CountIn
<1> HIDE DEF A, B, D
<1>7. Cardinality(A \cup B) = Cardinality(A) + Cardinality(B)
  <2>1. Cardinality(A \cap B) = 0
    BY <1>1, FS_EmptySet
  <2>2. Cardinality(A \cup B) = Cardinality(A) + Cardinality(B) - Cardinality(A \cap B)
    BY <1>2, FS_Union
  <2> QED
    BY <1>5, <2>1, <2>2
<1> QED
  BY <1>1, <1>4, <1>5, <1>6, <1>7 DEF A

\* The model's counts in these terms.
LEMMA CountsOfSequences ==
  ASSUME NEW s
  PROVE  /\ PrintableIn(s) = CountIn(s, Printable, Len(s))
         /\ \A b : Occurrences(b, s) = CountIn(s, {b}, Len(s))
<1>1. ASSUME NEW b PROVE {k \in 1..Len(s) : s[k] = b} = {k \in 1..Len(s) : s[k] \in {b}}
  OBVIOUS
<1> QED
  BY <1>1 DEF PrintableIn, Occurrences, CountIn

=============================================================================
