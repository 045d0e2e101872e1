-------------------------- MODULE PageTableProofs --------------------------
(***************************************************************************)
(* Proofs about PageTable and PageTableCpp, for page tables of any         *)
(* geometry: the frames are a forest, and each table maps what its updates *)
(* say and nothing else.  The loops over the levels of a table are         *)
(* recursive functions on an interval; what they compute is proved by      *)
(* induction on the interval, which the lemma Induction gets from the fact *)
(* that a finite set has no injection into a smaller one.                  *)
(***************************************************************************)
EXTENDS PageTable, Integers, FiniteSetTheorems, TLAPS

-----------------------------------------------------------------------------
(* Induction on an interval, and powers of two.                            *)

LEMMA Induction ==
  ASSUME NEW n \in Nat, NEW S, 0 \in S, \A i \in 0..(n - 1) : i \in S => i + 1 \in S
  PROVE  \A i \in 0..n : i \in S
  <1> DEFINE T == {l \in 0..n : \A k \in 0..l : k \in S}
             up == [l \in T |-> l + 1]
  <1>1. IsFiniteSet(T) /\ 0 \in T
    <2>1. IsFiniteSet(0..n)
      BY FS_Interval
    <2> QED BY <2>1, FS_Subset
  <1>2. CASE n \in T
    BY <1>2
  <1>3. CASE n \notin T
    <2>1. \A l \in T : l + 1 \in T \ {0}
      BY <1>3
    <2>2. up \in Injection(T, T \ {0})
      BY <2>1 DEF Injection, IsInjective
    <2> HIDE DEF T, up
    <2>3. IsFiniteSet(T \ {0}) /\ Cardinality(T \ {0}) = Cardinality(T) - 1
      BY <1>1, FS_RemoveElement
    <2>4. Cardinality(T) <= Cardinality(T \ {0})
      BY <2>2, <2>3, FS_Injection
    <2> QED BY <1>1, <2>3, <2>4, FS_CardinalityType
  <1> QED BY <1>2, <1>3

\* The same downwards.
LEMMA InductionDown ==
  ASSUME NEW n \in Nat, NEW S, n \in S, \A l \in 0..(n - 1) : l + 1 \in S => l \in S
  PROVE  \A l \in 0..n : l \in S
  <1> DEFINE T == {k \in 0..n : n - k \in S}
  <1>1. 0 \in T
    OBVIOUS
  <1>2. ASSUME NEW k \in 0..(n - 1), k \in T PROVE k + 1 \in T
    <2>1. n - (k + 1) \in 0..(n - 1) /\ (n - (k + 1)) + 1 = n - k /\ k + 1 \in 0..n
      OBVIOUS
    <2> QED BY <1>2, <2>1
  <1> HIDE DEF T
  <1>3. \A k \in 0..n : k \in T
    BY <1>1, <1>2, Induction
  <1>4. ASSUME NEW l \in 0..n PROVE l \in S
    <2>1. n - l \in 0..n /\ n - (n - l) = l
      OBVIOUS
    <2> QED BY <1>3, <2>1 DEF T
  <1> QED BY <1>4

\* A power of two is the number of the subsets of an interval.
LEMMA PowerOfTwo ==
  ASSUME NEW n \in Nat
  PROVE  2 ^ n \in Nat /\ 2 ^ n >= 1
  <1>1. IsFiniteSet(1..n) /\ Cardinality(1..n) = n
    BY FS_Interval
  <1>2. IsFiniteSet(SUBSET (1..n)) /\ Cardinality(SUBSET (1..n)) = 2 ^ n
    BY <1>1, FS_SUBSET
  <1>3. SUBSET (1..n) # {}
    OBVIOUS
  <1> QED BY <1>2, <1>3, FS_EmptySet, FS_CardinalityType

LEMMA PowerOfSum ==
  ASSUME NEW a \in Nat, NEW b \in Nat
  PROVE  2 ^ (a + b) = 2 ^ a * 2 ^ b
  <1> DEFINE A == 1..a
             B == (a + 1)..(a + b)
             C == 1..(a + b)
             f == [u \in SUBSET C |-> <<u \cap A, u \cap B>>]
  <1>1. /\ IsFiniteSet(A) /\ Cardinality(A) = a
        /\ IsFiniteSet(B) /\ Cardinality(B) = b
        /\ IsFiniteSet(C) /\ Cardinality(C) = a + b
    <2>1. IsFiniteSet(A) /\ Cardinality(A) = a
      BY FS_Interval
    <2>2. IsFiniteSet(B) /\ Cardinality(B) = b
      <3>1. a + 1 \in Int /\ a + b \in Int
            /\ (IF a + 1 > a + b THEN 0 ELSE (a + b) - (a + 1) + 1) = b
        OBVIOUS
      <3>2. /\ IsFiniteSet((a + 1)..(a + b))
            /\ Cardinality((a + 1)..(a + b))
                 = IF a + 1 > a + b THEN 0 ELSE (a + b) - (a + 1) + 1
        BY <3>1, FS_Interval
      <3> QED BY <3>1, <3>2
    <2>3. IsFiniteSet(C) /\ Cardinality(C) = a + b
      <3>1. a + b \in Int /\ (IF 1 > a + b THEN 0 ELSE (a + b) - 1 + 1) = a + b
        OBVIOUS
      <3>2. /\ IsFiniteSet(1..(a + b))
            /\ Cardinality(1..(a + b)) = IF 1 > a + b THEN 0 ELSE (a + b) - 1 + 1
        BY <3>1, FS_Interval
      <3> QED BY <3>1, <3>2
    <2> QED BY <2>1, <2>2, <2>3
  <1>2. A \cup B = C /\ A \cap B = {}
    OBVIOUS
  <1> HIDE DEF A, B, C
  <1>3. IsFiniteSet(SUBSET C) /\ Cardinality(SUBSET C) = 2 ^ (a + b)
    BY <1>1, FS_SUBSET
  <1>4. /\ IsFiniteSet(SUBSET A) /\ Cardinality(SUBSET A) = 2 ^ a
        /\ IsFiniteSet(SUBSET B) /\ Cardinality(SUBSET B) = 2 ^ b
    BY <1>1, FS_SUBSET
  <1>5. IsFiniteSet((SUBSET A) \X (SUBSET B))
        /\ Cardinality((SUBSET A) \X (SUBSET B)) = 2 ^ a * 2 ^ b
    BY <1>4, FS_Product
  <1>6. f \in [SUBSET C -> (SUBSET A) \X (SUBSET B)]
    OBVIOUS
  <1>7. ASSUME NEW u \in SUBSET C, NEW v \in SUBSET C, f[u] = f[v] PROVE u = v
    <2>1. u \cap A = v \cap A /\ u \cap B = v \cap B
      BY <1>7
    <2> QED BY <1>2, <2>1
  <1>8. ASSUME NEW x \in SUBSET A, NEW y \in SUBSET B
        PROVE  \E u \in SUBSET C : f[u] = <<x, y>>
    <2>1. x \cup y \in SUBSET C /\ (x \cup y) \cap A = x /\ (x \cup y) \cap B = y
      BY <1>2
    <2>2. f[x \cup y] = <<x, y>>
      BY <2>1
    <2> HIDE DEF f
    <2> QED BY <2>1, <2>2
  <1> HIDE DEF f
  <1>9. f \in Bijection(SUBSET C, (SUBSET A) \X (SUBSET B))
    <2>1. ASSUME NEW t \in (SUBSET A) \X (SUBSET B)
          PROVE  \E u \in SUBSET C : f[u] = t
      <3>1. t = <<t[1], t[2]>> /\ t[1] \in SUBSET A /\ t[2] \in SUBSET B
        OBVIOUS
      <3>2. PICK u \in SUBSET C : f[u] = <<t[1], t[2]>>
        BY <1>8, <3>1
      <3> QED BY <3>1, <3>2
    <2>2. IsInjective(f)
      <3>1. DOMAIN f = SUBSET C
        BY <1>6
      <3>2. \A u, v \in SUBSET C : f[u] = f[v] => u = v
        BY <1>7
      <3> QED BY <3>1, <3>2, Zenon DEF IsInjective
    <2> QED BY <1>6, <2>1, <2>2 DEF Bijection, Injection, Surjection
  <1>10. Cardinality((SUBSET A) \X (SUBSET B)) = Cardinality(SUBSET C)
    BY <1>3, <1>9, FS_Bijection DEF ExistsBijection
  <1> QED BY <1>3, <1>5, <1>10

-----------------------------------------------------------------------------
(* Words.                                                                  *)

Frames == 2 ^ (WordBits - PageShift)      \* what the frame number of an entry can be

LEMMA WordParts ==
  /\ WordBits \in Nat /\ PageShift \in Nat \ {0} /\ IndexBits \in Nat /\ Levels \in Nat \ {0}
  /\ NPAGES \in Nat /\ FirstFrame \in Nat
  /\ Frames \in Nat \ {0} /\ 2 ^ PageShift \in Nat /\ 2 ^ PageShift >= 2
  /\ \E h \in Nat : 2 ^ PageShift = 2 * h
  /\ Word = 2 ^ PageShift * Frames /\ Word \in Nat \ {0}
  /\ FirstFrame + NPAGES <= Frames
  <1>1. /\ WordBits \in Nat /\ PageShift \in Nat \ {0} /\ IndexBits \in Nat /\ Levels \in Nat \ {0}
        /\ NPAGES \in Nat /\ FirstFrame \in Nat /\ FirstFrame + NPAGES <= Frames
        /\ WordBits >= PageShift + Levels * IndexBits
    BY GeometryAssumption DEF Frames
  <1>2. Levels * IndexBits \in Nat
    BY <1>1
  <1>3. WordBits - PageShift \in Nat
    BY <1>1, <1>2
  <1>4. Frames \in Nat /\ Frames >= 1
    BY <1>3, PowerOfTwo DEF Frames
  <1>5. 2 ^ PageShift = 2 * 2 ^ (PageShift - 1) /\ 2 ^ (PageShift - 1) \in Nat
        /\ 2 ^ (PageShift - 1) >= 1
    <2>1. PageShift - 1 \in Nat /\ PageShift = 1 + (PageShift - 1)
      BY <1>1
    <2>2. 2 ^ (1 + (PageShift - 1)) = 2 ^ 1 * 2 ^ (PageShift - 1)
      BY <2>1, PowerOfSum
    <2>3. 2 ^ 1 = 2
      OBVIOUS
    <2> QED BY <2>1, <2>2, <2>3, PowerOfTwo
  <1>6. Word = 2 ^ PageShift * Frames
    <2>1. WordBits = PageShift + (WordBits - PageShift)
      BY <1>1
    <2> QED BY <1>1, <1>3, <2>1, PowerOfSum DEF Word, Frames
  <1>7. Word \in Nat \ {0}
    <2> DEFINE P == 2 ^ PageShift
               H == 2 ^ (PageShift - 1)
    <2>1. P = 2 * H /\ H \in Nat /\ H >= 1 /\ Word = P * Frames
      BY <1>5, <1>6
    <2> HIDE DEF P, H
    <2>2. P * Frames \in Nat /\ P * Frames > 0
      BY <1>4, <2>1
    <2> QED BY <2>1, <2>2
  <1> QED BY <1>1, <1>4, <1>5, <1>6, <1>7

\* The quotient and the remainder are unique.
LEMMA QuotientIs ==
  ASSUME NEW U \in Nat \ {0}, NEW q \in Nat, NEW r \in 0..(U - 1)
  PROVE  (q * U + r) \div U = q /\ (q * U + r) % U = r
  <1> DEFINE n == q * U + r
             d == n \div U
             t == n % U
  <1>1. n \in Nat /\ d \in Int /\ t \in 0..(U - 1)
    <2>1. q * U \in Nat
      OBVIOUS
    <2>2. n \in Nat
      BY <2>1
    <2> HIDE DEF n
    <2> QED BY <2>2
  <1>2. n = U * d + t
    <2> HIDE DEF n
    <2> QED BY <1>1
  <1> HIDE DEF d, t
  <1>3. d = q
    <2>1. CASE d >= q + 1
      <3>1. U * d >= U * (q + 1)
        BY <1>1, <2>1
      <3>2. U * (q + 1) = q * U + U
        OBVIOUS
      <3> QED BY <1>1, <1>2, <3>1, <3>2
    <2>2. CASE d <= q - 1
      <3>1. U * d <= U * (q - 1)
        BY <1>1, <2>2
      <3>2. U * (q - 1) = q * U - U
        OBVIOUS
      <3> QED BY <1>1, <1>2, <3>1, <3>2
    <2> QED BY <1>1, <2>1, <2>2
  <1>4. t = r
    BY <1>1, <1>2, <1>3
  <1> QED BY <1>3, <1>4 DEF d, t

LEMMA LinkArithmetic ==
  ASSUME NEW P \in Nat, P >= 2, NEW h \in Nat, P = 2 * h,
         NEW Q \in Nat \ {0}, NEW a \in 0..(Q - 1)
  PROVE  /\ a * P \in 0..(P * Q - 1) /\ (a * P) % (P * Q) = a * P
         /\ a * P + 1 \in 0..(P * Q - 1)
         /\ (a * P + 1) % 2 = 1 /\ (a * P + 1) \div P = a /\ (a * P) \div P = a
  <1>1. a * P \in Nat /\ a * P <= P * Q - P /\ P * Q \in Nat \ {0}
    <2>1. a * P <= (Q - 1) * P
      OBVIOUS
    <2>2. (Q - 1) * P = P * Q - P
      OBVIOUS
    <2>3. a * P \in Nat /\ P * Q \in Nat
      OBVIOUS
    <2> QED BY <2>1, <2>2, <2>3
  <1>2. (a * P) % (P * Q) = a * P
    <2> DEFINE n == a * P
               U == P * Q
    <2>1. n \in 0..(U - 1) /\ U \in Nat \ {0}
      BY <1>1
    <2> HIDE DEF n, U
    <2>2. (0 * U + n) % U = n /\ 0 * U + n = n
      BY <2>1, QuotientIs
    <2> QED BY <2>2 DEF n, U
  <1>3. (a * P + 1) % 2 = 1
    <2>1. a * P = (a * h) * 2 /\ a * h \in Nat
      OBVIOUS
    <2> DEFINE q == a * h
    <2> HIDE DEF q
    <2>2. (q * 2 + 1) % 2 = 1
      BY <2>1, QuotientIs DEF q
    <2> QED BY <2>1, <2>2 DEF q
  <1>4. (a * P + 1) \div P = a /\ (a * P + 0) \div P = a
    BY QuotientIs
  <1>5. a * P + 0 = a * P
    BY <1>1
  <1> QED BY <1>1, <1>2, <1>3, <1>4, <1>5

\* An entry for a page or a frame: what its shifts give back.
LEMMA EntryFacts ==
  ASSUME NEW a \in 0..(Frames - 1)
  PROVE  /\ shl(a, PageShift) + 1 \in 0..(Word - 1) /\ valid(shl(a, PageShift) + 1)
         /\ shr(shl(a, PageShift) + 1, PageShift) = a
         /\ shr(shl(a, PageShift), PageShift) = a
  <1> DEFINE P == 2 ^ PageShift
  <1>1. P \in Nat /\ P >= 2 /\ Frames \in Nat \ {0} /\ Word = P * Frames
    BY WordParts
  <1>2. PICK h \in Nat : P = 2 * h
    BY WordParts
  <1> HIDE DEF P
  <1>3. /\ (a * P) % (P * Frames) = a * P
        /\ a * P + 1 \in 0..(P * Frames - 1)
        /\ (a * P + 1) % 2 = 1 /\ (a * P + 1) \div P = a /\ (a * P) \div P = a
    BY <1>1, <1>2, LinkArithmetic
  <1>4. shl(a, PageShift) = a * P
    BY <1>1, <1>3 DEF shl, P
  <1> QED BY <1>1, <1>3, <1>4 DEF shr, valid, P

LEMMA LinkFacts ==
  ASSUME NEW g \in 0..(NPAGES - 1)
  PROVE  /\ Link(g) \in 0..(Word - 1) /\ valid(Link(g)) /\ Linked(Link(g)) = g
         /\ Link(g) = shl(g + FirstFrame, PageShift) + 1
         /\ phys_to_virt(shl(g + FirstFrame, PageShift)) = g
         /\ shl(shr(Link(g), PageShift), PageShift) = shl(g + FirstFrame, PageShift)
  <1>1. g + FirstFrame \in 0..(Frames - 1) /\ (g + FirstFrame) - FirstFrame = g
    BY WordParts
  <1> DEFINE a == g + FirstFrame
  <1> HIDE DEF a
  <1>2. /\ shl(a, PageShift) + 1 \in 0..(Word - 1) /\ valid(shl(a, PageShift) + 1)
        /\ shr(shl(a, PageShift) + 1, PageShift) = a
        /\ shr(shl(a, PageShift), PageShift) = a
    BY <1>1, EntryFacts DEF a
  <1>3. Link(g) = shl(a, PageShift) + 1
    BY DEF Link, a
  <1>4. a - FirstFrame = g
    BY <1>1 DEF a
  <1>5. phys_to_virt(shl(a, PageShift)) = g
    BY <1>2, <1>4 DEF phys_to_virt
  <1>6. Linked(Link(g)) = g
    BY <1>2, <1>3, <1>5 DEF Linked
  <1> QED BY <1>2, <1>3, <1>5, <1>6 DEF a

LEMMA LinkInjective ==
  ASSUME NEW g \in 0..(NPAGES - 1), NEW f \in 0..(NPAGES - 1), Link(f) = Link(g)
  PROVE  f = g
  BY LinkFacts

\* What a query answers that has read this entry at the last level.
Read(entry) == IF valid(entry) THEN shr(entry, PageShift) ELSE NO_MAPPING

LEMMA LeafFacts ==
  ASSUME NEW p, p = NO_MAPPING \/ p \in 0..(Frames - 1), NO_MAPPING \notin Nat
  PROVE  /\ Leaf(p) \in 0..(Word - 1)
         /\ Read(Leaf(p)) = p
  <1>1. CASE p = NO_MAPPING
    <2>1. Word \in Nat \ {0}
      BY WordParts
    <2> QED BY <1>1, <2>1 DEF Leaf, valid, Read
  <1>2. CASE p # NO_MAPPING
    <2>1. p \in 0..(Frames - 1) /\ Leaf(p) = shl(p, PageShift) + 1
      BY <1>2 DEF Leaf
    <2> QED BY <2>1, EntryFacts DEF Read
  <1> QED BY <1>1, <1>2
-----------------------------------------------------------------------------
(* The loops.                                                              *)

\* The recursive function of Entries exists, so that Entries is what it computes.
LEMMA EntriesDef ==
  ASSUME NEW content, NEW pt, NEW index
  PROVE  LET e == Entries(content, pt, index) IN
         \A level \in 0..Levels :
           e[level] = IF level = Levels THEN shl(pt, PageShift) + 1
                      ELSE IF valid(e[level + 1])
                           THEN content[Linked(e[level + 1])][index[level]] ELSE 0
  <1> DEFINE Next1(x, level) ==
               IF valid(x) THEN content[Linked(x)][index[level]] ELSE 0
             Part(f, l) == f = [level \in l..Levels |->
                                  IF level = Levels THEN shl(pt, PageShift) + 1
                                  ELSE Next1(f[level + 1], level)]
             S == {l \in 0..Levels : \E f : Part(f, l)}
  <1> HIDE DEF Next1
  <1>0. Levels \in Nat
    BY GeometryAssumption
  <1>1. Levels \in S
    <2> DEFINE f == [level \in Levels..Levels |-> shl(pt, PageShift) + 1]
    <2>1. Part(f, Levels)
      BY <1>0
    <2> HIDE DEF f
    <2> QED BY <1>0, <2>1
  <1>2. ASSUME NEW l \in 0..(Levels - 1), l + 1 \in S PROVE l \in S
    <2>1. PICK f : Part(f, l + 1)
      BY <1>2
    <2> DEFINE g == [level \in l..Levels |->
                       IF level = l THEN Next1(f[l + 1], l) ELSE f[level]]
    <2>2. ASSUME NEW level \in l..Levels
          PROVE  g[level] = IF level = Levels THEN shl(pt, PageShift) + 1
                            ELSE Next1(g[level + 1], level)
      <3>1. CASE level = l
        BY <1>0, <3>1
      <3>2. CASE level # l
        <4>1. level \in (l + 1)..Levels /\ g[level] = f[level]
          BY <1>0, <3>2
        <4>2. level # Levels => level + 1 \in l..Levels /\ level + 1 # l
                                /\ g[level + 1] = f[level + 1]
          BY <1>0, <4>1
        <4> HIDE DEF g
        <4> QED BY <2>1, <4>1, <4>2
      <3> QED BY <3>1, <3>2
    <2>3. Part(g, l)
      BY <2>2
    <2> HIDE DEF g
    <2> QED BY <1>0, <2>3
  <1> HIDE DEF S
  <1>3. 0 \in S
    BY <1>0, <1>1, <1>2, InductionDown
  <1>4. \E f : Part(f, 0)
    BY <1>3 DEF S
  <1> DEFINE e == CHOOSE f : Part(f, 0)
  <1>5. Part(e, 0)
    BY <1>4
  <1>6. Entries(content, pt, index) = e
    BY DEF Entries, Next1
  <1> HIDE DEF e
  <1> QED BY <1>5, <1>6 DEF Next1

-----------------------------------------------------------------------------
(* A memory of n frames as a forest: depth is the level of each frame's     *)
(* node, R the set of the roots.                                           *)

Typed(content, n, depth, R) ==
  /\ n \in 0..NPAGES
  /\ content \in [0..(n - 1) -> [Index -> 0..(Word - 1)]]
  /\ depth \in [0..(n - 1) -> 0..(Levels - 1)]
  /\ \A r \in R : r \in 0..(n - 1) /\ depth[r] = Levels - 1

\* A valid entry of a node that is not a leaf links a node of the level below, not a root.
LinksDown(content, n, depth, R) ==
  \A f \in 0..(n - 1), i \in Index : depth[f] > 0 /\ valid(content[f][i]) =>
    \E g \in (0..(n - 1)) \ R : content[f][i] = Link(g) /\ depth[g] = depth[f] - 1

\* No two of those entries link the same node.
LinksOnce(content, n, depth) ==
  \A f, g \in 0..(n - 1), i, j \in Index :
    /\ depth[f] > 0 /\ depth[g] > 0
    /\ valid(content[f][i]) /\ content[f][i] = content[g][j]
    => f = g /\ i = j

\* Every node but the roots is linked.
AllLinked(content, n, depth, R) ==
  \A g \in (0..(n - 1)) \ R : \E f \in 0..(n - 1), i \in Index :
    depth[f] > 0 /\ content[f][i] = Link(g)

Tree(content, n, depth, R) ==
  /\ Typed(content, n, depth, R) /\ LinksDown(content, n, depth, R)
  /\ LinksOnce(content, n, depth) /\ AllLinked(content, n, depth, R)

\* Where a walk can go: the index into the node of each level.
Path == [0..(Levels - 1) -> Index]

\* The turns of the loop of page_table_query.
Steps(e, content, r, index) ==
  /\ e[Levels] = Link(r)
  /\ \A l \in 0..(Levels - 1) :
       e[l] = IF valid(e[l + 1]) THEN content[Linked(e[l + 1])][index[l]] ELSE 0

LEMMA EntrySteps ==
  ASSUME NEW content, NEW r \in 0..(NPAGES - 1), NEW index
  PROVE  Steps(Entries(content, r + FirstFrame, index), content, r, index)
  <1> DEFINE e == Entries(content, r + FirstFrame, index)
  <1>1. \A level \in 0..Levels :
          e[level] = IF level = Levels THEN shl(r + FirstFrame, PageShift) + 1
                     ELSE IF valid(e[level + 1])
                          THEN content[Linked(e[level + 1])][index[level]] ELSE 0
    BY EntriesDef
  <1> HIDE DEF e
  <1>2. Levels \in Nat
    BY WordParts
  <1>3. e[Levels] = Link(r)
    BY <1>1, <1>2, LinkFacts
  <1>4. ASSUME NEW l \in 0..(Levels - 1)
        PROVE  e[l] = IF valid(e[l + 1]) THEN content[Linked(e[l + 1])][index[l]] ELSE 0
    <2>1. l \in 0..Levels /\ l # Levels
      BY <1>2
    <2> QED BY <1>1, <2>1
  <1> QED BY <1>3, <1>4 DEF e, Steps

\* A walk from a root meets a node of each level, and reads its entry.
LEMMA WalkDepth ==
  ASSUME NEW content, NEW n, NEW depth, NEW R, Tree(content, n, depth, R),
         NEW r \in R, NEW index \in Path
  PROVE  LET e == Entries(content, r + FirstFrame, index) IN
         \A l \in 0..(Levels - 1) : valid(e[l + 1]) =>
           \E g \in 0..(n - 1) :
             e[l + 1] = Link(g) /\ depth[g] = l /\ e[l] = content[g][index[l]]
  <1> DEFINE e == Entries(content, r + FirstFrame, index)
             At(l, g) == e[l + 1] = Link(g) /\ depth[g] = l
             S == {l \in 0..(Levels - 1) : valid(e[l + 1]) => \E g \in 0..(n - 1) : At(l, g)}
  <1>0. /\ Levels - 1 \in Nat /\ Levels \in Nat /\ NPAGES \in Nat /\ n \in Nat
        /\ n <= NPAGES /\ r \in 0..(n - 1) /\ r \in 0..(NPAGES - 1)
    BY WordParts DEF Tree, Typed
  <1>1. /\ e[Levels] = Link(r)
        /\ \A l \in 0..(Levels - 1) :
             e[l] = IF valid(e[l + 1]) THEN content[Linked(e[l + 1])][index[l]] ELSE 0
    <2>1. Steps(e, content, r, index)
      BY <1>0, EntrySteps
    <2> QED BY <2>1 DEF Steps
  <1>2. \A g \in 0..(n - 1) : Linked(Link(g)) = g
    BY <1>0, LinkFacts
  <1> HIDE DEF e
  <1>3. \A l \in 0..(Levels - 1), g \in 0..(n - 1) :
          At(l, g) /\ valid(e[l + 1]) => e[l] = content[g][index[l]]
    BY <1>1, <1>2
  <1>4. Levels - 1 \in S
    <2>1. (Levels - 1) + 1 = Levels
      BY <1>0
    <2>2. At(Levels - 1, r)
      BY <1>1, <2>1 DEF Tree, Typed
    <2> QED BY <1>0, <2>2
  <1>5. ASSUME NEW l \in 0..((Levels - 1) - 1), l + 1 \in S PROVE l \in S
    <2>1. l \in 0..(Levels - 1) /\ l + 1 \in 0..(Levels - 1) /\ (l + 1) - 1 = l /\ l + 1 > 0
      BY <1>0
    <2> SUFFICES ASSUME valid(e[l + 1]) PROVE \E g \in 0..(n - 1) : At(l, g)
      BY <2>1
    <2>2. valid(e[(l + 1) + 1])
      <3>1. ~ valid(0)
        BY DEF valid
      <3> QED BY <1>1, <2>1, <3>1
    <2>3. PICK g \in 0..(n - 1) : At(l + 1, g)
      BY <1>5, <2>2
    <2>4. e[l + 1] = content[g][index[l + 1]] /\ index[l + 1] \in Index /\ depth[g] = l + 1
      BY <1>3, <2>1, <2>2, <2>3 DEF Path
    <2>5. PICK h \in 0..(n - 1) : e[l + 1] = Link(h) /\ depth[h] = depth[g] - 1
      BY <2>1, <2>4 DEF Tree, LinksDown
    <2> QED BY <2>1, <2>4, <2>5
  <1> HIDE DEF S
  <1>6. \A l \in 0..(Levels - 1) : l \in S
    BY <1>0, <1>4, <1>5, InductionDown
  <1> QED BY <1>3, <1>6 DEF S, e

\* Below an invalid entry all are invalid.
LEMMA WalkValid ==
  ASSUME NEW content, NEW r \in 0..(NPAGES - 1), NEW index,
         NEW l \in 0..Levels, ~ valid(Entries(content, r + FirstFrame, index)[l])
  PROVE  ~ valid(Entries(content, r + FirstFrame, index)[0])
  <1> DEFINE e == Entries(content, r + FirstFrame, index)
             S == {k \in 0..Levels : valid(e[k])}
  <1>0. Levels \in Nat
    BY WordParts
  <1>1. \A k \in 0..(Levels - 1) :
          e[k] = IF valid(e[k + 1]) THEN content[Linked(e[k + 1])][index[k]] ELSE 0
    <2>1. Steps(e, content, r, index)
      BY EntrySteps
    <2> QED BY <2>1 DEF Steps
  <1>2. ~ valid(0)
    BY DEF valid
  <1> SUFFICES ASSUME valid(e[0]) PROVE FALSE
    OBVIOUS
  <1> HIDE DEF e
  <1>3. 0 \in S
    BY <1>0
  <1>4. ASSUME NEW k \in 0..(Levels - 1), k \in S PROVE k + 1 \in S
    BY <1>0, <1>1, <1>2, <1>4
  <1> HIDE DEF S
  <1>5. l \in S
    BY <1>0, <1>3, <1>4, Induction
  <1> QED BY <1>5 DEF S, e

\* Two walks that meet in a node have come the same way.
LEMMA WalkUnique ==
  ASSUME NEW content, NEW n, NEW depth, NEW R, Tree(content, n, depth, R),
         NEW r \in R, NEW index \in Path, NEW s \in R, NEW other \in Path
  PROVE  LET e == Entries(content, r + FirstFrame, index)
             d == Entries(content, s + FirstFrame, other)
         IN \A l \in 0..(Levels - 1) : valid(e[l + 1]) /\ e[l + 1] = d[l + 1] =>
              r = s /\ \A k \in (l + 1)..(Levels - 1) : index[k] = other[k]
  <1> DEFINE e == Entries(content, r + FirstFrame, index)
             d == Entries(content, s + FirstFrame, other)
             Same(l) == r = s /\ \A k \in (l + 1)..(Levels - 1) : index[k] = other[k]
             S == {l \in 0..(Levels - 1) : valid(e[l + 1]) /\ e[l + 1] = d[l + 1] => Same(l)}
  <1>0. /\ Levels - 1 \in Nat /\ (Levels - 1) + 1 = Levels /\ n \in Nat
        /\ r \in 0..(NPAGES - 1) /\ s \in 0..(NPAGES - 1)
    BY WordParts DEF Tree, Typed
  <1>1. /\ e[Levels] = Link(r) /\ d[Levels] = Link(s)
        /\ \A l \in 0..(Levels - 1) : valid(e[l]) => valid(e[l + 1])
        /\ \A l \in 0..(Levels - 1) : valid(d[l]) => valid(d[l + 1])
    <2>1. ~ valid(0)
      BY DEF valid
    <2>2. /\ e[Levels] = Link(r)
          /\ \A l \in 0..(Levels - 1) :
               e[l] = IF valid(e[l + 1]) THEN content[Linked(e[l + 1])][index[l]] ELSE 0
      <3>1. Steps(e, content, r, index)
        BY <1>0, EntrySteps
      <3> QED BY <3>1 DEF Steps
    <2>3. /\ d[Levels] = Link(s)
          /\ \A l \in 0..(Levels - 1) :
               d[l] = IF valid(d[l + 1]) THEN content[Linked(d[l + 1])][other[l]] ELSE 0
      <3>1. Steps(d, content, s, other)
        BY <1>0, EntrySteps
      <3> QED BY <3>1 DEF Steps
    <2> HIDE DEF e, d
    <2> QED BY <2>1, <2>2, <2>3
  <1>2. \A l \in 0..(Levels - 1) : valid(e[l + 1]) =>
          \E g \in 0..(n - 1) : depth[g] = l /\ e[l + 1] = Link(g) /\ e[l] = content[g][index[l]]
    BY WalkDepth
  <1>3. \A l \in 0..(Levels - 1) : valid(d[l + 1]) =>
          \E g \in 0..(n - 1) : depth[g] = l /\ d[l + 1] = Link(g) /\ d[l] = content[g][other[l]]
    BY WalkDepth
  <1> HIDE DEF e, d
  <1>4. Levels - 1 \in S
    BY <1>0, <1>1, LinkInjective
  <1>5. ASSUME NEW l \in 0..((Levels - 1) - 1), l + 1 \in S PROVE l \in S
    <2>1. l \in 0..(Levels - 1) /\ l + 1 \in 0..(Levels - 1) /\ l + 1 > 0
      BY <1>0
    <2> SUFFICES ASSUME valid(e[l + 1]), e[l + 1] = d[l + 1] PROVE Same(l)
      BY <2>1
    <2>2. PICK f \in 0..(n - 1) : /\ depth[f] = l + 1 /\ e[(l + 1) + 1] = Link(f)
                                  /\ e[l + 1] = content[f][index[l + 1]]
      BY <1>1, <1>2, <2>1
    <2>3. PICK g \in 0..(n - 1) : /\ depth[g] = l + 1 /\ d[(l + 1) + 1] = Link(g)
                                  /\ d[l + 1] = content[g][other[l + 1]]
      BY <1>1, <1>3, <2>1
    <2>4. f = g /\ index[l + 1] = other[l + 1]
      <3>1. index[l + 1] \in Index /\ other[l + 1] \in Index
        BY <2>1 DEF Path
      <3>2. /\ depth[f] > 0 /\ depth[g] > 0 /\ valid(content[f][index[l + 1]])
            /\ content[f][index[l + 1]] = content[g][other[l + 1]]
        BY <2>1, <2>2, <2>3
      <3>3. LinksOnce(content, n, depth)
        BY DEF Tree
      <3> QED BY <3>1, <3>2, <3>3 DEF LinksOnce
    <2>5. valid(e[(l + 1) + 1])
      BY <1>1, <2>1
    <2>6. Same(l + 1)
      BY <1>5, <2>1, <2>2, <2>3, <2>4, <2>5
    <2> QED BY <1>0, <2>1, <2>4, <2>6
  <1> HIDE DEF S
  <1>6. \A l \in 0..(Levels - 1) : l \in S
    BY <1>0, <1>4, <1>5, InductionDown
  <1> QED BY <1>6 DEF S, e, d

-----------------------------------------------------------------------------
(* What the steps of page_table_update do to the forest and to what a query *)
(* answers.                                                                *)

Answer(content, pt, index) == Read(Entries(content, pt, index)[0])

\* The memory after a new frame has been linked from entry i of frame f.
Grown(content, n, f, i) ==
  [g \in 0..n |-> IF g = n THEN ZeroPage
                  ELSE IF g = f THEN [content[f] EXCEPT ![i] = Link(n)] ELSE content[g]]
Deeper(depth, n, l) == [g \in 0..n |-> IF g = n THEN l ELSE depth[g]]

LEMMA GrownTree ==
  ASSUME NEW content, NEW n, NEW depth, NEW R, Tree(content, n, depth, R), n < NPAGES,
         NEW f \in 0..(n - 1), depth[f] > 0, NEW i \in Index, ~ valid(content[f][i])
  PROVE  Tree(Grown(content, n, f, i), n + 1, Deeper(depth, n, depth[f] - 1), R)
  <1> DEFINE c == Grown(content, n, f, i)
             d == Deeper(depth, n, depth[f] - 1)
  <1>1. /\ n \in Nat /\ (n + 1) - 1 = n /\ n + 1 \in 0..NPAGES /\ n \in 0..(NPAGES - 1)
        /\ Levels \in Nat /\ NPAGES \in Nat /\ 0..(n - 1) \subseteq 0..(NPAGES - 1)
        /\ \A g \in 0..n : g = n \/ g \in 0..(n - 1)
        /\ \A g \in 0..(n - 1) : g # n /\ g \in 0..n
    BY WordParts DEF Tree, Typed
  <1>2. /\ c[n] = ZeroPage
        /\ c[f] = [content[f] EXCEPT ![i] = Link(n)]
        /\ \A g \in 0..(n - 1) : g # f => c[g] = content[g]
    BY <1>1 DEF Grown
  <1>3. /\ content \in [0..(n - 1) -> [Index -> 0..(Word - 1)]]
        /\ depth \in [0..(n - 1) -> 0..(Levels - 1)] /\ R \subseteq 0..(n - 1)
    BY DEF Tree, Typed
  <1>4. d[n] = depth[f] - 1 /\ \A g \in 0..(n - 1) : d[g] = depth[g]
    BY <1>1 DEF Deeper
  <1>5. Link(n) \in 0..(Word - 1) /\ valid(Link(n)) /\ ~ valid(0) /\ 0 \in 0..(Word - 1)
    <2>1. Link(n) \in 0..(Word - 1) /\ valid(Link(n))
      BY <1>1, LinkFacts
    <2>2. Word \in Int
      BY <1>3, <2>1, WordParts
    <2> QED BY <2>1, <2>2 DEF valid
  <1>6. c \in [0..n -> [Index -> 0..(Word - 1)]]
    <2>1. ZeroPage \in [Index -> 0..(Word - 1)]
      BY <1>5 DEF ZeroPage
    <2>2. [content[f] EXCEPT ![i] = Link(n)] \in [Index -> 0..(Word - 1)]
      BY <1>3, <1>5
    <2> QED BY <1>1, <1>3, <2>1, <2>2 DEF Grown
  <1>7. d \in [0..n -> 0..(Levels - 1)]
    <2>1. depth[f] - 1 \in 0..(Levels - 1)
      BY <1>1, <1>3
    <2> QED BY <1>1, <1>3, <2>1 DEF Deeper
  <1>8. \A j \in Index : ~ valid(c[n][j])
    BY <1>2, <1>5 DEF ZeroPage
  <1>9. /\ c[f][i] = Link(n)
        /\ \A g \in 0..(n - 1), j \in Index : g # f \/ j # i => c[g][j] = content[g][j]
    BY <1>2, <1>3
  <1> HIDE DEF c, d
  <1>10. ASSUME NEW g \in 0..n, NEW j \in Index, d[g] > 0, valid(c[g][j])
         PROVE  \E h \in (0..n) \ R : c[g][j] = Link(h) /\ d[h] = d[g] - 1
    <2>1. g \in 0..(n - 1)
      BY <1>1, <1>8, <1>10
    <2>2. CASE g = f /\ j = i
      <3>1. n \in (0..n) \ R
        BY <1>1, <1>3
      <3>2. c[g][j] = Link(n) /\ d[n] = d[g] - 1
        BY <1>4, <1>9, <2>2
      <3> QED BY <3>1, <3>2
    <2>3. CASE g # f \/ j # i
      <3>1. depth[g] > 0 /\ valid(content[g][j]) /\ c[g][j] = content[g][j]
        BY <1>4, <1>9, <1>10, <2>1, <2>3
      <3>2. PICK h \in (0..(n - 1)) \ R : content[g][j] = Link(h) /\ depth[h] = depth[g] - 1
        BY <2>1, <3>1 DEF Tree, LinksDown
      <3> QED BY <1>1, <1>4, <2>1, <3>1, <3>2
    <2> QED BY <2>2, <2>3
  <1>11. ASSUME NEW g \in 0..(n - 1), NEW j \in Index, d[g] > 0, g # f \/ j # i
         PROVE  c[g][j] # Link(n)
    <2> SUFFICES ASSUME content[g][j] = Link(n) PROVE FALSE
      BY <1>9, <1>11
    <2>1. PICK h \in 0..(n - 1) : content[g][j] = Link(h)
      BY <1>4, <1>5, <1>11 DEF Tree, LinksDown
    <2> QED BY <1>1, <2>1, LinkInjective
  <1>12. ASSUME NEW g \in 0..n, NEW h \in 0..n, NEW j \in Index, NEW k \in Index,
                d[g] > 0, d[h] > 0, valid(c[g][j]), c[g][j] = c[h][k]
         PROVE  g = h /\ j = k
    <2>1. g \in 0..(n - 1) /\ h \in 0..(n - 1)
      BY <1>1, <1>8, <1>12
    <2>2. CASE g = f /\ j = i
      BY <1>9, <1>11, <1>12, <2>1, <2>2
    <2>3. CASE h = f /\ k = i
      BY <1>9, <1>11, <1>12, <2>1, <2>3
    <2>4. CASE (g # f \/ j # i) /\ (h # f \/ k # i)
      <3>1. /\ depth[g] > 0 /\ depth[h] > 0
            /\ c[g][j] = content[g][j] /\ c[h][k] = content[h][k]
        BY <1>4, <1>9, <1>12, <2>1, <2>4
      <3> QED BY <1>12, <2>1, <3>1 DEF Tree, LinksOnce
    <2> QED BY <2>2, <2>3, <2>4
  <1>13. ASSUME NEW g \in (0..n) \ R
         PROVE  \E h \in 0..n, j \in Index : d[h] > 0 /\ c[h][j] = Link(g)
    <2>1. CASE g = n
      BY <1>1, <1>4, <1>9, <2>1
    <2>2. CASE g # n
      <3>1. g \in 0..(n - 1)
        BY <1>1, <2>2
      <3>2. PICK h \in 0..(n - 1), j \in Index : depth[h] > 0 /\ content[h][j] = Link(g)
        BY <3>1 DEF Tree, AllLinked
      <3>3. valid(Link(g))
        BY <1>1, <3>1, LinkFacts
      <3>4. c[h][j] = content[h][j] /\ d[h] > 0
        BY <1>4, <1>9, <3>2, <3>3
      <3> QED BY <1>1, <3>2, <3>4
    <2> QED BY <2>1, <2>2
  <1>14. \A r \in R : r \in 0..n /\ d[r] = Levels - 1
    BY <1>1, <1>4 DEF Tree, Typed
  <1>15. Typed(c, n + 1, d, R)
    BY <1>1, <1>6, <1>7, <1>14 DEF Typed
  <1>16. LinksDown(c, n + 1, d, R)
    BY <1>1, <1>10 DEF LinksDown
  <1>17. LinksOnce(c, n + 1, d)
    BY <1>1, <1>12 DEF LinksOnce
  <1>18. AllLinked(c, n + 1, d, R)
    BY <1>1, <1>13 DEF AllLinked
  <1> QED BY <1>15, <1>16, <1>17, <1>18 DEF Tree, c, d

\* The entries a walk reads are as before, or invalid as before, or the new link.
LEMMA GrownEntries ==
  ASSUME NEW content, NEW n, NEW depth, NEW R, Tree(content, n, depth, R), n < NPAGES,
         NEW f \in 0..(n - 1), depth[f] > 0, NEW i \in Index, ~ valid(content[f][i]),
         NEW r \in R, NEW index \in Path
  PROVE  LET e == Entries(content, r + FirstFrame, index)
             d == Entries(Grown(content, n, f, i), r + FirstFrame, index)
         IN \A l \in 0..Levels :
              \/ d[l] = e[l]
              \/ /\ ~ valid(e[l])
                 /\ ~ valid(d[l]) \/ (l > 0 /\ d[l] = Link(n))
  <1> DEFINE c == Grown(content, n, f, i)
             e == Entries(content, r + FirstFrame, index)
             d == Entries(c, r + FirstFrame, index)
             S == {l \in 0..Levels :
                     \/ d[l] = e[l]
                     \/ /\ ~ valid(e[l])
                        /\ ~ valid(d[l]) \/ (l > 0 /\ d[l] = Link(n))}
  <1>0. /\ Levels \in Nat /\ n \in 0..(NPAGES - 1) /\ r \in 0..(NPAGES - 1)
        /\ n \in Nat /\ \A g \in 0..(n - 1) : g # n /\ g \in 0..n /\ g \in 0..(NPAGES - 1)
    BY WordParts DEF Tree, Typed
  <1>1. /\ e[Levels] = Link(r)
        /\ \A l \in 0..(Levels - 1) :
             e[l] = IF valid(e[l + 1]) THEN content[Linked(e[l + 1])][index[l]] ELSE 0
    <2>1. Steps(e, content, r, index)
      BY <1>0, EntrySteps
    <2> QED BY <2>1 DEF Steps
  <1>2. /\ d[Levels] = Link(r)
        /\ \A l \in 0..(Levels - 1) :
             d[l] = IF valid(d[l + 1]) THEN c[Linked(d[l + 1])][index[l]] ELSE 0
    <2>1. Steps(d, c, r, index)
      BY <1>0, EntrySteps
    <2> QED BY <2>1 DEF Steps
  <1>3. \A l \in 0..(Levels - 1) : valid(e[l + 1]) =>
          \E g \in 0..(n - 1) : e[l + 1] = Link(g) /\ depth[g] = l /\ e[l] = content[g][index[l]]
    BY WalkDepth
  <1>4. /\ Linked(Link(n)) = n /\ \A g \in 0..(n - 1) : Linked(Link(g)) = g
        /\ valid(Link(n)) /\ ~ valid(0)
    BY <1>0, LinkFacts DEF valid
  <1>5. /\ \A j \in Index : c[n][j] = 0
        /\ c[f][i] = Link(n)
        /\ \A g \in 0..(n - 1), j \in Index : g # f \/ j # i => c[g][j] = content[g][j]
    <2>1. c[n] = ZeroPage /\ c[f] = [content[f] EXCEPT ![i] = Link(n)]
          /\ \A g \in 0..(n - 1) : g # f => c[g] = content[g]
      BY <1>0 DEF Grown
    <2>2. content[f] \in [Index -> 0..(Word - 1)]
      BY DEF Tree, Typed
    <2> QED BY <2>1, <2>2 DEF ZeroPage
  <1> HIDE DEF c, d, e
  <1>6. Levels \in S
    BY <1>0, <1>1, <1>2
  <1>7. ASSUME NEW l \in 0..(Levels - 1), l + 1 \in S PROVE l \in S
    <2>1. l \in 0..Levels /\ index[l] \in Index
      BY <1>0 DEF Path
    <2>2. CASE d[l + 1] = e[l + 1] /\ ~ valid(e[l + 1])
      BY <1>1, <1>2, <2>1, <2>2
    <2>3. CASE d[l + 1] = e[l + 1] /\ valid(e[l + 1])
      <3>1. PICK g \in 0..(n - 1) :
              e[l + 1] = Link(g) /\ depth[g] = l /\ e[l] = content[g][index[l]]
        BY <1>3, <2>3
      <3>2. d[l] = c[g][index[l]]
        BY <1>2, <1>4, <2>3, <3>1
      <3>3. CASE g = f /\ index[l] = i
        BY <1>5, <2>1, <3>1, <3>2, <3>3
      <3>4. CASE g # f \/ index[l] # i
        BY <1>5, <2>1, <3>1, <3>2, <3>4
      <3> QED BY <3>3, <3>4
    <2>4. CASE ~ valid(e[l + 1]) /\ ~ valid(d[l + 1])
      BY <1>1, <1>2, <2>1, <2>4
    <2>5. CASE ~ valid(e[l + 1]) /\ d[l + 1] = Link(n)
      BY <1>1, <1>2, <1>4, <1>5, <2>1, <2>5
    <2> QED BY <1>7, <2>2, <2>3, <2>4, <2>5
  <1> HIDE DEF S
  <1>8. \A l \in 0..Levels : l \in S
    BY <1>0, <1>6, <1>7, InductionDown
  <1> QED BY <1>8 DEF S, c, d, e

\* A walk that has reached the node comes to it again.
LEMMA GrownWalk ==
  ASSUME NEW content, NEW n, NEW depth, NEW R, Tree(content, n, depth, R), n < NPAGES,
         NEW f \in 0..(n - 1), depth[f] > 0, NEW i \in Index, ~ valid(content[f][i]),
         NEW r \in R, NEW index \in Path, NEW l \in 0..(Levels - 1), depth[f] = l,
         Entries(content, r + FirstFrame, index)[l + 1] = Link(f)
  PROVE  Entries(Grown(content, n, f, i), r + FirstFrame, index)[l + 1] = Link(f)
  <1> DEFINE c == Grown(content, n, f, i)
             e == Entries(content, r + FirstFrame, index)
             d == Entries(c, r + FirstFrame, index)
  <1>0. /\ n \in Nat /\ l + 1 \in 0..Levels
        /\ f \in 0..(NPAGES - 1)
    BY WordParts DEF Tree, Typed
  <1>1. \/ d[l + 1] = e[l + 1]
        \/ /\ ~ valid(e[l + 1])
           /\ ~ valid(d[l + 1]) \/ (l + 1 > 0 /\ d[l + 1] = Link(n))
    BY <1>0, GrownEntries
  <1>2. valid(Link(f))
    BY <1>0, LinkFacts
  <1> QED BY <1>1, <1>2

\* Linking a new, empty node maps nothing and unmaps nothing.
LEMMA GrownAnswers ==
  ASSUME NEW content, NEW n, NEW depth, NEW R, Tree(content, n, depth, R), n < NPAGES,
         NEW f \in 0..(n - 1), depth[f] > 0, NEW i \in Index, ~ valid(content[f][i]),
         NEW r \in R, NEW index \in Path
  PROVE  Answer(Grown(content, n, f, i), r + FirstFrame, index)
           = Answer(content, r + FirstFrame, index)
  <1> DEFINE c == Grown(content, n, f, i)
             e == Entries(content, r + FirstFrame, index)
             d == Entries(c, r + FirstFrame, index)
  <1>1. 0 \in 0..Levels
    BY WordParts
  <1>2. d[0] = e[0] \/ (~ valid(d[0]) /\ ~ valid(e[0]))
    BY <1>1, GrownEntries
  <1> QED BY <1>2 DEF Answer, Read

\* The memory after a new frame has been taken for a root.
WithRoot(content, n) == [g \in 0..n |-> IF g = n THEN ZeroPage ELSE content[g]]

LEMMA RootTree ==
  ASSUME NEW content, NEW n, NEW depth, NEW R, Tree(content, n, depth, R), n < NPAGES
  PROVE  Tree(WithRoot(content, n), n + 1, Deeper(depth, n, Levels - 1), R \cup {n})
  <1> DEFINE c == WithRoot(content, n)
             d == Deeper(depth, n, Levels - 1)
  <1>1. /\ n \in Nat /\ (n + 1) - 1 = n /\ n + 1 \in 0..NPAGES /\ n \in 0..(NPAGES - 1)
        /\ Levels - 1 \in Nat /\ NPAGES \in Nat /\ 0..(n - 1) \subseteq 0..(NPAGES - 1)
        /\ \A g \in 0..n : g = n \/ g \in 0..(n - 1)
        /\ \A g \in 0..(n - 1) : g # n /\ g \in 0..n
    BY WordParts DEF Tree, Typed
  <1>2. /\ content \in [0..(n - 1) -> [Index -> 0..(Word - 1)]]
        /\ depth \in [0..(n - 1) -> 0..(Levels - 1)] /\ R \subseteq 0..(n - 1)
    BY DEF Tree, Typed
  <1>3. c[n] = ZeroPage /\ \A g \in 0..(n - 1) : c[g] = content[g]
    BY <1>1 DEF WithRoot
  <1>4. d[n] = Levels - 1 /\ \A g \in 0..(n - 1) : d[g] = depth[g]
    BY <1>1 DEF Deeper
  <1>5. ~ valid(0) /\ 0 \in 0..(Word - 1)
    <2>1. Word \in Nat \ {0}
      BY WordParts
    <2> QED BY <2>1 DEF valid
  <1>6. c \in [0..n -> [Index -> 0..(Word - 1)]] /\ d \in [0..n -> 0..(Levels - 1)]
    <2>1. ZeroPage \in [Index -> 0..(Word - 1)] /\ Levels - 1 \in 0..(Levels - 1)
      BY <1>1, <1>5 DEF ZeroPage
    <2> QED BY <1>1, <1>2, <2>1 DEF WithRoot, Deeper
  <1>7. \A j \in Index : ~ valid(c[n][j])
    BY <1>3, <1>5 DEF ZeroPage
  <1> HIDE DEF c, d
  <1>8. \A r \in R \cup {n} : r \in 0..n /\ d[r] = Levels - 1
    BY <1>1, <1>4 DEF Tree, Typed
  <1>9. ASSUME NEW g \in 0..n, NEW j \in Index, d[g] > 0, valid(c[g][j])
        PROVE  \E h \in (0..n) \ (R \cup {n}) : c[g][j] = Link(h) /\ d[h] = d[g] - 1
    <2>1. g \in 0..(n - 1) /\ depth[g] > 0 /\ valid(content[g][j])
      BY <1>1, <1>3, <1>4, <1>7, <1>9
    <2>2. PICK h \in (0..(n - 1)) \ R : content[g][j] = Link(h) /\ depth[h] = depth[g] - 1
      BY <2>1 DEF Tree, LinksDown
    <2> QED BY <1>1, <1>3, <1>4, <2>1, <2>2
  <1>10. ASSUME NEW g \in 0..n, NEW h \in 0..n, NEW j \in Index, NEW k \in Index,
                d[g] > 0, d[h] > 0, valid(c[g][j]), c[g][j] = c[h][k]
         PROVE  g = h /\ j = k
    <2>1. g \in 0..(n - 1) /\ h \in 0..(n - 1)
      BY <1>1, <1>7, <1>10
    <2> QED BY <1>3, <1>4, <1>10, <2>1 DEF Tree, LinksOnce
  <1>11. ASSUME NEW g \in (0..n) \ (R \cup {n})
         PROVE  \E h \in 0..n, j \in Index : d[h] > 0 /\ c[h][j] = Link(g)
    <2>1. g \in (0..(n - 1)) \ R
      BY <1>1
    <2>2. PICK h \in 0..(n - 1), j \in Index : depth[h] > 0 /\ content[h][j] = Link(g)
      BY <2>1 DEF Tree, AllLinked
    <2> QED BY <1>1, <1>3, <1>4, <2>2
  <1>12. Typed(c, n + 1, d, R \cup {n})
    BY <1>1, <1>6, <1>8 DEF Typed
  <1>13. LinksDown(c, n + 1, d, R \cup {n})
    BY <1>1, <1>9 DEF LinksDown
  <1>14. LinksOnce(c, n + 1, d)
    BY <1>1, <1>10 DEF LinksOnce
  <1>15. AllLinked(c, n + 1, d, R \cup {n})
    BY <1>1, <1>11 DEF AllLinked
  <1> QED BY <1>12, <1>13, <1>14, <1>15 DEF Tree, c, d

\* A new table maps nothing, and what the others map is as before.
LEMMA RootAnswers ==
  ASSUME NEW content, NEW n, NEW depth, NEW R, Tree(content, n, depth, R), n < NPAGES,
         NEW index \in Path
  PROVE  /\ Answer(WithRoot(content, n), n + FirstFrame, index) = NO_MAPPING
         /\ \A r \in R : Answer(WithRoot(content, n), r + FirstFrame, index)
                           = Answer(content, r + FirstFrame, index)
  <1> DEFINE c == WithRoot(content, n)
  <1>0. /\ Levels \in Nat \ {0} /\ n \in 0..(NPAGES - 1) /\ n \in Nat
        /\ \A g \in 0..(n - 1) : g # n /\ g \in 0..n /\ g \in 0..(NPAGES - 1)
    BY WordParts DEF Tree, Typed
  <1>1. c[n] = ZeroPage /\ \A g \in 0..(n - 1) : c[g] = content[g]
    BY <1>0 DEF WithRoot
  <1>2. Linked(Link(n)) = n /\ valid(Link(n)) /\ ~ valid(0)
        /\ \A g \in 0..(n - 1) : Linked(Link(g)) = g
    BY <1>0, LinkFacts DEF valid
  <1> HIDE DEF c
  <1>3. Answer(c, n + FirstFrame, index) = NO_MAPPING
    <2> DEFINE e == Entries(c, n + FirstFrame, index)
    <2>1. /\ e[Levels] = Link(n)
          /\ \A l \in 0..(Levels - 1) :
               e[l] = IF valid(e[l + 1]) THEN c[Linked(e[l + 1])][index[l]] ELSE 0
      <3>1. Steps(e, c, n, index)
        BY <1>0, EntrySteps
      <3> QED BY <3>1 DEF Steps
    <2> HIDE DEF e
    <2>2. Levels - 1 \in 0..(Levels - 1) /\ (Levels - 1) + 1 = Levels
          /\ Levels - 1 \in 0..Levels
      BY <1>0
    <2>3. e[Levels - 1] = 0
      <3>1. index[Levels - 1] \in Index
        BY <2>2 DEF Path
      <3> QED BY <1>1, <1>2, <2>1, <2>2, <3>1 DEF ZeroPage
    <2>4. ~ valid(e[0])
      BY <1>0, <1>2, <2>2, <2>3, WalkValid DEF e
    <2> QED BY <2>4 DEF Answer, Read, e
  <1>4. ASSUME NEW r \in R
        PROVE  Answer(c, r + FirstFrame, index) = Answer(content, r + FirstFrame, index)
    <2> DEFINE e == Entries(content, r + FirstFrame, index)
               d == Entries(c, r + FirstFrame, index)
               S == {l \in 0..Levels : d[l] = e[l]}
    <2>0. r \in 0..(NPAGES - 1)
      BY <1>0 DEF Tree, Typed
    <2>1. /\ e[Levels] = Link(r)
          /\ \A l \in 0..(Levels - 1) :
               e[l] = IF valid(e[l + 1]) THEN content[Linked(e[l + 1])][index[l]] ELSE 0
      <3>1. Steps(e, content, r, index)
        BY <2>0, EntrySteps
      <3> QED BY <3>1 DEF Steps
    <2>2. /\ d[Levels] = Link(r)
          /\ \A l \in 0..(Levels - 1) :
               d[l] = IF valid(d[l + 1]) THEN c[Linked(d[l + 1])][index[l]] ELSE 0
      <3>1. Steps(d, c, r, index)
        BY <2>0, EntrySteps
      <3> QED BY <3>1 DEF Steps
    <2>3. \A l \in 0..(Levels - 1) : valid(e[l + 1]) => \E g \in 0..(n - 1) : e[l + 1] = Link(g)
      BY WalkDepth
    <2> HIDE DEF e, d
    <2>4. Levels \in S
      BY <1>0, <2>1, <2>2
    <2>5. ASSUME NEW l \in 0..(Levels - 1), l + 1 \in S PROVE l \in S
      <3>1. l \in 0..Levels /\ d[l + 1] = e[l + 1]
        BY <1>0, <2>5
      <3>2. valid(e[l + 1]) => c[Linked(e[l + 1])] = content[Linked(e[l + 1])]
        BY <1>1, <1>2, <2>3
      <3> QED BY <2>1, <2>2, <3>1, <3>2
    <2> HIDE DEF S
    <2>6. 0 \in S
      BY <1>0, <2>4, <2>5, InductionDown
    <2> QED BY <2>6 DEF S, Answer, Read, d, e
  <1> QED BY <1>3, <1>4 DEF c

\* The memory after entry i of frame f, a leaf, has been written.
Written(content, f, i, w) == [content EXCEPT ![f][i] = w]

LEMMA WrittenTree ==
  ASSUME NEW content, NEW n, NEW depth, NEW R, Tree(content, n, depth, R),
         NEW f \in 0..(n - 1), depth[f] = 0, NEW i \in Index, NEW w \in 0..(Word - 1)
  PROVE  Tree(Written(content, f, i, w), n, depth, R)
  <1> DEFINE c == Written(content, f, i, w)
  <1>1. content \in [0..(n - 1) -> [Index -> 0..(Word - 1)]]
    BY DEF Tree, Typed
  <1>2. c \in [0..(n - 1) -> [Index -> 0..(Word - 1)]]
    BY <1>1 DEF Written
  <1>3. \A g \in 0..(n - 1) : depth[g] > 0 => c[g] = content[g]
    BY <1>1 DEF Written
  <1> HIDE DEF c
  <1>4. Typed(c, n, depth, R)
    BY <1>2 DEF Tree, Typed
  <1>5. LinksDown(c, n, depth, R)
    BY <1>3 DEF Tree, LinksDown
  <1>6. LinksOnce(c, n, depth)
    BY <1>3 DEF Tree, LinksOnce
  <1>7. AllLinked(c, n, depth, R)
    BY <1>3 DEF Tree, AllLinked
  <1> QED BY <1>4, <1>5, <1>6, <1>7 DEF Tree, c

\* Above its leaf a walk is as before.
LEMMA WrittenWalk ==
  ASSUME NEW content, NEW n, NEW depth, NEW R, Tree(content, n, depth, R),
         NEW f \in 0..(n - 1), depth[f] = 0, NEW i \in Index, NEW w,
         NEW s \in R, NEW other \in Path
  PROVE  LET e == Entries(content, s + FirstFrame, other)
             d == Entries(Written(content, f, i, w), s + FirstFrame, other)
         IN \A l \in 0..(Levels - 1) : d[l + 1] = e[l + 1]
  <1> DEFINE c == Written(content, f, i, w)
             e == Entries(content, s + FirstFrame, other)
             d == Entries(c, s + FirstFrame, other)
             S == {l \in 0..(Levels - 1) : d[l + 1] = e[l + 1]}
  <1>0. /\ Levels - 1 \in Nat /\ (Levels - 1) + 1 = Levels /\ n \in Nat
        /\ s \in 0..(NPAGES - 1) /\ \A g \in 0..(n - 1) : g \in 0..(NPAGES - 1)
    BY WordParts DEF Tree, Typed
  <1>1. /\ e[Levels] = Link(s)
        /\ \A l \in 0..(Levels - 1) :
             e[l] = IF valid(e[l + 1]) THEN content[Linked(e[l + 1])][other[l]] ELSE 0
    <2>1. Steps(e, content, s, other)
      BY <1>0, EntrySteps
    <2> QED BY <2>1 DEF Steps
  <1>2. /\ d[Levels] = Link(s)
        /\ \A l \in 0..(Levels - 1) :
             d[l] = IF valid(d[l + 1]) THEN c[Linked(d[l + 1])][other[l]] ELSE 0
    <2>1. Steps(d, c, s, other)
      BY <1>0, EntrySteps
    <2> QED BY <2>1 DEF Steps
  <1>3. \A l \in 0..(Levels - 1) : valid(e[l + 1]) =>
          \E g \in 0..(n - 1) : e[l + 1] = Link(g) /\ depth[g] = l
    BY WalkDepth
  <1>4. \A g \in 0..(n - 1) : Linked(Link(g)) = g
    BY <1>0, LinkFacts
  <1>5. \A g \in 0..(n - 1) : g # f => c[g] = content[g]
    BY DEF Written, Tree, Typed
  <1> HIDE DEF c, d, e
  <1>6. Levels - 1 \in S
    BY <1>0, <1>1, <1>2
  <1>7. ASSUME NEW l \in 0..((Levels - 1) - 1), l + 1 \in S PROVE l \in S
    <2>1. l \in 0..(Levels - 1) /\ l + 1 \in 0..(Levels - 1) /\ l + 1 # 0
          /\ d[(l + 1) + 1] = e[(l + 1) + 1]
      BY <1>0, <1>7
    <2>2. CASE ~ valid(e[(l + 1) + 1])
      BY <1>1, <1>2, <2>1, <2>2
    <2>3. CASE valid(e[(l + 1) + 1])
      <3>1. PICK g \in 0..(n - 1) : e[(l + 1) + 1] = Link(g) /\ depth[g] = l + 1
        BY <1>3, <2>1, <2>3
      <3>2. c[g] = content[g]
        BY <1>5, <2>1, <3>1
      <3> QED BY <1>1, <1>2, <1>4, <2>1, <2>3, <3>1, <3>2
    <2> QED BY <2>2, <2>3
  <1> HIDE DEF S
  <1>8. \A l \in 0..(Levels - 1) : l \in S
    BY <1>0, <1>6, <1>7, InductionDown
  <1> QED BY <1>8 DEF S, c, d, e

\* The walk that leads to the entry answers with what was written, every other walk as
\* before.
LEMMA WrittenAnswers ==
  ASSUME NEW content, NEW n, NEW depth, NEW R, Tree(content, n, depth, R),
         NEW f \in 0..(n - 1), depth[f] = 0, NEW w,
         NEW r \in R, NEW index \in Path,
         Entries(content, r + FirstFrame, index)[1] = Link(f),
         NEW s \in R, NEW other \in Path
  PROVE  LET c == Written(content, f, index[0], w) IN
         /\ s = r /\ other = index => Answer(c, s + FirstFrame, other) = Read(w)
         /\ ~ (s = r /\ other = index) =>
              Answer(c, s + FirstFrame, other) = Answer(content, s + FirstFrame, other)
  <1> DEFINE c == Written(content, f, index[0], w)
             e == Entries(content, s + FirstFrame, other)
             d == Entries(c, s + FirstFrame, other)
             t == Entries(content, r + FirstFrame, index)
  <1>0. /\ Levels - 1 \in Nat /\ 0 \in 0..(Levels - 1) /\ 0 + 1 = 1
        /\ s \in 0..(NPAGES - 1) /\ \A g \in 0..(n - 1) : g \in 0..(NPAGES - 1)
        /\ index[0] \in Index /\ other[0] \in Index
    <2>1. Levels - 1 \in Nat /\ 0 \in 0..(Levels - 1) /\ 0 + 1 = 1 /\ NPAGES \in Nat
      BY WordParts
    <2>2. n \in 0..NPAGES /\ s \in 0..(n - 1)
      BY DEF Tree, Typed
    <2>3. index[0] \in Index /\ other[0] \in Index
      BY <2>1 DEF Path
    <2> QED BY <2>1, <2>2, <2>3
  <1>1. /\ d[1] = e[1]
        /\ e[0] = IF valid(e[1]) THEN content[Linked(e[1])][other[0]] ELSE 0
        /\ d[0] = IF valid(d[1]) THEN c[Linked(d[1])][other[0]] ELSE 0
    <2>1. d[0 + 1] = e[0 + 1]
      BY <1>0, WrittenWalk
    <2>2. Steps(e, content, s, other)
      BY <1>0, EntrySteps
    <2>3. Steps(d, c, s, other)
      BY <1>0, EntrySteps
    <2> HIDE DEF d, e
    <2> QED BY <1>0, <2>1, <2>2, <2>3 DEF Steps
  <1>2. t[1] = Link(f) /\ valid(Link(f)) /\ Linked(Link(f)) = f
    BY <1>0, LinkFacts
  <1>3. /\ c[f][index[0]] = w
        /\ \A g \in 0..(n - 1), j \in Index : g # f \/ j # index[0] => c[g][j] = content[g][j]
    <2>1. content \in [0..(n - 1) -> [Index -> 0..(Word - 1)]]
      BY DEF Tree, Typed
    <2> QED BY <1>0, <2>1 DEF Written
  <1>4. CASE s = r /\ other = index
    <2>1. e[1] = Link(f)
      BY <1>2, <1>4
    <2>2. d[0] = w
      <3> HIDE DEF c, d, e
      <3> QED BY <1>1, <1>2, <1>3, <1>4, <2>1
    <2> QED BY <1>4, <2>2 DEF Answer, Read
  <1>5. CASE ~ (s = r /\ other = index)
    <2>1. valid(e[1]) =>
            \E g \in 0..(n - 1) : e[1] = Link(g)
      <3>1. valid(e[0 + 1]) => \E g \in 0..(n - 1) : e[0 + 1] = Link(g)
        BY <1>0, WalkDepth
      <3> QED BY <1>0, <3>1
    <2>2. e[1] # Link(f) \/ other[0] # index[0]
      <3> SUFFICES ASSUME e[1] = Link(f), other[0] = index[0] PROVE FALSE
        OBVIOUS
      <3>1. t[0 + 1] = e[0 + 1] /\ valid(t[0 + 1])
        BY <1>0, <1>2
      <3>2. r = s /\ \A k \in (0 + 1)..(Levels - 1) : index[k] = other[k]
        BY <1>0, <3>1, WalkUnique
      <3>3. \A k \in 0..(Levels - 1) : index[k] = other[k]
        BY <1>0, <3>2
      <3>4. index = other
        <4>1. index = [k \in 0..(Levels - 1) |-> index[k]]
              /\ other = [k \in 0..(Levels - 1) |-> other[k]]
          BY DEF Path
        <4> QED BY <3>3, <4>1, Zenon
      <3> QED BY <1>5, <3>2, <3>4
    <2>3. d[0] = e[0]
      <3>1. CASE ~ valid(e[1])
        <4> HIDE DEF c, d, e
        <4> QED BY <1>1, <3>1
      <3>2. CASE valid(e[1])
        <4>1. PICK g \in 0..(n - 1) : e[1] = Link(g)
          BY <2>1, <3>2
        <4>2. Linked(Link(g)) = g
          BY <1>0, LinkFacts
        <4>3. g # f \/ other[0] # index[0]
          BY <2>2, <4>1
        <4> HIDE DEF c, d, e
        <4> QED BY <1>0, <1>1, <1>3, <3>2, <4>1, <4>2, <4>3
      <3> QED BY <3>1, <3>2
    <2> QED BY <1>5, <2>3 DEF Answer, Read
  <1> QED BY <1>4, <1>5

-----------------------------------------------------------------------------
(* The loop of page_table_update.                                          *)

LEMMA DescentDef ==
  ASSUME NEW pt, NEW index, NEW ppn
  PROVE  LET w == Descent(pt, index, ppn) IN
         \A level \in 1..Levels :
           w[level] = IF level = Levels
                      THEN [pages |-> pages, nalloc |-> nalloc, res |-> shl(pt, PageShift),
                            stopped |-> FALSE]
                      ELSE Enter(w[level + 1], index[level], ppn)
  <1> DEFINE first == [pages |-> pages, nalloc |-> nalloc, res |-> shl(pt, PageShift),
                       stopped |-> FALSE]
             Part(f, l) == f = [level \in (l + 1)..Levels |->
                                  IF level = Levels THEN first
                                  ELSE Enter(f[level + 1], index[level], ppn)]
             S == {l \in 0..(Levels - 1) : \E f : Part(f, l)}
  <1>0. Levels - 1 \in Nat /\ (Levels - 1) + 1 = Levels /\ 0 + 1 = 1
    BY WordParts
  <1>1. Levels - 1 \in S
    <2> DEFINE f == [level \in Levels..Levels |-> first]
    <2>1. Part(f, Levels - 1)
      BY <1>0
    <2> HIDE DEF f
    <2> QED BY <1>0, <2>1
  <1> HIDE DEF first
  <1>2. ASSUME NEW l \in 0..((Levels - 1) - 1), l + 1 \in S PROVE l \in S
    <2>1. PICK f : Part(f, l + 1)
      BY <1>2
    <2> DEFINE g == [level \in (l + 1)..Levels |->
                       IF level = l + 1 THEN Enter(f[level + 1], index[level], ppn)
                       ELSE f[level]]
    <2>2. ASSUME NEW level \in (l + 1)..Levels
          PROVE  g[level] = IF level = Levels THEN first
                            ELSE Enter(g[level + 1], index[level], ppn)
      <3>1. CASE level = l + 1
        <4>1. level # Levels /\ level + 1 \in (l + 1)..Levels /\ level + 1 # l + 1
          BY <1>0, <3>1
        <4>2. g[level] = Enter(f[level + 1], index[level], ppn) /\ g[level + 1] = f[level + 1]
          BY <1>0, <3>1, <4>1
        <4> HIDE DEF g
        <4> QED BY <4>1, <4>2
      <3>2. CASE level # l + 1
        <4>1. level \in ((l + 1) + 1)..Levels /\ g[level] = f[level]
          BY <1>0, <3>2
        <4>2. level # Levels => /\ level + 1 \in (l + 1)..Levels /\ level + 1 # l + 1
                                /\ g[level + 1] = f[level + 1]
          BY <1>0, <4>1
        <4> HIDE DEF g
        <4> QED BY <2>1, <4>1, <4>2
      <3> QED BY <3>1, <3>2
    <2>3. Part(g, l)
      BY <2>2
    <2> HIDE DEF g
    <2> QED BY <1>0, <2>3
  <1> HIDE DEF S
  <1>3. 0 \in S
    BY <1>0, <1>1, <1>2, InductionDown
  <1>4. \E f : Part(f, 0)
    BY <1>3 DEF S
  <1> DEFINE w == CHOOSE f : f = [level \in 1..Levels |->
                                    IF level = Levels THEN first
                                    ELSE Enter(f[level + 1], index[level], ppn)]
  <1>5. w = [level \in 1..Levels |-> IF level = Levels THEN first
                                     ELSE Enter(w[level + 1], index[level], ppn)]
    BY <1>0, <1>4
  <1>6. Descent(pt, index, ppn) = w
    BY DEF Descent, first
  <1> HIDE DEF w
  <1> QED BY <1>5, <1>6 DEF first

\* The walk of an update through index from root r, before the turn for level l - 1:
\* the forest has at most grown, no query answers otherwise than before, and the walk is
\* at the node that a query of the same page reads, or there is no such node.
OnItsWay(m, R, r, index, ppn, l) ==
  /\ m = [pages |-> m.pages, nalloc |-> m.nalloc, res |-> m.res, stopped |-> m.stopped]
  /\ m.stopped \in BOOLEAN
  /\ \A s \in R, other \in Path :
       Answer(m.pages, s + FirstFrame, other) = Answer(pages, s + FirstFrame, other)
  /\ m.stopped /\ ppn = NO_MAPPING => Answer(pages, r + FirstFrame, index) = NO_MAPPING
  /\ \E depth :
       /\ Tree(m.pages, m.nalloc, depth, R)
       /\ ~ m.stopped => \E f \in 0..(m.nalloc - 1) :
            /\ m.res = shl(f + FirstFrame, PageShift) /\ depth[f] = l - 1
            /\ Entries(m.pages, r + FirstFrame, index)[l] = Link(f)

LEMMA SetStopped ==
  ASSUME NEW m, NEW b,
         m = [pages |-> m.pages, nalloc |-> m.nalloc, res |-> m.res, stopped |-> m.stopped]
  PROVE  [m EXCEPT !.stopped = b]
           = [pages |-> m.pages, nalloc |-> m.nalloc, res |-> m.res, stopped |-> b]
  <1> DEFINE k == [m EXCEPT !.stopped = b]
  <1>1. k = [pages |-> k.pages, nalloc |-> k.nalloc, res |-> k.res, stopped |-> k.stopped]
    OBVIOUS
  <1>2. k.pages = m.pages /\ k.nalloc = m.nalloc /\ k.res = m.res /\ k.stopped = b
    OBVIOUS
  <1> HIDE DEF k
  <1>3. k = [pages |-> m.pages, nalloc |-> m.nalloc, res |-> m.res, stopped |-> b]
    BY <1>1, <1>2
  <1> QED BY <1>3 DEF k

\* A turn of the loop keeps to the way.
LEMMA EnterKeepsWay ==
  ASSUME NEW m, NEW R, NEW r \in R, NEW index \in Path, NEW ppn,
         NEW l \in 1..(Levels - 1), OnItsWay(m, R, r, index, ppn, l + 1)
  PROVE  OnItsWay(Enter(m, index[l], ppn), R, r, index, ppn, l)
  <1> DEFINE i == index[l]
             f == phys_to_virt(m.res)
             entry == m.pages[f][i]
  <1>0. /\ Levels \in Nat /\ NPAGES \in Nat /\ i \in Index
        /\ l \in Nat /\ l > 0 /\ (l + 1) - 1 = l /\ l \in 0..Levels /\ l \in 0..(Levels - 1)
    BY WordParts DEF Path
  <1>1. PICK depth :
          /\ Tree(m.pages, m.nalloc, depth, R)
          /\ ~ m.stopped => \E g \in 0..(m.nalloc - 1) :
               /\ m.res = shl(g + FirstFrame, PageShift) /\ depth[g] = l
               /\ Entries(m.pages, r + FirstFrame, index)[l + 1] = Link(g)
    BY <1>0 DEF OnItsWay
  <1>2. /\ m = [pages |-> m.pages, nalloc |-> m.nalloc, res |-> m.res, stopped |-> m.stopped]
        /\ m.stopped \in BOOLEAN
        /\ \A s \in R, other \in Path :
             Answer(m.pages, s + FirstFrame, other) = Answer(pages, s + FirstFrame, other)
        /\ m.stopped /\ ppn = NO_MAPPING => Answer(pages, r + FirstFrame, index) = NO_MAPPING
    BY DEF OnItsWay
  <1>3. /\ r \in 0..(NPAGES - 1) /\ m.nalloc \in Nat /\ m.nalloc <= NPAGES
        /\ \A g \in 0..(m.nalloc - 1) : g \in 0..(NPAGES - 1)
    BY <1>0, <1>1 DEF Tree, Typed
  <1>4. CASE m.stopped
    <2>1. Enter(m, i, ppn) = m
      BY <1>4 DEF Enter
    <2> QED BY <1>1, <1>2, <1>4, <2>1 DEF OnItsWay
  <1>5. CASE ~ m.stopped
    <2>1. /\ f \in 0..(m.nalloc - 1) /\ m.res = shl(f + FirstFrame, PageShift)
          /\ depth[f] = l /\ Entries(m.pages, r + FirstFrame, index)[l + 1] = Link(f)
      <3>1. PICK g \in 0..(m.nalloc - 1) :
               /\ m.res = shl(g + FirstFrame, PageShift) /\ depth[g] = l
               /\ Entries(m.pages, r + FirstFrame, index)[l + 1] = Link(g)
        BY <1>1, <1>5
      <3>2. phys_to_virt(m.res) = g
        BY <1>3, <3>1, LinkFacts
      <3> QED BY <3>1, <3>2
    <2>2. Linked(Link(f)) = f /\ valid(Link(f))
      BY <1>3, <2>1, LinkFacts
    <2> HIDE DEF f
    <2>3. Entries(m.pages, r + FirstFrame, index)[l] = entry
      <3> DEFINE e == Entries(m.pages, r + FirstFrame, index)
      <3>0. Steps(e, m.pages, r, index)
        BY <1>3, EntrySteps
      <3>1. e[l] = IF valid(e[l + 1]) THEN m.pages[Linked(e[l + 1])][index[l]] ELSE 0
        BY <1>0, <3>0 DEF Steps
      <3> HIDE DEF e
      <3>2. e[l + 1] = Link(f)
        BY <2>1 DEF e
      <3>3. e[l] = m.pages[f][index[l]]
        BY <2>2, <3>1, <3>2
      <3> QED BY <3>3 DEF e
    <2>4. CASE valid(entry)
      <3> DEFINE k == [m EXCEPT !.res = shl(shr(entry, PageShift), PageShift)]
      <3>1. Enter(m, i, ppn) = k
        BY <1>5, <2>4 DEF Enter, f
      <3>2. /\ k = [pages |-> k.pages, nalloc |-> k.nalloc, res |-> k.res, stopped |-> k.stopped]
            /\ k.pages = m.pages /\ k.nalloc = m.nalloc /\ k.stopped = m.stopped
            /\ k.res = shl(shr(entry, PageShift), PageShift)
        BY <1>2
      <3> HIDE DEF k
      <3>3. PICK g \in 0..(m.nalloc - 1) : entry = Link(g) /\ depth[g] = l - 1
        BY <1>0, <1>1, <2>1, <2>4 DEF Tree, LinksDown
      <3>4. k.res = shl(g + FirstFrame, PageShift)
        BY <1>3, <3>2, <3>3, LinkFacts
      <3>5. \E h \in 0..(m.nalloc - 1) :
              /\ k.res = shl(h + FirstFrame, PageShift) /\ depth[h] = l - 1
              /\ Entries(m.pages, r + FirstFrame, index)[l] = Link(h)
        BY <2>3, <3>3, <3>4
      <3> HIDE DEF entry
      <3>6. OnItsWay(k, R, r, index, ppn, l)
        BY <1>1, <1>2, <1>5, <3>2, <3>5 DEF OnItsWay
      <3> QED BY <3>1, <3>6
    <2>5. CASE ~ valid(entry) /\ (ppn = NO_MAPPING \/ m.nalloc = NPAGES)
      <3> DEFINE k == [pages |-> m.pages, nalloc |-> m.nalloc, res |-> m.res, stopped |-> TRUE]
      <3>1. Enter(m, i, ppn) = k
        <4>1. Enter(m, i, ppn) = [m EXCEPT !.stopped = TRUE]
          BY <1>5, <2>5 DEF Enter, f
        <4>2. [m EXCEPT !.stopped = TRUE] = k
          BY <1>2, SetStopped, Zenon
        <4> QED BY <4>1, <4>2
      <3>2. /\ k = [pages |-> k.pages, nalloc |-> k.nalloc, res |-> k.res, stopped |-> k.stopped]
            /\ k.pages = m.pages /\ k.nalloc = m.nalloc /\ k.stopped = TRUE
        OBVIOUS
      <3> HIDE DEF k
      <3>3. ~ valid(Entries(m.pages, r + FirstFrame, index)[0])
        BY <1>0, <1>3, <2>3, <2>5, WalkValid
      <3>4. Answer(m.pages, r + FirstFrame, index) = NO_MAPPING
        BY <3>3 DEF Answer, Read
      <3>5. Answer(pages, r + FirstFrame, index) = NO_MAPPING
        BY <1>2, <3>4
      <3>6. OnItsWay(k, R, r, index, ppn, l)
        BY <1>1, <1>2, <3>2, <3>5 DEF OnItsWay
      <3> QED BY <3>1, <3>6
    <2>6. CASE ~ valid(entry) /\ ~ (ppn = NO_MAPPING \/ m.nalloc = NPAGES)
      <3> DEFINE n == m.nalloc
                 c == Grown(m.pages, n, f, i)
                 d == Deeper(depth, n, depth[f] - 1)
                 k == [pages |-> c, nalloc |-> n + 1,
                       res |-> shl(shr(Link(n), PageShift), PageShift), stopped |-> FALSE]
      <3>0. n < NPAGES /\ n \in 0..(NPAGES - 1) /\ n \in 0..((n + 1) - 1) /\ depth[f] > 0
            /\ f \in 0..n /\ f # n
        BY <1>0, <1>3, <2>1, <2>6
      <3>1. Enter(m, i, ppn) = k
        BY <1>5, <2>6 DEF Enter, f, Grown
      <3>2. Tree(c, n + 1, d, R)
        BY <1>0, <1>1, <2>1, <2>6, <3>0, GrownTree
      <3>3. \A s \in R, other \in Path :
              Answer(c, s + FirstFrame, other) = Answer(m.pages, s + FirstFrame, other)
        BY <1>0, <1>1, <2>1, <2>6, <3>0, GrownAnswers
      <3>4. Entries(c, r + FirstFrame, index)[l] = Link(n)
        <4> DEFINE e == Entries(c, r + FirstFrame, index)
        <4>0. Steps(e, c, r, index)
          BY <1>3, EntrySteps
        <4>1. e[l] = IF valid(e[l + 1]) THEN c[Linked(e[l + 1])][index[l]] ELSE 0
          BY <1>0, <4>0 DEF Steps
        <4>2. e[l + 1] = Link(f)
          BY <1>0, <1>1, <2>1, <2>6, <3>0, GrownWalk
        <4>3. c[f][i] = Link(n)
          <5>1. m.pages[f] \in [Index -> 0..(Word - 1)]
            BY <1>1, <2>1 DEF Tree, Typed
          <5> QED BY <1>0, <3>0, <5>1 DEF Grown
        <4> HIDE DEF e, c
        <4> QED BY <2>2, <4>1, <4>2, <4>3 DEF e
      <3>5. k.res = shl(n + FirstFrame, PageShift) /\ d[n] = l - 1
        BY <2>1, <3>0, LinkFacts DEF Deeper
      <3>6. /\ k = [pages |-> k.pages, nalloc |-> k.nalloc, res |-> k.res, stopped |-> k.stopped]
            /\ k.pages = c /\ k.nalloc = n + 1 /\ k.stopped = FALSE
        OBVIOUS
      <3> HIDE DEF k, c, d
      <3>7. OnItsWay(k, R, r, index, ppn, l)
        BY <1>2, <3>0, <3>2, <3>3, <3>4, <3>5, <3>6 DEF OnItsWay
      <3> QED BY <3>1, <3>7
    <2> QED BY <2>4, <2>5, <2>6
  <1> QED BY <1>2, <1>4, <1>5

\* The walk of an update, from the root's level down to the leaf's.
LEMMA DescentArrives ==
  ASSUME NEW depth, NEW R, Tree(pages, nalloc, depth, R),
         NEW r \in R, NEW index \in Path, NEW ppn
  PROVE  OnItsWay(Descent(r + FirstFrame, index, ppn)[1], R, r, index, ppn, 1)
  <1> DEFINE w == Descent(r + FirstFrame, index, ppn)
             S == {l \in 0..(Levels - 1) : OnItsWay(w[l + 1], R, r, index, ppn, l + 1)}
             first == [pages |-> pages, nalloc |-> nalloc,
                       res |-> shl(r + FirstFrame, PageShift), stopped |-> FALSE]
  <1>0. /\ Levels - 1 \in Nat /\ Levels \in Nat /\ (Levels - 1) + 1 = Levels /\ 0 + 1 = 1
        /\ r \in 0..(nalloc - 1) /\ r \in 0..(NPAGES - 1) /\ depth[r] = Levels - 1
    BY WordParts DEF Tree, Typed
  <1>1. \A level \in 1..Levels :
          w[level] = IF level = Levels THEN first ELSE Enter(w[level + 1], index[level], ppn)
    BY DescentDef
  <1> HIDE DEF w
  <1>2. Levels - 1 \in S
    <2>1. w[Levels] = first
      <3>1. Levels \in 1..Levels
        BY <1>0
      <3> HIDE DEF first
      <3> QED BY <1>1, <3>1
    <2>2. Entries(pages, r + FirstFrame, index)[Levels] = Link(r)
      <3>1. Steps(Entries(pages, r + FirstFrame, index), pages, r, index)
        BY <1>0, EntrySteps
      <3> QED BY <3>1 DEF Steps
    <2>3. /\ first = [pages |-> first.pages, nalloc |-> first.nalloc, res |-> first.res,
                      stopped |-> first.stopped]
          /\ first.pages = pages /\ first.nalloc = nalloc /\ first.stopped = FALSE
          /\ first.res = shl(r + FirstFrame, PageShift)
      OBVIOUS
    <2> HIDE DEF first
    <2>4. OnItsWay(first, R, r, index, ppn, Levels)
      BY <1>0, <2>2, <2>3 DEF OnItsWay
    <2> QED BY <1>0, <2>1, <2>4
  <1>3. ASSUME NEW l \in 0..((Levels - 1) - 1), l + 1 \in S PROVE l \in S
    <2>1. /\ l + 1 \in 1..(Levels - 1) /\ l + 1 # Levels /\ l + 1 \in 1..Levels
          /\ l \in 0..(Levels - 1)
      BY <1>0
    <2>2. OnItsWay(w[(l + 1) + 1], R, r, index, ppn, (l + 1) + 1)
      BY <1>3
    <2>3. OnItsWay(Enter(w[(l + 1) + 1], index[l + 1], ppn), R, r, index, ppn, l + 1)
      BY <2>1, <2>2, EnterKeepsWay
    <2>4. w[l + 1] = Enter(w[(l + 1) + 1], index[l + 1], ppn)
      BY <1>1, <2>1
    <2> QED BY <2>1, <2>3, <2>4
  <1> HIDE DEF S
  <1>4. 0 \in S
    BY <1>0, <1>2, <1>3, InductionDown
  <1> QED BY <1>0, <1>4 DEF S, w

\* The memory an update leaves, whichever of both programs makes it.
Updated(m, i, ppn) ==
  IF m.stopped THEN m.pages ELSE [m.pages EXCEPT ![phys_to_virt(m.res)][i] = Leaf(ppn)]

\* An update keeps the forest, changes the answer for its own page of its own table, and,
\* when memory runs out, none.
LEMMA UpdateAnswers ==
  ASSUME NEW depth, NEW R, Tree(pages, nalloc, depth, R),
         NEW r \in R, NEW index \in Path, NEW ppn,
         ppn = NO_MAPPING \/ ppn \in 0..(Frames - 1), NO_MAPPING \notin Nat
  PROVE  LET m == Descent(r + FirstFrame, index, ppn)[1]
             c == Updated(m, index[0], ppn)
         IN /\ m.stopped \in BOOLEAN
            /\ \E d : Tree(c, m.nalloc, d, R)
            /\ \A s \in R, other \in Path :
                 /\ s = r /\ other = index /\ ~ (m.stopped /\ ppn # NO_MAPPING) =>
                      Answer(c, s + FirstFrame, other) = ppn
                 /\ s # r \/ other # index \/ (m.stopped /\ ppn # NO_MAPPING) =>
                      Answer(c, s + FirstFrame, other) = Answer(pages, s + FirstFrame, other)
  <1> DEFINE m == Descent(r + FirstFrame, index, ppn)[1]
             c == Updated(m, index[0], ppn)
  <1>1. OnItsWay(m, R, r, index, ppn, 1)
    BY DescentArrives
  <1> HIDE DEF m
  <1>2. PICK d :
          /\ Tree(m.pages, m.nalloc, d, R)
          /\ ~ m.stopped => \E f \in 0..(m.nalloc - 1) :
               /\ m.res = shl(f + FirstFrame, PageShift) /\ d[f] = 1 - 1
               /\ Entries(m.pages, r + FirstFrame, index)[1] = Link(f)
    BY <1>1 DEF OnItsWay
  <1>3. /\ m.stopped \in BOOLEAN
        /\ \A s \in R, other \in Path :
             Answer(m.pages, s + FirstFrame, other) = Answer(pages, s + FirstFrame, other)
        /\ m.stopped /\ ppn = NO_MAPPING => Answer(pages, r + FirstFrame, index) = NO_MAPPING
    BY <1>1 DEF OnItsWay
  <1>4. CASE m.stopped
    <2>1. c = m.pages
      BY <1>4 DEF Updated
    <2> HIDE DEF c
    <2> QED BY <1>2, <1>3, <1>4, <2>1 DEF m, c
  <1>5. CASE ~ m.stopped
    <2>1. PICK f \in 0..(m.nalloc - 1) :
            /\ m.res = shl(f + FirstFrame, PageShift) /\ d[f] = 0
            /\ Entries(m.pages, r + FirstFrame, index)[1] = Link(f)
      BY <1>2, <1>5
    <2>2. f \in 0..(NPAGES - 1)
      BY <1>2, WordParts DEF Tree, Typed
    <2>3. phys_to_virt(m.res) = f
      BY <2>1, <2>2, LinkFacts
    <2>4. c = Written(m.pages, f, index[0], Leaf(ppn))
      BY <1>5, <2>3 DEF Updated, Written
    <2> HIDE DEF c
    <2>5. /\ Leaf(ppn) \in 0..(Word - 1)
          /\ Read(Leaf(ppn)) = ppn
      BY LeafFacts
    <2>6. index[0] \in Index
      BY WordParts DEF Path
    <2>7. Tree(c, m.nalloc, d, R)
      BY <1>2, <2>1, <2>4, <2>5, <2>6, WrittenTree
    <2>8. ASSUME NEW s \in R, NEW other \in Path
          PROVE  /\ s = r /\ other = index => Answer(c, s + FirstFrame, other) = ppn
                 /\ s # r \/ other # index =>
                      Answer(c, s + FirstFrame, other) = Answer(pages, s + FirstFrame, other)
      <3>1. /\ s = r /\ other = index => Answer(c, s + FirstFrame, other) = Read(Leaf(ppn))
            /\ s # r \/ other # index =>
                 Answer(c, s + FirstFrame, other) = Answer(m.pages, s + FirstFrame, other)
        <4>1. Tree(m.pages, m.nalloc, d, R) /\ d[f] = 0
              /\ Entries(m.pages, r + FirstFrame, index)[1] = Link(f)
          BY <1>2, <2>1
        <4> DEFINE e == m.pages
                   n == m.nalloc
                   w == Leaf(ppn)
        <4>2. c = Written(e, f, index[0], w)
          BY <2>4
        <4>3. Tree(e, n, d, R) /\ f \in 0..(n - 1) /\ d[f] = 0
              /\ Entries(e, r + FirstFrame, index)[1] = Link(f)
          BY <4>1
        <4> HIDE DEF e, n, w
        <4>4. /\ s = r /\ other = index => Answer(c, s + FirstFrame, other) = Read(w)
              /\ ~ (s = r /\ other = index) =>
                   Answer(c, s + FirstFrame, other) = Answer(e, s + FirstFrame, other)
          BY <4>2, <4>3, WrittenAnswers
        <4> QED BY <4>4 DEF e, w
      <3> QED BY <1>3, <2>5, <3>1
    <2> QED BY <1>3, <1>5, <2>7, <2>8 DEF m, c
  <1> QED BY <1>3, <1>4, <1>5

-----------------------------------------------------------------------------
(* pt.c.                                                                   *)

\* Two page numbers that validVPN accepts have different indices.  Of the 57 bits it
\* accepts the code looks at the lower 45 only.
Apart == \A v, w \in VPN : validVPN(v) /\ validVPN(w) /\ Indices(v) = Indices(w) => v = w

RootsDiffer == \A t, u \in Tables : root[t] = root[u] => t = u

\* The inductive invariant.
IInv == TypeOK /\ RootsDiffer /\ \E depth : Tree(pages, nalloc, depth, Roots)

LEMMA IndexPath ==
  ASSUME NEW vpn \in VPN
  PROVE  Indices(vpn) \in Path /\ LevelIndex(vpn, 0) = Indices(vpn)[0]
  <1>1. vpn \in Nat
    BY PageAssumption, WordParts
  <1>2. 2 ^ IndexBits \in Nat /\ 2 ^ IndexBits >= 1 /\ Levels - 1 \in Nat
    BY PowerOfTwo, WordParts
  <1>3. ASSUME NEW level \in 0..(Levels - 1) PROVE LevelIndex(vpn, level) \in Index
    <2>1. IndexBits * level \in Nat
      BY <1>2, WordParts
    <2> DEFINE n == IndexBits * level
               D == 2 ^ n
               I == 2 ^ IndexBits
    <2>2. D \in Nat /\ D >= 1
      BY <2>1, PowerOfTwo
    <2>3. I \in Nat /\ I >= 1
      BY <1>2
    <2>4. LevelIndex(vpn, level) = (vpn \div D) % I /\ Index = 0..(I - 1)
      BY DEF LevelIndex, shr, Index
    <2> HIDE DEF D, I
    <2>5. vpn \div D \in Nat
      BY <1>1, <2>2
    <2> QED BY <2>3, <2>4, <2>5
  <1>4. Indices(vpn) = [level \in 0..(Levels - 1) |-> LevelIndex(vpn, level)]
    BY DEF Indices
  <1>5. 0 \in 0..(Levels - 1)
    BY <1>2
  <1> QED BY <1>3, <1>4, <1>5 DEF Path

LEMMA QueryIs ==
  ASSUME NEW pt, NEW vpn
  PROVE  page_table_query(pt, vpn)
           = IF validVPN(vpn) THEN Answer(pages, pt, Indices(vpn)) ELSE NO_MAPPING
  BY DEF page_table_query, Answer, Read

\* The roots are frames, and a table's root is where its walks begin.
LEMMA RootFrames ==
  ASSUME TypeOK
  PROVE  \A t \in Tables : /\ root[t] - FirstFrame \in Roots
                           /\ (root[t] - FirstFrame) + FirstFrame = root[t]
                           /\ root[t] - FirstFrame \in 0..(nalloc - 1)
  BY WordParts DEF TypeOK, Tables, Roots

LEMMA InitIInv == Init => IInv
  <1> SUFFICES ASSUME Init PROVE IInv
    OBVIOUS
  <1>1. /\ pages = [f \in {} |-> ZeroPage] /\ nalloc = 0 /\ running = TRUE
        /\ root = [t \in Table |-> NO_MAPPING] /\ NPAGES \in Nat
    BY WordParts DEF Init, MemInit
  <1>2. 0..(nalloc - 1) = {} /\ Tables = {} /\ Roots = {}
    BY <1>1 DEF Tables, Roots
  <1>3. TypeOK
    BY <1>1, <1>2 DEF TypeOK
  <1> DEFINE depth == [f \in {} |-> 0]
  <1>4. Typed(pages, nalloc, depth, Roots)
    BY <1>1, <1>2 DEF Typed
  <1>5. /\ LinksDown(pages, nalloc, depth, Roots) /\ LinksOnce(pages, nalloc, depth)
        /\ AllLinked(pages, nalloc, depth, Roots)
    BY <1>2 DEF LinksDown, LinksOnce, AllLinked
  <1> HIDE DEF depth
  <1>6. Tree(pages, nalloc, depth, Roots)
    BY <1>4, <1>5 DEF Tree
  <1> QED BY <1>2, <1>3, <1>6 DEF IInv, RootsDiffer

\* What the forest says of the types.
LEMMA TreeTyped ==
  ASSUME NEW depth, Tree(pages, nalloc, depth, Roots), running \in BOOLEAN,
         root \in [Table -> {NO_MAPPING} \cup (FirstFrame..(FirstFrame + nalloc - 1))]
  PROVE  TypeOK
  BY DEF Tree, Typed, TypeOK

LEMMA NewTableKeeps ==
  ASSUME IInv, NEW t \in Table, NewTable(t)
  PROVE  /\ IInv'
         /\ Mapping' = Mapping
  <1>1. PICK depth : Tree(pages, nalloc, depth, Roots)
    BY DEF IInv
  <1>2. /\ running /\ root[t] = NO_MAPPING /\ nalloc < NPAGES
        /\ root' = [root EXCEPT ![t] = nalloc + FirstFrame]
        /\ pages' = WithRoot(pages, nalloc) /\ nalloc' = nalloc + 1 /\ running' = running
    BY DEF NewTable, WithRoot
  <1>3. /\ nalloc \in Nat /\ FirstFrame \in Nat /\ NPAGES \in Nat /\ running \in BOOLEAN
        /\ root \in [Table -> {NO_MAPPING} \cup (FirstFrame..(FirstFrame + nalloc - 1))]
    BY WordParts DEF IInv, TypeOK
  <1>4. nalloc + FirstFrame # NO_MAPPING
    BY <1>3, PageAssumption
  <1>5. /\ \A u \in Table : u # t => root'[u] = root[u]
        /\ root'[t] = nalloc + FirstFrame
    BY <1>2, <1>3
  <1>6. Tables' = Tables \cup {t} /\ t \notin Tables
    <2>1. Tables' = {u \in Table : root'[u] # NO_MAPPING}
      BY DEF Tables
    <2> QED BY <1>2, <1>4, <1>5, <2>1 DEF Tables
  <1>7. Roots' = Roots \cup {nalloc}
    <2>1. Roots' = {root'[u] - FirstFrame : u \in Tables'}
      BY DEF Roots
    <2>2. (nalloc + FirstFrame) - FirstFrame = nalloc
      BY <1>3
    <2>3. \A u \in Tables : root'[u] = root[u]
      BY <1>5, <1>6 DEF Tables
    <2> QED BY <1>5, <1>6, <2>1, <2>2, <2>3 DEF Roots
  <1>8. Tree(pages', nalloc', Deeper(depth, nalloc, Levels - 1), Roots')
    BY <1>1, <1>2, <1>7, RootTree
  <1>9. TypeOK'
    <2>1. root' \in [Table -> {NO_MAPPING} \cup (FirstFrame..(FirstFrame + nalloc' - 1))]
      BY <1>2, <1>3
    <2>2. Typed(pages', nalloc', Deeper(depth, nalloc, Levels - 1), Roots')
      BY <1>8 DEF Tree
    <2> QED BY <1>2, <1>3, <2>1, <2>2 DEF TypeOK, Typed
  <1>10. RootsDiffer'
    <2>1. \A u \in Tables : root'[u] = root[u] /\ root[u] \in FirstFrame..(FirstFrame + nalloc - 1)
      BY <1>3, <1>5, <1>6 DEF Tables
    <2>2. \A u \in Tables : root[u] # nalloc + FirstFrame
      BY <1>3, <2>1
    <2>3. ASSUME NEW u \in Tables', NEW w \in Tables', root'[u] = root'[w] PROVE u = w
      BY <1>5, <1>6, <2>1, <2>2, <2>3 DEF IInv, RootsDiffer
    <2> QED BY <2>3 DEF RootsDiffer
  <1>11. Mapping' = Mapping
    <2>1. Mapping' = [tv \in Table \X VPN |->
                        IF root'[tv[1]] = NO_MAPPING THEN NO_MAPPING
                        ELSE page_table_query(root[tv[1]], tv[2])']
      BY DEF Mapping
    <2>2. ASSUME NEW u \in Table, NEW v \in VPN
          PROVE  (IF root'[u] = NO_MAPPING THEN NO_MAPPING ELSE page_table_query(root[u], v)')
                   = (IF root[u] = NO_MAPPING THEN NO_MAPPING ELSE page_table_query(root[u], v))
      <3>1. Indices(v) \in Path
        BY IndexPath
      <3>2. page_table_query(root[u], v)'
              = IF validVPN(v) THEN Answer(pages', root'[u], Indices(v)) ELSE NO_MAPPING
        BY DEF page_table_query, Answer, Read
      <3>3. CASE u = t
        <4>1. Answer(WithRoot(pages, nalloc), nalloc + FirstFrame, Indices(v)) = NO_MAPPING
          BY <1>1, <1>2, <3>1, RootAnswers
        <4> QED BY <1>2, <1>5, <3>2, <3>3, <4>1
      <3>4. CASE u # t /\ root[u] = NO_MAPPING
        BY <1>5, <3>4
      <3>5. CASE u # t /\ root[u] # NO_MAPPING
        <4>1. u \in Tables
          BY <3>5 DEF Tables
        <4>2. root[u] - FirstFrame \in Roots /\ (root[u] - FirstFrame) + FirstFrame = root[u]
          BY <4>1, RootFrames DEF IInv
        <4> DEFINE s == root[u] - FirstFrame
        <4>3. s \in Roots /\ s + FirstFrame = root[u]
          BY <4>2
        <4> HIDE DEF s
        <4>4. Answer(WithRoot(pages, nalloc), s + FirstFrame, Indices(v))
                = Answer(pages, s + FirstFrame, Indices(v))
          BY <1>1, <1>2, <3>1, <4>3, RootAnswers
        <4> QED BY <1>2, <1>5, <3>2, <3>5, <4>3, <4>4, QueryIs
      <3> QED BY <3>3, <3>4, <3>5
    <2> QED BY <2>1, <2>2 DEF Mapping
  <1> QED BY <1>8, <1>9, <1>10, <1>11 DEF IInv

LEMMA QueryIsNext ==
  \A u, v : page_table_query(root[u], v)'
              = IF validVPN(v) THEN Answer(pages', root'[u], Indices(v)) ELSE NO_MAPPING
  BY DEF page_table_query, Answer, Read

\* A step that leaves memory and roots alone.
LEMMA SameTables ==
  ASSUME IInv, pages' = pages, nalloc' = nalloc, root' = root, running' \in BOOLEAN
  PROVE  IInv' /\ Mapping' = Mapping
  <1>1. Tables' = Tables
    BY DEF Tables
  <1>2. Roots' = Roots
    BY <1>1 DEF Roots
  <1>3. TypeOK' /\ RootsDiffer'
    BY <1>1 DEF IInv, TypeOK, RootsDiffer
  <1>4. IInv'
    BY <1>2, <1>3 DEF IInv
  <1>5. Mapping' = Mapping
    BY QueryIs, QueryIsNext DEF Mapping
  <1> QED BY <1>4, <1>5

\* An update along a path, by either program, as the queries of every table see it.
LEMMA UpdateMemory ==
  ASSUME IInv, NEW t \in Tables, NEW index \in Path, NEW ppn \in PPN \cup {NO_MAPPING},
         root' = root,
         LET m == Descent(root[t], index, ppn)[1]
         IN /\ pages' = Updated(m, index[0], ppn) /\ nalloc' = m.nalloc
            /\ running' = ~ (m.stopped /\ ppn # NO_MAPPING)
  PROVE  /\ IInv'
         /\ \A u \in Tables, other \in Path :
              /\ u = t /\ other = index /\ running' => Answer(pages', root[u], other) = ppn
              /\ u # t \/ other # index \/ ~ running' =>
                   Answer(pages', root[u], other) = Answer(pages, root[u], other)
  <1> DEFINE r == root[t] - FirstFrame
             m == Descent(r + FirstFrame, index, ppn)[1]
             c == Updated(m, index[0], ppn)
  <1>1. PICK depth : Tree(pages, nalloc, depth, Roots)
    BY DEF IInv
  <1>2. /\ running \in BOOLEAN /\ TypeOK /\ RootsDiffer
        /\ root \in [Table -> {NO_MAPPING} \cup (FirstFrame..(FirstFrame + nalloc - 1))]
    BY DEF IInv, TypeOK
  <1>3. r \in Roots /\ r + FirstFrame = root[t]
    BY <1>2, RootFrames
  <1>4. Roots' = Roots /\ Tables' = Tables /\ RootsDiffer'
    BY <1>2 DEF Roots, Tables, RootsDiffer
  <1>5. /\ pages' = c /\ nalloc' = m.nalloc /\ running' = ~ (m.stopped /\ ppn # NO_MAPPING)
    BY <1>3
  <1>6. ppn = NO_MAPPING \/ ppn \in 0..(Frames - 1)
    BY PageAssumption DEF Frames
  <1>7. /\ m.stopped \in BOOLEAN
        /\ \E d : Tree(c, m.nalloc, d, Roots)
        /\ \A s \in Roots, other \in Path :
             /\ s = r /\ other = index /\ ~ (m.stopped /\ ppn # NO_MAPPING) =>
                  Answer(c, s + FirstFrame, other) = ppn
             /\ s # r \/ other # index \/ (m.stopped /\ ppn # NO_MAPPING) =>
                  Answer(c, s + FirstFrame, other) = Answer(pages, s + FirstFrame, other)
    <2> HIDE DEF r
    <2> QED BY <1>1, <1>3, <1>6, PageAssumption, UpdateAnswers DEF m, c
  <1> HIDE DEF m, c, r
  <1>8. PICK d : Tree(pages', nalloc', d, Roots')
    BY <1>4, <1>5, <1>7
  <1>9. TypeOK'
    <2>1. Typed(pages', nalloc', d, Roots') /\ running' \in BOOLEAN
      BY <1>5, <1>8 DEF Tree
    <2>2. ASSUME NEW u \in Tables PROVE root[u] \in FirstFrame..(FirstFrame + nalloc' - 1)
      <3>1. root[u] - FirstFrame \in Roots' /\ (root[u] - FirstFrame) + FirstFrame = root[u]
        BY <1>2, <1>4, RootFrames
      <3>2. root[u] - FirstFrame \in 0..(nalloc' - 1)
        BY <2>1, <3>1 DEF Typed
      <3>3. root[u] \in Int /\ nalloc' \in Nat
        BY <1>2, <2>1, <2>2, WordParts DEF Tables, Typed
      <3> QED BY <3>2, <3>3, WordParts
    <2>3. root' \in [Table -> {NO_MAPPING} \cup (FirstFrame..(FirstFrame + nalloc' - 1))]
      BY <1>2, <2>2 DEF Tables
    <2> QED BY <2>1, <2>3 DEF Typed, TypeOK
  <1>10. ASSUME NEW u \in Tables, NEW other \in Path
         PROVE  /\ u = t /\ other = index /\ running' => Answer(pages', root[u], other) = ppn
                /\ u # t \/ other # index \/ ~ running' =>
                     Answer(pages', root[u], other) = Answer(pages, root[u], other)
    <2> DEFINE s == root[u] - FirstFrame
    <2>1. s \in Roots /\ s + FirstFrame = root[u]
      BY <1>2, RootFrames
    <2>2. u = t => s = r
      BY DEF s, r
    <2> HIDE DEF s
    <2>3. u # t => s # r
      BY <1>2, <1>3, <2>1 DEF RootsDiffer
    <2> QED BY <1>5, <1>7, <2>1, <2>2, <2>3
  <1> QED BY <1>4, <1>8, <1>9, <1>10 DEF IInv

\* The mapping before and after an update of page vpn of table t.
LEMMA UpdateKeeps ==
  ASSUME IInv, NEW t \in Table, NEW vpn \in VPN, NEW ppn \in PPN \cup {NO_MAPPING},
         page_table_update(t, vpn, ppn)
  PROVE  /\ IInv'
         /\ Apart => \/ Mapping' = Mapping
                     \/ Mapping' = [Mapping EXCEPT ![<<t, vpn>>] = ppn]
  <1>1. /\ t \in Tables /\ root' = root /\ Indices(vpn) \in Path
        /\ LevelIndex(vpn, 0) = Indices(vpn)[0] /\ running \in BOOLEAN
    BY IndexPath DEF page_table_update, Tables, IInv, TypeOK
  <1>2. CASE ~ validVPN(vpn) \/ shl(root[t], PageShift) = 0
    BY <1>1, <1>2, SameTables DEF page_table_update
  <1>3. CASE validVPN(vpn) /\ shl(root[t], PageShift) # 0
    <2>1. LET m == Descent(root[t], Indices(vpn), ppn)[1]
          IN /\ pages' = Updated(m, Indices(vpn)[0], ppn) /\ nalloc' = m.nalloc
             /\ running' = ~ (m.stopped /\ ppn # NO_MAPPING)
      BY <1>1, <1>3 DEF page_table_update, Updated
    <2> DEFINE index == Indices(vpn)
    <2>2. /\ IInv'
          /\ \A u \in Tables, other \in Path :
               /\ u = t /\ other = index /\ running' => Answer(pages', root[u], other) = ppn
               /\ u # t \/ other # index \/ ~ running' =>
                    Answer(pages', root[u], other) = Answer(pages, root[u], other)
      <3> HIDE DEF index
      <3> QED BY <1>1, <2>1, UpdateMemory DEF index
    <2>3. ASSUME Apart
          PROVE  \/ Mapping' = Mapping
                 \/ Mapping' = [Mapping EXCEPT ![<<t, vpn>>] = ppn]
      <3> DEFINE Old(tv) == IF root[tv[1]] = NO_MAPPING THEN NO_MAPPING
                            ELSE IF validVPN(tv[2])
                                 THEN Answer(pages, root[tv[1]], Indices(tv[2]))
                            ELSE NO_MAPPING
                 New(tv) == IF root[tv[1]] = NO_MAPPING THEN NO_MAPPING
                            ELSE IF validVPN(tv[2])
                                 THEN Answer(pages', root[tv[1]], Indices(tv[2]))
                            ELSE NO_MAPPING
      <3>1. Mapping = [tv \in Table \X VPN |-> Old(tv)]
        BY QueryIs DEF Mapping
      <3>2. Mapping' = [tv \in Table \X VPN |-> New(tv)]
        BY <1>1, QueryIsNext DEF Mapping
      <3>3. ASSUME NEW u \in Table, NEW v \in VPN
            PROVE  /\ u = t /\ v = vpn /\ running' => New(<<u, v>>) = ppn
                   /\ u # t \/ v # vpn \/ ~ running' => New(<<u, v>>) = Old(<<u, v>>)
        <4>1. u \in Tables <=> root[u] # NO_MAPPING
          BY DEF Tables
        <4>2. Indices(v) \in Path
          BY IndexPath
        <4>3. v # vpn /\ validVPN(v) => Indices(v) # index
          BY <1>3, <2>3 DEF Apart
        <4> HIDE DEF index
        <4>4. v = vpn => Indices(v) = index
          BY DEF index
        <4> QED BY <1>1, <1>3, <2>2, <4>1, <4>2, <4>3, <4>4
      <3>4. <<t, vpn>> \in Table \X VPN /\ t \in Table
        OBVIOUS
      <3>5. \A tv \in Table \X VPN : tv = <<tv[1], tv[2]>> /\ tv[1] \in Table /\ tv[2] \in VPN
        OBVIOUS
      <3> HIDE DEF New, Old
      <3>6. CASE running'
        <4>1. New(<<t, vpn>>) = ppn
          BY <3>3, <3>6
        <4>2. ASSUME NEW tv \in Table \X VPN, tv # <<t, vpn>> PROVE New(tv) = Old(tv)
          <5>1. tv[1] # t \/ tv[2] # vpn
            BY <3>5, <4>2
          <5>2. New(<<tv[1], tv[2]>>) = Old(<<tv[1], tv[2]>>)
            BY <3>3, <3>5, <5>1
          <5> QED BY <3>5, <5>2
        <4> QED BY <3>1, <3>2, <3>4, <4>1, <4>2
      <3>7. CASE ~ running'
        <4>1. ASSUME NEW tv \in Table \X VPN PROVE New(tv) = Old(tv)
          <5>1. New(<<tv[1], tv[2]>>) = Old(<<tv[1], tv[2]>>)
            BY <3>3, <3>5, <3>7
          <5> QED BY <3>5, <5>1
        <4> QED BY <3>1, <3>2, <4>1
      <3> QED BY <3>6, <3>7
    <2> QED BY <2>2, <2>3
  <1> QED BY <1>2, <1>3

-----------------------------------------------------------------------------
(* What Forest counts.                                                     *)

LEMMA NodesDef ==
  ASSUME NEW t
  PROVE  /\ NodesOfLevel(t)[Levels - 1] = {root[t] - FirstFrame}
         /\ \A l \in 0..(Levels - 1) :
              NodesOfLevel(t)[l] =
                IF l = Levels - 1 THEN {root[t] - FirstFrame}
                ELSE {Linked(pages[e[1]][e[2]]) : e \in
                        {d \in NodesOfLevel(t)[l + 1] \X Index : valid(pages[d[1]][d[2]])}}
  <1> DEFINE Below(x) == {Linked(pages[e[1]][e[2]]) : e \in
                            {d \in x \X Index : valid(pages[d[1]][d[2]])}}
             top == Levels - 1
             Part(f, l) == f = [k \in l..top |-> IF k = top THEN {root[t] - FirstFrame}
                                                 ELSE Below(f[k + 1])]
             S == {l \in 0..top : \E f : Part(f, l)}
  <1> HIDE DEF Below
  <1>0. top \in Nat
    BY WordParts
  <1>1. top \in S
    <2> DEFINE f == [k \in top..top |-> {root[t] - FirstFrame}]
    <2>1. Part(f, top)
      BY <1>0
    <2> HIDE DEF f
    <2> QED BY <1>0, <2>1
  <1>2. ASSUME NEW l \in 0..(top - 1), l + 1 \in S PROVE l \in S
    <2>1. PICK f : Part(f, l + 1)
      BY <1>2
    <2> DEFINE g == [k \in l..top |-> IF k = l THEN Below(f[l + 1]) ELSE f[k]]
    <2>2. ASSUME NEW k \in l..top
          PROVE  g[k] = IF k = top THEN {root[t] - FirstFrame} ELSE Below(g[k + 1])
      <3>1. CASE k = l
        BY <1>0, <3>1
      <3>2. CASE k # l
        <4>1. k \in (l + 1)..top /\ g[k] = f[k]
          BY <1>0, <3>2
        <4>2. k # top => k + 1 \in l..top /\ k + 1 # l /\ g[k + 1] = f[k + 1]
          BY <1>0, <4>1
        <4> HIDE DEF g
        <4> QED BY <2>1, <4>1, <4>2
      <3> QED BY <3>1, <3>2
    <2>3. Part(g, l)
      BY <2>2
    <2> HIDE DEF g
    <2> QED BY <1>0, <2>3
  <1> HIDE DEF S, top
  <1>3. 0 \in S
    BY <1>0, <1>1, <1>2, InductionDown
  <1>4. \E f : Part(f, 0)
    BY <1>3 DEF S
  <1> DEFINE e == CHOOSE f : Part(f, 0)
  <1>5. Part(e, 0)
    BY <1>4
  <1>6. NodesOfLevel(t) = e
    BY DEF NodesOfLevel, Below, top
  <1> HIDE DEF e
  <1>7. \A l \in 0..top : e[l] = IF l = top THEN {root[t] - FirstFrame} ELSE Below(e[l + 1])
    BY <1>5
  <1>8. e[top] = {root[t] - FirstFrame}
    BY <1>0, <1>7
  <1> QED BY <1>6, <1>7, <1>8 DEF Below, top

\* What an entry that a walk can take leads to.
LEMMA LinkDown ==
  ASSUME NEW depth, Tree(pages, nalloc, depth, Roots),
         NEW f \in 0..(nalloc - 1), NEW i \in Index, depth[f] > 0, valid(pages[f][i])
  PROVE  /\ Linked(pages[f][i]) \in (0..(nalloc - 1)) \ Roots
         /\ pages[f][i] = Link(Linked(pages[f][i]))
         /\ depth[Linked(pages[f][i])] = depth[f] - 1
  <1>1. PICK g \in (0..(nalloc - 1)) \ Roots : pages[f][i] = Link(g) /\ depth[g] = depth[f] - 1
    BY DEF Tree, LinksDown
  <1>2. g \in 0..(NPAGES - 1)
    BY WordParts DEF Tree, Typed
  <1>3. Linked(pages[f][i]) = g
    BY <1>1, <1>2, LinkFacts
  <1> QED BY <1>1, <1>3

\* The nodes of level l that a table reaches are frames of that depth, ...
LEMMA NodesAreDeep ==
  ASSUME NEW depth, Tree(pages, nalloc, depth, Roots), TypeOK, NEW t \in Tables
  PROVE  \A l \in 0..(Levels - 1) : \A f \in NodesOfLevel(t)[l] :
           f \in 0..(nalloc - 1) /\ depth[f] = l
  <1> DEFINE N == NodesOfLevel(t)
             top == Levels - 1
             S == {l \in 0..top : \A f \in N[l] : f \in 0..(nalloc - 1) /\ depth[f] = l}
  <1>0. top \in Nat
    BY WordParts
  <1>1. top \in S
    <2>1. N[top] = {root[t] - FirstFrame}
      BY NodesDef
    <2>2. root[t] - FirstFrame \in Roots
      BY RootFrames
    <2> QED BY <1>0, <2>1, <2>2 DEF Tree, Typed
  <1>2. ASSUME NEW l \in 0..(top - 1), l + 1 \in S PROVE l \in S
    <2>1. /\ l \in 0..top /\ l # top /\ l + 1 \in Int /\ l + 1 > 0 /\ (l + 1) - 1 = l
      BY <1>0
    <2>2. N[l] = {Linked(pages[e[1]][e[2]]) : e \in
                    {d \in N[l + 1] \X Index : valid(pages[d[1]][d[2]])}}
      BY <2>1, NodesDef
    <2> HIDE DEF N, top
    <2>3. ASSUME NEW f \in N[l] PROVE f \in 0..(nalloc - 1) /\ depth[f] = l
      <3>1. PICK g \in N[l + 1], i \in Index : valid(pages[g][i]) /\ f = Linked(pages[g][i])
        BY <2>2
      <3>2. g \in 0..(nalloc - 1) /\ depth[g] = l + 1
        BY <1>2
      <3>3. depth[g] > 0 /\ depth[g] - 1 = l
        BY <2>1, <3>2
      <3> QED BY <3>1, <3>2, <3>3, LinkDown
    <2> QED BY <2>1, <2>3
  <1> HIDE DEF S, top
  <1>3. \A l \in 0..top : l \in S
    BY <1>0, <1>1, <1>2, InductionDown
  <1> QED BY <1>3 DEF S, top

\* ... and every frame is among those of some table.
LEMMA FramesAreNodes ==
  ASSUME NEW depth, Tree(pages, nalloc, depth, Roots), TypeOK
  PROVE  \A f \in 0..(nalloc - 1) : \E t \in Tables : f \in NodesOfLevel(t)[depth[f]]
  <1> DEFINE top == Levels - 1
             S == {l \in 0..top : \A f \in 0..(nalloc - 1) : depth[f] = l =>
                     \E t \in Tables : f \in NodesOfLevel(t)[l]}
  <1>0. top \in Nat
    BY WordParts
  <1>1. /\ \A f \in 0..(nalloc - 1) : depth[f] \in 0..top
        /\ \A f \in Roots : depth[f] = top
    BY DEF Tree, Typed
  <1>2. ASSUME NEW f \in (0..(nalloc - 1)) \ Roots
        PROVE  \E g \in 0..(nalloc - 1), i \in Index :
                 /\ depth[g] > 0 /\ valid(pages[g][i]) /\ Linked(pages[g][i]) = f
                 /\ depth[g] = depth[f] + 1
    <2>1. PICK g \in 0..(nalloc - 1), i \in Index : depth[g] > 0 /\ pages[g][i] = Link(f)
      BY DEF Tree, AllLinked
    <2>2. f \in 0..(NPAGES - 1)
      BY WordParts DEF Tree, Typed
    <2>3. valid(pages[g][i]) /\ Linked(pages[g][i]) = f
      BY <2>1, <2>2, LinkFacts
    <2>4. depth[f] = depth[g] - 1
      BY <2>1, <2>3, LinkDown
    <2>5. depth[g] = depth[f] + 1
      BY <1>0, <1>1, <2>4
    <2> QED BY <2>1, <2>3, <2>5
  <1>3. top \in S
    <2>1. ASSUME NEW f \in 0..(nalloc - 1), depth[f] = top
          PROVE  \E t \in Tables : f \in NodesOfLevel(t)[top]
      <3>1. f \in Roots
        <4>1. ASSUME f \notin Roots PROVE FALSE
          BY <1>0, <1>1, <1>2, <2>1, <4>1
        <4> QED BY <4>1
      <3>2. PICK t \in Tables : f = root[t] - FirstFrame
        BY <3>1 DEF Roots
      <3>3. NodesOfLevel(t)[top] = {root[t] - FirstFrame}
        BY NodesDef
      <3> QED BY <3>2, <3>3
    <2> QED BY <1>0, <2>1
  <1>4. ASSUME NEW l \in 0..(top - 1), l + 1 \in S PROVE l \in S
    <2>1. l \in 0..top /\ l # top
      BY <1>0
    <2>2. ASSUME NEW f \in 0..(nalloc - 1), depth[f] = l
          PROVE  \E t \in Tables : f \in NodesOfLevel(t)[l]
      <3>1. f \notin Roots
        BY <1>1, <2>1, <2>2
      <3>2. PICK g \in 0..(nalloc - 1), i \in Index :
              /\ valid(pages[g][i]) /\ Linked(pages[g][i]) = f /\ depth[g] = l + 1
        BY <1>2, <2>2, <3>1
      <3>3. PICK t \in Tables : g \in NodesOfLevel(t)[l + 1]
        BY <1>4, <3>2
      <3>4. NodesOfLevel(t)[l] =
              {Linked(pages[e[1]][e[2]]) : e \in
                 {d \in NodesOfLevel(t)[l + 1] \X Index : valid(pages[d[1]][d[2]])}}
        BY <2>1, NodesDef
      <3>5. <<g, i>> \in {d \in NodesOfLevel(t)[l + 1] \X Index : valid(pages[d[1]][d[2]])}
        BY <3>2, <3>3
      <3>6. f = Linked(pages[<<g, i>>[1]][<<g, i>>[2]])
        BY <3>2
      <3> QED BY <3>4, <3>5, <3>6
    <2> QED BY <2>1, <2>2
  <1> HIDE DEF S
  <1>5. \A l \in 0..top : l \in S
    <2> HIDE DEF top
    <2> QED BY <1>0, <1>3, <1>4, InductionDown
  <1> QED BY <1>1, <1>5 DEF S

LEMMA LinksAre ==
  ASSUME NEW depth, Tree(pages, nalloc, depth, Roots), TypeOK
  PROVE  Links = {e \in (0..(nalloc - 1)) \X Index : depth[e[1]] > 0 /\ valid(pages[e[1]][e[2]])}
  <1> SUFFICES ASSUME NEW f \in 0..(nalloc - 1)
               PROVE  depth[f] > 0 <=>
                        \E t \in Tables, l \in 1..(Levels - 1) : f \in NodesOfLevel(t)[l]
    BY DEF Links
  <1>1. Levels \in Nat /\ Levels > 0 /\ depth[f] \in 0..(Levels - 1)
    BY WordParts DEF Tree, Typed
  <1>2. ASSUME depth[f] > 0
        PROVE  \E t \in Tables, l \in 1..(Levels - 1) : f \in NodesOfLevel(t)[l]
    <2>1. depth[f] \in 1..(Levels - 1)
      BY <1>1, <1>2
    <2> QED BY <2>1, FramesAreNodes
  <1>3. ASSUME NEW t \in Tables, NEW l \in 1..(Levels - 1), f \in NodesOfLevel(t)[l]
        PROVE  depth[f] > 0
    <2>1. l \in 0..(Levels - 1) /\ l > 0
      BY <1>1
    <2>2. depth[f] = l
      BY <1>3, <2>1, NodesAreDeep
    <2> QED BY <2>1, <2>2
  <1> QED BY <1>2, <1>3

LEMMA ForestFromTree == IInv => Forest
  <1> SUFFICES ASSUME IInv PROVE Forest
    OBVIOUS
  <1>1. PICK depth : Tree(pages, nalloc, depth, Roots)
    BY DEF IInv
  <1>2. TypeOK /\ RootsDiffer /\ nalloc \in Nat
    BY WordParts DEF IInv, TypeOK
  <1> DEFINE All == 0..(nalloc - 1)
             Rest == All \ Roots
             link == [e \in Links |-> Linked(pages[e[1]][e[2]])]
             base == [t \in Tables |-> root[t] - FirstFrame]
  <1>3. Links = {e \in All \X Index : depth[e[1]] > 0 /\ valid(pages[e[1]][e[2]])}
    BY <1>1, <1>2, LinksAre
  <1>4. \A e \in Links : /\ Linked(pages[e[1]][e[2]]) \in Rest
                         /\ pages[e[1]][e[2]] = Link(Linked(pages[e[1]][e[2]]))
                         /\ depth[e[1]] > 0 /\ valid(pages[e[1]][e[2]])
    BY <1>1, <1>3, LinkDown
  <1>5. ASSUME NEW g \in Rest PROVE \E e \in Links : Linked(pages[e[1]][e[2]]) = g
    <2>1. PICK f \in All, i \in Index : depth[f] > 0 /\ pages[f][i] = Link(g)
      BY <1>1 DEF Tree, AllLinked
    <2>2. g \in 0..(NPAGES - 1)
      BY <1>1, WordParts DEF Tree, Typed
    <2>3. valid(pages[f][i]) /\ Linked(pages[f][i]) = g
      BY <2>1, <2>2, LinkFacts
    <2>4. <<f, i>> \in Links
      BY <1>3, <2>1, <2>3
    <2> QED BY <2>3, <2>4
  <1>6. IsFiniteSet(All) /\ Cardinality(All) = nalloc
    BY <1>2, FS_Interval
  <1>7. Roots \subseteq All
    BY <1>1 DEF Tree, Typed
  <1>8. /\ IsFiniteSet(Rest) /\ IsFiniteSet(Roots)
        /\ Cardinality(Rest) = nalloc - Cardinality(Roots) /\ Cardinality(Roots) \in Nat
    <2>1. All \cap Roots = Roots
      BY <1>7
    <2>2. Rest = All \ Roots
      OBVIOUS
    <2> HIDE DEF All, Rest
    <2>3. IsFiniteSet(Roots)
      BY <1>6, <1>7, FS_Subset
    <2>4. IsFiniteSet(Rest) /\ Cardinality(Rest) = Cardinality(All) - Cardinality(All \cap Roots)
      BY <1>6, <2>2, FS_Difference
    <2> QED BY <1>6, <2>1, <2>3, <2>4, FS_CardinalityType
  <1>9. IsFiniteSet(Links) /\ Cardinality(Links) = Cardinality(Rest)
    <2>1. link \in Injection(Links, Rest)
      <3>1. link \in [Links -> Rest]
        BY <1>4
      <3>2. ASSUME NEW d \in Links, NEW e \in Links, link[d] = link[e] PROVE d = e
        <4>1. pages[d[1]][d[2]] = pages[e[1]][e[2]]
          BY <1>4, <3>2
        <4>2. /\ d[1] \in All /\ d[2] \in Index /\ d = <<d[1], d[2]>>
              /\ e[1] \in All /\ e[2] \in Index /\ e = <<e[1], e[2]>>
          BY <1>3
        <4>3. d[1] = e[1] /\ d[2] = e[2]
          BY <1>1, <1>4, <4>1, <4>2 DEF Tree, LinksOnce
        <4> QED BY <4>2, <4>3
      <3> HIDE DEF link
      <3> QED BY <3>1, <3>2 DEF Injection, IsInjective
    <2>2. link \in Surjection(Links, Rest)
      BY <1>4, <1>5 DEF Surjection
    <2> HIDE DEF link, Rest
    <2> QED BY <1>8, <2>1, <2>2, FS_Injection
  <1>10. Cardinality(Tables) = Cardinality(Roots)
    <2>1. base \in Injection(Tables, Roots)
      <3>1. base \in [Tables -> Roots]
        BY DEF Roots
      <3>2. ASSUME NEW t \in Tables, NEW u \in Tables, base[t] = base[u] PROVE t = u
        <4>1. root[t] = root[u]
          BY <1>2, <3>2, RootFrames
        <4> QED BY <1>2, <4>1 DEF RootsDiffer
      <3> HIDE DEF base
      <3> QED BY <3>1, <3>2 DEF Injection, IsInjective
    <2>2. base \in Surjection(Tables, Roots)
      BY DEF Surjection, Roots
    <2> HIDE DEF base
    <2> QED BY <1>8, <2>1, <2>2, FS_Injection
  <1>11. Cardinality(Links) + Cardinality(Tables) = nalloc
    BY <1>2, <1>8, <1>9, <1>10
  <1>12. {Linked(pages[e[1]][e[2]]) : e \in Links} \cup Roots = 0..(nalloc - 1)
    BY <1>4, <1>5, <1>7
  <1> QED BY <1>2, <1>11, <1>12 DEF Forest

-----------------------------------------------------------------------------
\* The frames are the nodes of a forest whose roots are the tables' roots.
THEOREM PageInvariant == Spec => []IInv
<1>1. IInv /\ [Next]_vars => IInv'
  <2> SUFFICES ASSUME IInv, [Next]_vars PROVE IInv'
    OBVIOUS
  <2>1. ASSUME NEW t \in Table, NewTable(t) PROVE IInv'
    BY <2>1, NewTableKeeps
  <2>3. ASSUME NEW t \in Table, NEW vpn \in VPN, NEW ppn \in PPN \cup {NO_MAPPING},
               page_table_update(t, vpn, ppn)
        PROVE  IInv'
    BY <2>3, UpdateKeeps
  <2>4. CASE \E t \in Table : OutOfMemory(t)
    BY <2>4, SameTables DEF OutOfMemory
  <2>5. CASE UNCHANGED vars
    BY <2>5, SameTables DEF vars, IInv, TypeOK
  <2> QED BY <2>1, <2>3, <2>4, <2>5 DEF Next
<1> QED BY InitIInv, <1>1, PTL DEF Spec

\* Every frame but the roots is linked from one entry of one node.
THEOREM FramesAreForest == Spec => []Forest
BY PageInvariant, ForestFromTree, PTL

\* What the tables map, as their client can observe it, is what the abstract map of
\* PageMap says, for page numbers that the code can tell apart.
THEOREM TablesKeepMapping == Apart => (Spec => KeepsMapping)
<1> SUFFICES ASSUME Apart PROVE Spec => KeepsMapping
  OBVIOUS
<1>1. Init => Promise!Init
  BY DEF Init, Mapping, Promise!Init
<1>2. IInv /\ [Next]_vars => [Promise!Next]_Mapping
  <2> SUFFICES ASSUME IInv, [Next]_vars PROVE Promise!Next \/ Mapping' = Mapping
    OBVIOUS
  <2>1. ASSUME NEW t \in Table, NewTable(t) PROVE Mapping' = Mapping
    BY <2>1, NewTableKeeps
  <2>2. ASSUME NEW t \in Table, NEW vpn \in VPN, NEW ppn \in PPN \cup {NO_MAPPING},
               page_table_update(t, vpn, ppn)
        PROVE  Mapping' = Mapping \/ Promise!Next
    <3>1. Mapping' = Mapping \/ Mapping' = [Mapping EXCEPT ![<<t, vpn>>] = ppn]
      BY <2>2, UpdateKeeps
    <3> QED BY <3>1 DEF Promise!Next, Promise!Update
  <2>3. CASE \E t \in Table : OutOfMemory(t)
    BY <2>3, SameTables DEF OutOfMemory
  <2>4. CASE UNCHANGED vars
    BY <2>4, SameTables DEF vars, IInv, TypeOK
  <2> QED BY <2>1, <2>2, <2>3, <2>4 DEF Next
<1> QED BY PageInvariant, <1>1, <1>2, PTL DEF Spec, KeepsMapping, Promise!Spec

-----------------------------------------------------------------------------
(* pt.cpp.                                                                 *)

VARIABLE asked

X == INSTANCE PageTableCpp

LEMMA CppSameEntry ==
  ASSUME NEW v, NEW w
  PROVE  X!SameEntry(v, w) <=> X!Indices(v) = X!Indices(w)
  <1> DEFINE L == 0..(Levels - 1)
  <1>1. /\ X!Indices(v) = [level \in L |-> X!LevelIndex(v, level)]
        /\ X!Indices(w) = [level \in L |-> X!LevelIndex(w, level)]
    BY DEF X!Indices
  <1>2. X!SameEntry(v, w) <=> \A level \in L : X!LevelIndex(v, level) = X!LevelIndex(w, level)
    BY DEF X!SameEntry, X!LevelIndex
  <1> HIDE DEF L
  <1> QED BY <1>1, <1>2, Zenon

LEMMA CppWords ==
  /\ X!ZeroPage = ZeroPage
  /\ \A w, n : X!shr(w, n) = shr(w, n)
  /\ \A w : /\ X!valid(w) = valid(w) /\ X!Leaf(w) = Leaf(w)
            /\ X!phys_to_virt(w) = phys_to_virt(w)
  BY DEF X!Word, Word, X!Index, Index, X!ZeroPage, ZeroPage, X!shr, shr, X!shl, shl,
         X!valid, valid, X!phys_to_virt, phys_to_virt, X!Leaf, Leaf

LEMMA CppDescent ==
  ASSUME NEW pt, NEW index, NEW ppn
  PROVE  X!Descent(pt, index, ppn) = Descent(pt, index, ppn)
  BY Zenon DEF X!Descent, Descent, X!Enter, Enter, X!Word, Word, X!Index, Index,
     X!ZeroPage, ZeroPage, X!shr, shr, X!shl, shl, X!valid, valid,
     X!phys_to_virt, phys_to_virt, X!Link, Link

LEMMA CppEntries ==
  ASSUME NEW content, NEW pt, NEW index
  PROVE  X!Entries(content, pt, index) = Entries(content, pt, index)
  BY Zenon DEF X!Entries, Entries, X!shl, shl, X!Word, Word, X!valid, valid,
     X!Linked, Linked, X!phys_to_virt, phys_to_virt, X!shr, shr

LEMMA CppPath ==
  ASSUME NEW vpn \in VPN
  PROVE  X!Indices(vpn) \in Path /\ X!LevelIndex(vpn, 0) = X!Indices(vpn)[0]
  <1>1. vpn \in Nat
    BY PageAssumption, WordParts
  <1>2. 2 ^ IndexBits \in Nat /\ 2 ^ IndexBits >= 1 /\ Levels - 1 \in Nat
    BY PowerOfTwo, WordParts
  <1>3. ASSUME NEW level \in 0..(Levels - 1) PROVE X!LevelIndex(vpn, level) \in Index
    <2> DEFINE n == PageShift + IndexBits * level
               D == 2 ^ n
               I == 2 ^ IndexBits
    <2>1. n \in Nat
      BY <1>2, WordParts
    <2>2. D \in Nat /\ D >= 1
      BY <2>1, PowerOfTwo
    <2>3. I \in Nat /\ I >= 1
      BY <1>2
    <2>4. X!LevelIndex(vpn, level) = (vpn \div D) % I /\ Index = 0..(I - 1)
      BY DEF X!LevelIndex, X!shr, Index
    <2> HIDE DEF D, I
    <2>5. vpn \div D \in Nat
      BY <1>1, <2>2
    <2> QED BY <2>3, <2>4, <2>5
  <1>4. X!Indices(vpn) = [level \in 0..(Levels - 1) |-> X!LevelIndex(vpn, level)]
    BY DEF X!Indices
  <1>5. 0 \in 0..(Levels - 1)
    BY <1>2
  <1> QED BY <1>3, <1>4, <1>5 DEF Path

\* The answer of every entry is the one asked for last, but in the table at frame 0.
AnswersX ==
  /\ asked \in [Table \X VPN -> PPN \cup {NO_MAPPING}]
  /\ \A t \in Table, v \in VPN : root[t] = NO_MAPPING => asked[<<t, v>>] = NO_MAPPING
  /\ running => \A t \in Tables, v \in VPN :
       root[t] # 0 /\ X!validVPN(v) => Answer(pages, root[t], X!Indices(v)) = asked[<<t, v>>]

LEMMA CppQuery ==
  ASSUME X!PageAssumption, IInv, NEW t \in Tables, root[t] # 0, NEW v \in VPN, X!validVPN(v)
  PROVE  /\ X!page_table_query(root[t], v) = Answer(pages, root[t], X!Indices(v))
         /\ ~ X!Refused(root[t], v)
  <1>1. root[t] < NPAGES
    <2>1. FirstFrame = 0 /\ root[t] \in FirstFrame..(FirstFrame + nalloc - 1) /\ nalloc \in 0..NPAGES
      BY DEF IInv, TypeOK, Tables, X!PageAssumption
    <2> QED BY <2>1, WordParts
  <1>2. ~ X!Refused(root[t], v)
    <2>1. root[t] \in Int /\ NPAGES \in Int
      BY WordParts DEF IInv, TypeOK, Tables
    <2> QED BY <1>1, <2>1 DEF X!Refused
  <1>3. X!page_table_query(root[t], v) = Read(Entries(pages, root[t], X!Indices(v))[0])
    BY <1>2, CppWords, CppEntries DEF X!page_table_query, Read
  <1> QED BY <1>2, <1>3 DEF Answer

LEMMA CppNewTable ==
  ASSUME X!PageAssumption, IInv, AnswersX, NEW t \in Table, X!NewTable(t)
  PROVE  IInv' /\ AnswersX'
  <1>1. PICK depth : Tree(pages, nalloc, depth, Roots)
    BY DEF IInv
  <1>2. /\ nalloc \in Nat /\ FirstFrame = 0 /\ nalloc + FirstFrame = nalloc
        /\ root \in [Table -> {NO_MAPPING} \cup (FirstFrame..(FirstFrame + nalloc - 1))]
    <2>1. FirstFrame = 0 /\ nalloc \in Nat
      BY DEF IInv, TypeOK, X!PageAssumption
    <2> QED BY <2>1 DEF IInv, TypeOK
  <1>3. NewTable(t)
    BY <1>2, CppWords DEF X!NewTable, NewTable
  <1>4. IInv'
    BY <1>3, NewTableKeeps
  <1>5. /\ pages' = WithRoot(pages, nalloc) /\ root[t] = NO_MAPPING /\ running' = running
        /\ nalloc < NPAGES /\ asked' = asked /\ root' = [root EXCEPT ![t] = nalloc]
    BY <1>3 DEF NewTable, WithRoot, X!NewTable
  <1>6. root'[t] = nalloc /\ \A u \in Table : u # t => root'[u] = root[u]
    BY <1>2, <1>5
  <1>7. nalloc # NO_MAPPING
    BY <1>2, PageAssumption
  <1>8. ASSUME running, NEW u \in Tables', NEW v \in VPN, root'[u] # 0, X!validVPN(v)
        PROVE  Answer(pages', root'[u], X!Indices(v)) = asked[<<u, v>>]
    <2>1. X!Indices(v) \in Path /\ u \in Table
      BY CppPath DEF Tables
    <2>2. CASE u = t
      <3>1. Answer(WithRoot(pages, nalloc), nalloc + FirstFrame, X!Indices(v)) = NO_MAPPING
        BY <1>1, <1>5, <2>1, RootAnswers
      <3>2. asked[<<u, v>>] = NO_MAPPING
        BY <1>5, <2>2 DEF AnswersX
      <3> QED BY <1>2, <1>5, <1>6, <2>2, <3>1, <3>2
    <2>3. CASE u # t
      <3>1. u \in Tables /\ root'[u] = root[u]
        BY <1>6, <2>1, <2>3 DEF Tables
      <3> DEFINE s == root[u] - FirstFrame
      <3>2. s \in Roots /\ s + FirstFrame = root[u]
        BY <3>1, RootFrames DEF IInv
      <3> HIDE DEF s
      <3>3. Answer(WithRoot(pages, nalloc), s + FirstFrame, X!Indices(v))
              = Answer(pages, s + FirstFrame, X!Indices(v))
        BY <1>1, <1>5, <2>1, <3>2, RootAnswers
      <3> QED BY <1>5, <1>8, <3>1, <3>2, <3>3 DEF AnswersX
    <2> QED BY <2>2, <2>3
  <1>9. \A u \in Table, v \in VPN : root'[u] = NO_MAPPING => asked[<<u, v>>] = NO_MAPPING
    BY <1>5, <1>6, <1>7 DEF AnswersX
  <1> QED BY <1>4, <1>5, <1>8, <1>9 DEF AnswersX

LEMMA CppUpdate ==
  ASSUME X!PageAssumption, IInv, AnswersX,
         NEW t \in Table, NEW vpn \in VPN, NEW ppn \in PPN \cup {NO_MAPPING},
         X!page_table_update(t, vpn, ppn)
  PROVE  IInv' /\ AnswersX'
  <1> DEFINE index == X!Indices(vpn)
  <1>1. /\ t \in Tables /\ root' = root /\ running
        /\ asked' = [tv \in Table \X VPN |->
                      IF tv[1] = t /\ X!validVPN(vpn) /\ X!SameEntry(tv[2], vpn) THEN ppn
                      ELSE asked[tv]]
    BY DEF X!page_table_update, Tables
  <1>2. index \in Path /\ X!LevelIndex(vpn, 0) = index[0]
    BY CppPath
  <1>3. Tables' = Tables
    BY <1>1 DEF Tables
  <1>4. /\ asked' \in [Table \X VPN -> PPN \cup {NO_MAPPING}]
        /\ \A u \in Table, v \in VPN :
             asked'[<<u, v>>] = IF u = t /\ X!validVPN(vpn) /\ X!Indices(v) = index THEN ppn
                                ELSE asked[<<u, v>>]
    <2>1. asked \in [Table \X VPN -> PPN \cup {NO_MAPPING}]
      BY DEF AnswersX
    <2>2. \A u \in Table, v \in VPN :
            <<u, v>> \in Table \X VPN /\ <<u, v>>[1] = u /\ <<u, v>>[2] = v
      OBVIOUS
    <2>3. \A v \in VPN : X!SameEntry(v, vpn) <=> X!Indices(v) = index
      BY CppSameEntry
    <2> HIDE DEF index
    <2>4. asked' \in [Table \X VPN -> PPN \cup {NO_MAPPING}]
      BY <1>1, <2>1
    <2>5. \A u \in Table, v \in VPN :
            asked'[<<u, v>>] = IF u = t /\ X!validVPN(vpn) /\ X!SameEntry(v, vpn) THEN ppn
                               ELSE asked[<<u, v>>]
      BY <1>1, <2>2
    <2> QED BY <2>3, <2>4, <2>5
  <1>5. \A u \in Table, v \in VPN : root'[u] = NO_MAPPING => asked'[<<u, v>>] = NO_MAPPING
    BY <1>1, <1>4 DEF Tables, AnswersX
  <1>6. CASE X!Refused(root[t], vpn)
    <2>1. pages' = pages /\ nalloc' = nalloc /\ running' = running
      BY <1>6 DEF X!page_table_update
    <2>2. IInv'
      BY <1>1, <2>1, SameTables DEF IInv, TypeOK
    <2>3. root[t] = 0 \/ ~ X!validVPN(vpn)
      BY <1>1, <1>6, CppQuery
    <2>4. ASSUME NEW u \in Tables', NEW v \in VPN, root'[u] # 0, X!validVPN(v)
          PROVE  Answer(pages', root'[u], X!Indices(v)) = asked'[<<u, v>>]
      BY <1>1, <1>3, <1>4, <2>1, <2>3, <2>4 DEF AnswersX, Tables
    <2> QED BY <1>4, <1>5, <2>2, <2>4 DEF AnswersX
  <1>7. CASE ~ X!Refused(root[t], vpn)
    <2>1. LET m == Descent(root[t], index, ppn)[1]
          IN /\ pages' = Updated(m, index[0], ppn) /\ nalloc' = m.nalloc
             /\ running' = ~ (m.stopped /\ ppn # NO_MAPPING)
      <3> HIDE DEF index
      <3>1. X!Descent(root[t], index, ppn) = Descent(root[t], index, ppn)
        BY CppDescent
      <3> QED BY <1>2, <1>7, <3>1, CppWords DEF X!page_table_update, Updated, index
    <2> HIDE DEF index
    <2>2. /\ IInv'
          /\ \A u \in Tables, other \in Path :
               /\ u = t /\ other = index /\ running' => Answer(pages', root[u], other) = ppn
               /\ u # t \/ other # index \/ ~ running' =>
                    Answer(pages', root[u], other) = Answer(pages, root[u], other)
      BY <1>1, <1>2, <2>1, UpdateMemory
    <2>3. ASSUME running', NEW u \in Tables', NEW v \in VPN, root'[u] # 0, X!validVPN(v)
          PROVE  Answer(pages', root'[u], X!Indices(v)) = asked'[<<u, v>>]
      <3>1. u \in Tables /\ u \in Table /\ root'[u] = root[u] /\ X!Indices(v) \in Path
        BY <1>1, <1>3, CppPath DEF Tables
      <3>2. X!validVPN(vpn)
        BY <1>7 DEF X!Refused
      <3>3. CASE u = t /\ X!Indices(v) = index
        BY <1>4, <2>2, <2>3, <3>1, <3>2, <3>3
      <3>4. CASE u # t \/ X!Indices(v) # index
        <4>1. Answer(pages', root[u], X!Indices(v)) = Answer(pages, root[u], X!Indices(v))
          BY <2>2, <3>1, <3>4
        <4>2. Answer(pages, root[u], X!Indices(v)) = asked[<<u, v>>]
          BY <1>1, <2>3, <3>1 DEF AnswersX
        <4> QED BY <1>4, <3>1, <3>4, <4>1, <4>2
      <3> QED BY <3>3, <3>4
    <2> QED BY <1>4, <1>5, <2>2, <2>3 DEF AnswersX
  <1> QED BY <1>6, <1>7

LEMMA CppInvariant ==
  ASSUME X!PageAssumption
  PROVE  X!Spec => [](IInv /\ AnswersX)
  <1>1. X!Init => IInv /\ AnswersX
    <2> SUFFICES ASSUME X!Init PROVE IInv /\ AnswersX
      OBVIOUS
    <2>1. Init
      BY CppWords DEF X!Init, X!MemInit, Init, MemInit
    <2>2. Tables = {} /\ asked = [tv \in Table \X VPN |-> NO_MAPPING]
      BY <2>1 DEF Init, Tables, X!Init
    <2>3. AnswersX
      BY <2>2 DEF AnswersX
    <2> QED BY <2>1, <2>3, InitIInv
  <1>2. IInv /\ AnswersX /\ [X!Next]_(X!vars) => (IInv /\ AnswersX)'
    <2> SUFFICES ASSUME IInv, AnswersX, [X!Next]_(X!vars) PROVE IInv' /\ AnswersX'
      OBVIOUS
    <2>1. CASE \E t \in Table : X!NewTable(t)
      BY <2>1, CppNewTable
    <2>2. CASE \E t \in Table, vpn \in VPN, ppn \in PPN \cup {NO_MAPPING} :
                 X!page_table_update(t, vpn, ppn)
      BY <2>2, CppUpdate
    <2>3. ASSUME pages' = pages, nalloc' = nalloc, root' = root, asked' = asked,
                 running' \in BOOLEAN, running' => running
          PROVE  IInv' /\ AnswersX'
      <3>1. IInv'
        BY <2>3, SameTables
      <3>2. Tables' = Tables
        BY <2>3 DEF Tables
      <3>3. AnswersX'
        BY <2>3, <3>2 DEF AnswersX
      <3> QED BY <3>1, <3>3
    <2>4. CASE \E t \in Table : X!OutOfMemory(t)
      BY <2>3, <2>4 DEF X!OutOfMemory
    <2>5. CASE UNCHANGED X!vars
      BY <2>3, <2>5 DEF X!vars, IInv, TypeOK
    <2> QED BY <2>1, <2>2, <2>4, <2>5 DEF X!Next
  <1> QED BY <1>1, <1>2, PTL DEF X!Spec

\* Whatever page numbers are used, each valid page of each table of pt.cpp is mapped to
\* what was asked for its entry last, and every other page, and every page of the table at
\* frame 0, to nothing.
THEOREM TablesMapWhatWasAsked ==
  X!PageAssumption => (X!Spec => []X!MapsWhatWasAsked)
<1> SUFFICES ASSUME X!PageAssumption PROVE X!Spec => []X!MapsWhatWasAsked
  OBVIOUS
<1>1. IInv /\ AnswersX => X!MapsWhatWasAsked
  <2> SUFFICES ASSUME IInv, AnswersX, running, NEW t \in Tables, NEW v \in VPN
               PROVE  X!page_table_query(root[t], v) =
                        IF root[t] = 0 \/ ~ X!validVPN(v) THEN NO_MAPPING ELSE asked[<<t, v>>]
    BY DEF X!MapsWhatWasAsked, Tables
  <2>1. CASE root[t] = 0 \/ ~ X!validVPN(v)
    BY <2>1 DEF X!page_table_query, X!Refused
  <2>2. CASE root[t] # 0 /\ X!validVPN(v)
    BY <2>2, CppQuery DEF AnswersX
  <2> QED BY <2>1, <2>2
<1> QED BY CppInvariant, <1>1, PTL
=============================================================================
