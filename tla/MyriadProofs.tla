---------------------------- MODULE MyriadProofs ----------------------------
(***************************************************************************)
(* Proofs about Myriad, for every block size, bound and set of inputs:     *)
(* first that its blocks are shared by no two owners, in memory and in the *)
(* header on the store, then about that header: that it has room, stays    *)
(* first, is saved, lists the streams by id, and loses no block.           *)
(***************************************************************************)
EXTENDS Myriad, WellFoundedInduction, FiniteSetTheorems, TLAPS

-----------------------------------------------------------------------------
(* Division with remainder, least members, and induction over the numbers. *)

(* Integer division by a positive number leaves a remainder below it. *)
LEMMA DivMod ==
  ASSUME NEW a \in Nat, NEW c \in Nat \ {0}
  PROVE  /\ a \div c \in Nat
         /\ a % c \in 0..(c - 1)
         /\ a = c * (a \div c) + (a % c)
  OBVIOUS

(* Multiplication by a number of bytes is monotonic. *)
LEMMA MulMono ==
  ASSUME NEW a \in Nat, NEW b \in Nat, NEW c \in Nat, a <= b
  PROVE  a * c <= b * c
  OBVIOUS

(* The library's least-element theorem, for sets of naturals. *)
LEMMA WellFoundedMin ==
  ASSUME NEW T, T \subseteq Nat, T # {}, NEW R, IsWellFoundedOn(R, Nat)
  PROVE  \E x \in T : \A y \in T : ~ (<<y, x>> \in R)
  BY WFMin

(* The same with the order of the numbers as the relation. *)
LEMMA RelationMin ==
  ASSUME NEW T, T \subseteq Nat, NEW R,
         \A x, y \in Nat : x < y => <<x, y>> \in R,
         \E x \in T : \A y \in T : ~ (<<y, x>> \in R)
  PROVE  \E x \in T : \A y \in T : x <= y
<1>1. PICK x \in T : \A y \in T : ~ (<<y, x>> \in R)
  OBVIOUS
<1>2. \A y \in T : x <= y
  <2> TAKE y \in T
  <2>1. x \in Nat /\ y \in Nat
    OBVIOUS
  <2>2. ~ (y < x)
    BY <1>1, <2>1
  <2> QED BY <2>1, <2>2
<1> QED BY <1>2

(* A set of numbers that is not empty has a least member. *)
LEMMA NatMin ==
  ASSUME NEW T, T \subseteq Nat, T # {}
  PROVE  \E x \in T : \A y \in T : x <= y
<1>1. \A x, y \in Nat : x < y => <<x, y>> \in OpToRel(<, Nat)
  BY DEF OpToRel
<1>2. \E x \in T : \A y \in T : ~ (<<y, x>> \in OpToRel(<, Nat))
  BY WellFoundedMin, NatLessThanWellFounded, Zenon
<1> QED BY <1>1, <1>2, RelationMin, Zenon

(* A set that holds zero and every successor holds every number. *)
LEMMA SetInduction ==
  ASSUME NEW T \in SUBSET Nat, 0 \in T, \A n \in T : n + 1 \in T
  PROVE  \A n \in Nat : n \in T
<1>1. SUFFICES ASSUME Nat \ T # {} PROVE FALSE
  OBVIOUS
<1>2. PICK x \in Nat \ T : \A y \in Nat \ T : x <= y
  BY <1>1, NatMin
<1>3. x # 0 /\ x - 1 \in Nat /\ x - 1 \in T
  BY <1>2
<1> QED BY <1>2, <1>3

-----------------------------------------------------------------------------
(* Arithmetic of block counts. *)

(* blkDiv gives enough blocks. *)
LEMMA BlkDivEnough ==
  ASSUME NEW a \in Nat, NEW c \in Nat \ {0}
  PROVE  blkDiv(a, c) \in Nat /\ a <= blkDiv(a, c) * c
<1> DEFINE q == a \div c
           r == a % c
<1>1. q \in Nat /\ r \in 0..(c - 1) /\ a = c * q + r
  BY DivMod
<1>2. CASE r = 0
  <2>1. blkDiv(a, c) = q
    BY <1>1, <1>2 DEF blkDiv
  <2> HIDE DEF q, r
  <2> QED BY <1>1, <1>2, <2>1
<1>3. CASE r # 0
  <2>1. blkDiv(a, c) = q + 1
    BY <1>1, <1>3 DEF blkDiv
  <2>2. (q + 1) * c = c * q + c
    BY <1>1
  <2> QED BY <1>1, <1>3, <2>1, <2>2
<1> QED BY <1>2, <1>3

(* blkDiv gives no more blocks than any number that is enough. *)
LEMMA BlkDivLeast ==
  ASSUME NEW a \in Nat, NEW b \in Nat, NEW c \in Nat \ {0}, a <= b * c
  PROVE  blkDiv(a, c) <= b
<1> DEFINE q == a \div c
           r == a % c
<1>1. q \in Nat /\ r \in 0..(c - 1) /\ a = c * q + r
  BY DivMod
<1>2. q <= b
  <2>1. SUFFICES ASSUME b + 1 <= q PROVE FALSE
    BY <1>1
  <2>2. (b + 1) * c <= q * c
    BY <2>1, <1>1, MulMono
  <2> QED BY <2>2, <1>1
<1>3. CASE r = 0
  BY <1>1, <1>2, <1>3 DEF blkDiv
<1>4. CASE r # 0
  <2>1. q # b
    BY <1>1, <1>4
  <2> QED BY <1>1, <1>2, <1>4, <2>1 DEF blkDiv
<1> QED BY <1>3, <1>4

-----------------------------------------------------------------------------
(* Lists of streams: what adding, extending, cutting and removing keep. *)

(* A list of block numbers with no duplicates, all below limit. *)
Fresh(A, limit, used) ==
  /\ A \in Seq(Nat)
  /\ IsInjective(A)
  /\ \A k \in DOMAIN A : A[k] < limit /\ A[k] \notin used

(* The blocks of a list of streams, element by element. *)
LEMMA BlocksOfElem ==
  ASSUME NEW S, NEW b
  PROVE  b \in BlocksOf(S) <=>
           \E s \in DOMAIN S : \E k \in DOMAIN S[s].aBlocks : S[s].aBlocks[k] = b
  BY DEF BlocksOf, Range

(* The fields of a stream. *)
LEMMA StreamFields ==
  ASSUME NEW s \in Stream
  PROVE  s.iId \in Int /\ s.iSize \in Nat /\ s.aBlocks \in Seq(Nat)
  BY DEF Stream

(* A stream with a new size and block list. *)
LEMMA StreamUpdate ==
  ASSUME NEW s \in Stream, NEW z \in Nat, NEW a \in Seq(Nat),
         NEW r, r = [s EXCEPT !.iSize = z, !.aBlocks = a]
  PROVE  r \in Stream /\ r.iSize = z /\ r.aBlocks = a /\ r.iId = s.iId
  BY DEF Stream

(* Elements of a sequence have the type of its elements. *)
LEMMA SeqElem ==
  ASSUME NEW X, NEW S \in Seq(X), NEW i \in DOMAIN S
  PROVE  S[i] \in X
  OBVIOUS

(* A function on 1..n is a sequence. *)
LEMMA SeqOfFunction ==
  ASSUME NEW X, NEW n \in Nat, NEW T \in [1..n -> X]
  PROVE  T \in Seq(X) /\ Len(T) = n /\ DOMAIN T = 1..n
  OBVIOUS

(* Positions in a block list are numbers, and so are the blocks. *)
LEMMA BlockIndex ==
  ASSUME NEW S \in Seq(Nat), NEW k \in DOMAIN S
  PROVE  k \in Nat /\ k >= 1 /\ k <= Len(S) /\ Len(S) \in Nat /\ S[k] \in Nat
  OBVIOUS

(* Replacing an element of a sequence. *)
LEMMA SeqReplace ==
  ASSUME NEW X, NEW S \in Seq(X), NEW i \in DOMAIN S, NEW r \in X,
         NEW T, T = [S EXCEPT ![i] = r]
  PROVE  /\ T \in Seq(X) /\ Len(T) = Len(S) /\ DOMAIN T = DOMAIN S
         /\ T[i] = r /\ \A s \in DOMAIN S : s # i => T[s] = S[s]
  OBVIOUS

(* Concatenation of block lists. *)
LEMMA SeqConcat ==
  ASSUME NEW S \in Seq(Nat), NEW A \in Seq(Nat)
  PROVE  /\ S \o A \in Seq(Nat)
         /\ Len(S \o A) = Len(S) + Len(A)
         /\ \A k \in DOMAIN (S \o A) :
              \/ k \in DOMAIN S /\ (S \o A)[k] = S[k]
              \/ k - Len(S) \in DOMAIN A /\ (S \o A)[k] = A[k - Len(S)]
  OBVIOUS

(* The rest of a block list after its first m blocks. *)
LEMMA SeqRest ==
  ASSUME NEW L \in Seq(Nat), NEW m \in Nat, m <= Len(L)
  PROVE  LET M == SubSeq(L, m + 1, Len(L))
         IN  /\ M \in Seq(Nat)
             /\ Len(M) = Len(L) - m
             /\ \A k \in DOMAIN M :
                  k + m \in DOMAIN L /\ k + m > m /\ M[k] = L[k + m]
<1> DEFINE M == SubSeq(L, m + 1, Len(L))
<1>1. Len(L) \in Nat /\ DOMAIN L = 1..Len(L)
  OBVIOUS
<1>2. M \in Seq(Nat)
  OBVIOUS
<1>3. Len(M) = Len(L) - m
  OBVIOUS
<1>4. \A k \in 1..(Len(L) - m) : M[k] = L[k + m]
  OBVIOUS
<1>5. DOMAIN M = 1..(Len(L) - m)
  BY <1>2, <1>3
<1> HIDE DEF M
<1>6. \A k \in DOMAIN M : k + m \in DOMAIN L /\ k + m > m /\ M[k] = L[k + m]
  BY <1>1, <1>4, <1>5
<1> QED BY <1>2, <1>3, <1>6 DEF M

(* The first m blocks of a block list. *)
LEMMA SeqFirst ==
  ASSUME NEW L \in Seq(Nat), NEW m \in Nat, m <= Len(L)
  PROVE  LET M == SubSeq(L, 1, m)
         IN  /\ M \in Seq(Nat)
             /\ Len(M) = m
             /\ \A k \in DOMAIN M : k \in DOMAIN L /\ M[k] = L[k]
  OBVIOUS

(* T is S with the element p put in at place i. *)
Inserted(T, S, i, p) ==
  /\ T \in Seq(Stream) /\ Len(T) = Len(S) + 1 /\ i \in 1..Len(T)
  /\ T[i] = p
  /\ \A s \in 1..(Len(S) + 1) :
       /\ s < i => s \in DOMAIN S /\ T[s] = S[s]
       /\ s > i => s - 1 \in DOMAIN S /\ T[s] = S[s - 1]

(* InsertAt puts an element in. *)
LEMMA SeqInsert ==
  ASSUME NEW S \in Seq(Stream), NEW p \in Stream, NEW i \in 1..(Len(S) + 1)
  PROVE  Inserted(InsertAt(S, i, p), S, i, p)
<1> DEFINE X == Stream
<1> HIDE DEF X
<1>0. S \in Seq(X) /\ p \in X
  BY DEF X
<1>1. SubSeq(S, 1, i - 1) \in Seq(X) /\ Len(SubSeq(S, 1, i - 1)) = i - 1
  BY <1>0
<1>2. SubSeq(S, i, Len(S)) \in Seq(X) /\ Len(SubSeq(S, i, Len(S))) = Len(S) + 1 - i
  BY <1>0
<1>3. PICK a \in Seq(X), b \in Seq(X) :
        a = SubSeq(S, 1, i - 1) /\ b = SubSeq(S, i, Len(S))
  BY <1>1, <1>2
<1>4. /\ \A k \in 1..(i - 1) : a[k] = S[k]
      /\ \A k \in 1..(Len(S) + 1 - i) : b[k] = S[k + i - 1]
  BY <1>3
<1>5. PICK T : T = a \o <<p>> \o b
  OBVIOUS
<1>6. /\ T \in Seq(X) /\ Len(T) = Len(a) + 1 + Len(b)
      /\ \A k \in 1..Len(a) : T[k] = a[k]
      /\ T[Len(a) + 1] = p
      /\ \A k \in 1..Len(b) : T[Len(a) + 1 + k] = b[k]
  BY <1>0, <1>5
<1>7. Len(a) = i - 1 /\ Len(b) = Len(S) + 1 - i /\ Len(S) \in Nat /\ i \in Nat
  BY <1>1, <1>2, <1>3
<1>8. ASSUME NEW s \in 1..(Len(S) + 1), s > i
      PROVE  s - 1 \in DOMAIN S /\ T[s] = S[s - 1]
  <2>1. s - i \in 1..Len(b) /\ Len(a) + 1 + (s - i) = s
    BY <1>7, <1>8
  <2>2. T[s] = b[s - i]
    BY <2>1, <1>6
  <2>3. b[s - i] = S[(s - i) + i - 1] /\ (s - i) + i - 1 = s - 1
    BY <2>1, <1>4, <1>7
  <2>4. s - 1 \in 1..Len(S)
    BY <1>7, <1>8
  <2> QED BY <2>2, <2>3, <2>4
<1>9. ASSUME NEW s \in 1..(Len(S) + 1), s < i
      PROVE  s \in DOMAIN S /\ T[s] = S[s]
  <2>1. s \in 1..Len(a) /\ s \in 1..(i - 1) /\ s \in 1..Len(S)
    BY <1>7, <1>9
  <2> QED BY <2>1, <1>4, <1>6
<1>11. T \in Seq(X) /\ Len(T) = Len(S) + 1 /\ T[i] = p
  BY <1>6, <1>7
<1>10. InsertAt(S, i, p) = T
  BY <1>3, <1>5 DEF InsertAt
<1>12. i \in 1..Len(T)
  BY <1>7, <1>11
<1>13. Inserted(T, S, i, p)
  BY <1>8, <1>9, <1>11, <1>12 DEF Inserted, X
<1> QED BY <1>10, <1>13

(* T is S with the size and the block list of stream i changed. *)
Updated(T, S, i, z, a) ==
  /\ T \in Seq(Stream) /\ DOMAIN T = DOMAIN S
  /\ T[i].iSize = z /\ T[i].aBlocks = a /\ T[i].iId = S[i].iId
  /\ \A s \in DOMAIN S : s # i => T[s] = S[s]

(* Giving stream i of a list a new size and block list. *)
LEMMA ListUpdate ==
  ASSUME NEW S \in Seq(Stream), NEW i \in DOMAIN S, NEW z \in Nat,
         NEW a \in Seq(Nat)
  PROVE  Updated([S EXCEPT ![i].iSize = z, ![i].aBlocks = a], S, i, z, a)
<1>1. PICK r : r = [S[i] EXCEPT !.iSize = z, !.aBlocks = a]
  OBVIOUS
<1>2. PICK T : T = [S EXCEPT ![i] = r]
  OBVIOUS
<1>3. r \in Stream /\ r.iSize = z /\ r.aBlocks = a /\ r.iId = S[i].iId
  <2>1. S[i] \in Stream
    BY SeqElem
  <2> QED BY <1>1, <2>1 DEF Stream
<1>4. [S EXCEPT ![i].iSize = z, ![i].aBlocks = a] = T
  BY <1>1, <1>2
<1>5. Updated(T, S, i, z, a)
  BY <1>2, <1>3, SeqReplace DEF Updated
<1> QED BY <1>4, <1>5

(* Appending fresh blocks to one stream. *)
LEMMA ExtendStream ==
  ASSUME NEW S \in Seq(Stream), NEW B \in Nat, NEW C \in Nat, B <= C,
         Disjoint(S, B), NEW A, Fresh(A, C, BlocksOf(S)),
         NEW i \in DOMAIN S, NEW T, NEW z,
         Updated(T, S, i, z, S[i].aBlocks \o A)
  PROVE  /\ Disjoint(T, C)
         /\ BlocksOf(T) \subseteq BlocksOf(S) \cup Range(A)
<1>0. /\ T \in Seq(Stream) /\ DOMAIN T = DOMAIN S
      /\ T[i].aBlocks = S[i].aBlocks \o A
      /\ \A s \in DOMAIN S : s # i => T[s] = S[s]
  BY DEF Updated
<1> USE <1>0
<1>1. A \in Seq(Nat) /\ S[i] \in Stream /\ S[i].aBlocks \in Seq(Nat)
  BY SeqElem, StreamFields DEF Fresh
<1>2. \A k \in DOMAIN T[i].aBlocks :
        \/ k \in DOMAIN S[i].aBlocks /\ T[i].aBlocks[k] = S[i].aBlocks[k]
        \/ /\ k - Len(S[i].aBlocks) \in DOMAIN A
           /\ T[i].aBlocks[k] = A[k - Len(S[i].aBlocks)]
  <2>1. PICK a \in Seq(Nat) : a = S[i].aBlocks
    BY <1>1
  <2>2. \A k \in DOMAIN (a \o A) :
          \/ k \in DOMAIN a /\ (a \o A)[k] = a[k]
          \/ k - Len(a) \in DOMAIN A /\ (a \o A)[k] = A[k - Len(a)]
    BY <1>1, SeqConcat
  <2> QED BY <2>1, <2>2, Zenon
<1>3. \A s \in DOMAIN T : T[s].aBlocks \in Seq(Nat)
  BY SeqElem, StreamFields
<1>4. \A s \in DOMAIN S : S[s].aBlocks \in Seq(Nat)
  BY SeqElem, StreamFields
<1>5. \A s \in DOMAIN T : \A k \in DOMAIN T[s].aBlocks :
        \/ k \in DOMAIN S[s].aBlocks /\ T[s].aBlocks[k] = S[s].aBlocks[k]
        \/ /\ s = i /\ k - Len(S[i].aBlocks) \in DOMAIN A
           /\ T[s].aBlocks[k] = A[k - Len(S[i].aBlocks)]
  <2> TAKE s \in DOMAIN T
  <2>1. CASE s = i
    BY <1>2, <2>1, Zenon
  <2>2. CASE s # i
    BY <2>2
  <2> QED BY <2>1, <2>2
<1>6. \A s \in DOMAIN S : \A k \in DOMAIN S[s].aBlocks :
        S[s].aBlocks[k] \in BlocksOf(S)
  BY BlocksOfElem
<1>7. Disjoint(T, C)
  <2>1. ASSUME NEW s \in DOMAIN T, NEW t \in DOMAIN T,
               NEW k \in DOMAIN T[s].aBlocks, NEW l \in DOMAIN T[t].aBlocks,
               T[s].aBlocks[k] = T[t].aBlocks[l]
        PROVE  s = t /\ k = l
    <3>a. k \in Nat /\ l \in Nat
      BY <1>3, BlockIndex, Zenon
    <3>b. Len(S[i].aBlocks) \in Nat
      BY <1>1
    <3>c. s \in DOMAIN S /\ t \in DOMAIN S
      BY <2>1
    <3>1. CASE /\ k \in DOMAIN S[s].aBlocks /\ T[s].aBlocks[k] = S[s].aBlocks[k]
               /\ l \in DOMAIN S[t].aBlocks /\ T[t].aBlocks[l] = S[t].aBlocks[l]
      <4>1. S[s].aBlocks[k] = S[t].aBlocks[l]
        BY <3>1, <2>1, Zenon
      <4> QED BY <3>1, <3>c, <4>1 DEF Disjoint
    <3>2. CASE /\ s = i /\ k - Len(S[i].aBlocks) \in DOMAIN A
               /\ T[s].aBlocks[k] = A[k - Len(S[i].aBlocks)]
               /\ t = i /\ l - Len(S[i].aBlocks) \in DOMAIN A
               /\ T[t].aBlocks[l] = A[l - Len(S[i].aBlocks)]
      <4>1. k - Len(S[i].aBlocks) = l - Len(S[i].aBlocks)
        BY <3>2, <2>1 DEF Fresh, IsInjective
      <4> QED BY <4>1, <3>a, <3>b, <3>2
    <3>d. \A n \in DOMAIN A : A[n] \notin BlocksOf(S)
      BY DEF Fresh
    <3>3. CASE /\ k \in DOMAIN S[s].aBlocks /\ T[s].aBlocks[k] = S[s].aBlocks[k]
               /\ t = i /\ l - Len(S[i].aBlocks) \in DOMAIN A
               /\ T[t].aBlocks[l] = A[l - Len(S[i].aBlocks)]
      <4>1. S[s].aBlocks[k] \in BlocksOf(S)
        BY <3>3, <3>c, <1>6
      <4>2. S[s].aBlocks[k] = A[l - Len(S[i].aBlocks)]
        BY <3>3, <2>1, Zenon
      <4> QED BY <3>3, <4>1, <4>2, <3>d
    <3>4. CASE /\ s = i /\ k - Len(S[i].aBlocks) \in DOMAIN A
               /\ T[s].aBlocks[k] = A[k - Len(S[i].aBlocks)]
               /\ l \in DOMAIN S[t].aBlocks /\ T[t].aBlocks[l] = S[t].aBlocks[l]
      <4>1. S[t].aBlocks[l] \in BlocksOf(S)
        BY <3>4, <3>c, <1>6
      <4>2. S[t].aBlocks[l] = A[k - Len(S[i].aBlocks)]
        BY <3>4, <2>1, Zenon
      <4> QED BY <3>4, <4>1, <4>2, <3>d
    <3> QED BY <3>1, <3>2, <3>3, <3>4, <1>5, Zenon
  <2>2. ASSUME NEW s \in DOMAIN T, NEW k \in DOMAIN T[s].aBlocks
        PROVE  T[s].aBlocks[k] < C
    <3>1. CASE k \in DOMAIN S[s].aBlocks /\ T[s].aBlocks[k] = S[s].aBlocks[k]
      <4>1. S[s].aBlocks[k] < B /\ S[s].aBlocks[k] \in Nat
        BY <3>1, <2>2, <1>4 DEF Disjoint
      <4> QED BY <4>1, <3>1
    <3> QED BY <3>1, <1>5, <2>2 DEF Fresh
  <2> QED BY <2>1, <2>2 DEF Disjoint
<1>8. BlocksOf(T) \subseteq BlocksOf(S) \cup Range(A)
  <2>1. ASSUME NEW b \in BlocksOf(T) PROVE b \in BlocksOf(S) \cup Range(A)
    <3>1. PICK s \in DOMAIN T : \E k \in DOMAIN T[s].aBlocks : T[s].aBlocks[k] = b
      BY BlocksOfElem, <2>1
    <3>2. PICK k \in DOMAIN T[s].aBlocks : T[s].aBlocks[k] = b
      BY <3>1
    <3> QED BY <3>2, <1>5, <1>6 DEF Range
  <2> QED BY <2>1
<1> QED BY <1>7, <1>8

(* T takes some of the streams of S, each cut to a first part of its       *)
(* blocks; f names the stream of S that each stream of T comes from.       *)
PartOf(T, S, f) ==
  /\ \A s \in DOMAIN T :
       /\ f[s] \in DOMAIN S
       /\ \A k \in DOMAIN T[s].aBlocks :
            /\ k \in DOMAIN S[f[s]].aBlocks
            /\ T[s].aBlocks[k] = S[f[s]].aBlocks[k]
  /\ \A s, t \in DOMAIN T : f[s] = f[t] => s = t

(* Parts of a list with disjoint blocks have disjoint blocks. *)
LEMMA PartDisjoint ==
  ASSUME NEW S, NEW T, NEW f, NEW B, PartOf(T, S, f), Disjoint(S, B)
  PROVE  Disjoint(T, B) /\ BlocksOf(T) \subseteq BlocksOf(S)
<1>1. ASSUME NEW s \in DOMAIN T, NEW t \in DOMAIN T,
             NEW k \in DOMAIN T[s].aBlocks, NEW l \in DOMAIN T[t].aBlocks,
             T[s].aBlocks[k] = T[t].aBlocks[l]
      PROVE  s = t /\ k = l
  <2>1. /\ f[s] \in DOMAIN S /\ k \in DOMAIN S[f[s]].aBlocks
        /\ f[t] \in DOMAIN S /\ l \in DOMAIN S[f[t]].aBlocks
        /\ S[f[s]].aBlocks[k] = S[f[t]].aBlocks[l]
    BY <1>1 DEF PartOf
  <2>2. f[s] = f[t] /\ k = l
    BY <2>1 DEF Disjoint
  <2> QED BY <2>2 DEF PartOf
<1>2. ASSUME NEW s \in DOMAIN T, NEW k \in DOMAIN T[s].aBlocks
      PROVE  T[s].aBlocks[k] < B /\ T[s].aBlocks[k] \in BlocksOf(S)
  <2>1. /\ f[s] \in DOMAIN S /\ k \in DOMAIN S[f[s]].aBlocks
        /\ S[f[s]].aBlocks[k] = T[s].aBlocks[k]
    BY <1>2 DEF PartOf
  <2>2. T[s].aBlocks[k] < B
    BY <2>1 DEF Disjoint
  <2> QED BY <2>1, <2>2, BlocksOfElem
<1>3. BlocksOf(T) \subseteq BlocksOf(S)
  BY <1>2, BlocksOfElem
<1> QED BY <1>1, <1>2, <1>3 DEF Disjoint

(* A block of S that no stream of the part T took is not in T. *)
LEMMA PartDrops ==
  ASSUME NEW S, NEW T, NEW f, NEW B, PartOf(T, S, f), Disjoint(S, B),
         NEW j \in DOMAIN S, NEW l \in DOMAIN S[j].aBlocks,
         \A s \in DOMAIN T : f[s] = j => l \notin DOMAIN T[s].aBlocks
  PROVE  S[j].aBlocks[l] \notin BlocksOf(T)
<1>1. ASSUME NEW s \in DOMAIN T, NEW k \in DOMAIN T[s].aBlocks,
             T[s].aBlocks[k] = S[j].aBlocks[l]
      PROVE  FALSE
  <2>1. /\ f[s] \in DOMAIN S /\ k \in DOMAIN S[f[s]].aBlocks
        /\ S[f[s]].aBlocks[k] = S[j].aBlocks[l]
    BY <1>1 DEF PartOf
  <2>2. f[s] = j /\ k = l
    BY <2>1 DEF Disjoint
  <2> QED BY <2>2
<1> QED BY <1>1, BlocksOfElem

(* Adding a stream i with fresh blocks to the streams of S. *)
LEMMA InsertStream ==
  ASSUME NEW S \in Seq(Stream), NEW B \in Nat, NEW C \in Nat, B <= C,
         Disjoint(S, B), NEW A, Fresh(A, C, BlocksOf(S)),
         NEW T, NEW i \in DOMAIN T, T[i].aBlocks = A,
         NEW f, \A s \in DOMAIN T \ {i} : f[s] \in DOMAIN S /\ T[s] = S[f[s]],
         \A s, t \in DOMAIN T \ {i} : f[s] = f[t] => s = t
  PROVE  Disjoint(T, C) /\ BlocksOf(T) \subseteq BlocksOf(S) \cup Range(A)
<1>1. \A s \in DOMAIN S : \A k \in DOMAIN S[s].aBlocks :
        S[s].aBlocks[k] \in BlocksOf(S)
  BY BlocksOfElem
<1>2. \A s \in DOMAIN S : S[s].aBlocks \in Seq(Nat)
  BY SeqElem, StreamFields
<1>3. ASSUME NEW s \in DOMAIN T, NEW t \in DOMAIN T,
             NEW k \in DOMAIN T[s].aBlocks, NEW l \in DOMAIN T[t].aBlocks,
             T[s].aBlocks[k] = T[t].aBlocks[l]
      PROVE  s = t /\ k = l
  <2>1. CASE s = i /\ t = i
    BY <1>3, <2>1 DEF Fresh, IsInjective
  <2>2. CASE s # i /\ t # i
    <3>1. f[s] = f[t] /\ k = l
      BY <1>3, <2>2 DEF Disjoint
    <3> QED BY <3>1, <2>2
  <2>3. CASE s = i /\ t # i
    BY <1>1, <1>3, <2>3 DEF Fresh
  <2>4. CASE s # i /\ t = i
    BY <1>1, <1>3, <2>4 DEF Fresh
  <2> QED BY <2>1, <2>2, <2>3, <2>4
<1>4. ASSUME NEW s \in DOMAIN T, NEW k \in DOMAIN T[s].aBlocks
      PROVE  T[s].aBlocks[k] < C /\ T[s].aBlocks[k] \in BlocksOf(S) \cup Range(A)
  <2>1. CASE s = i
    BY <1>4, <2>1 DEF Fresh, Range
  <2>2. CASE s # i
    <3>1. S[f[s]].aBlocks[k] < B /\ S[f[s]].aBlocks[k] \in Nat
      <4>1. f[s] \in DOMAIN S /\ k \in DOMAIN S[f[s]].aBlocks
        BY <2>2, <1>4
      <4>2. S[f[s]].aBlocks[k] < B
        BY <4>1 DEF Disjoint
      <4> QED BY <4>1, <4>2, <1>2, BlockIndex
    <3> QED BY <1>1, <1>4, <2>2, <3>1
  <2> QED BY <2>1, <2>2
<1>5. BlocksOf(T) \subseteq BlocksOf(S) \cup Range(A)
  BY <1>4, BlocksOfElem
<1> QED BY <1>3, <1>4, <1>5 DEF Disjoint

(* Two fresh lists with no common block make one fresh list. *)
LEMMA ConcatFresh ==
  ASSUME NEW L, NEW F, NEW B, NEW U, Fresh(L, B, U), Fresh(F, B, U),
         \A k \in DOMAIN L, l \in DOMAIN F : L[k] # F[l]
  PROVE  Fresh(L \o F, B, U)
<1>1. L \in Seq(Nat) /\ F \in Seq(Nat) /\ L \o F \in Seq(Nat)
  BY SeqConcat DEF Fresh
<1>2. \A k \in DOMAIN (L \o F) :
        \/ k \in DOMAIN L /\ (L \o F)[k] = L[k]
        \/ k - Len(L) \in DOMAIN F /\ (L \o F)[k] = F[k - Len(L)]
  BY <1>1, SeqConcat
<1>3. ASSUME NEW k \in DOMAIN (L \o F), NEW l \in DOMAIN (L \o F),
             (L \o F)[k] = (L \o F)[l]
      PROVE  k = l
  <2>1. k \in Nat /\ l \in Nat /\ Len(L) \in Nat
    BY <1>1
  <2>2. \A x, y \in DOMAIN L : L[x] = L[y] => x = y
    BY DEF Fresh, IsInjective
  <2>3. \A x, y \in DOMAIN F : F[x] = F[y] => x = y
    BY DEF Fresh, IsInjective
  <2> QED BY <1>2, <1>3, <2>1, <2>2, <2>3
<1>4. \A k \in DOMAIN (L \o F) : (L \o F)[k] < B /\ (L \o F)[k] \notin U
  BY <1>2 DEF Fresh
<1> QED BY <1>1, <1>3, <1>4 DEF Fresh, IsInjective

-----------------------------------------------------------------------------
(* Ascending lists the members of a finite set of numbers. *)

Below(S, b) == {c \in S : c < b}

(* The members below a member are finite and fewer than all members. *)
LEMMA BelowCard ==
  ASSUME NEW S \in SUBSET Nat, IsFiniteSet(S), NEW b \in S
  PROVE  /\ IsFiniteSet(Below(S, b))
         /\ Cardinality(Below(S, b)) \in Nat
         /\ Cardinality(S) \in Nat
         /\ Cardinality(Below(S, b)) < Cardinality(S)
<1>1. Below(S, b) \subseteq S /\ b \notin Below(S, b)
  BY DEF Below
<1>2. IsFiniteSet(Below(S, b)) /\ Cardinality(Below(S, b)) <= Cardinality(S)
  BY <1>1, FS_Subset
<1>3. Cardinality(Below(S, b)) # Cardinality(S)
  BY <1>1, FS_Subset
<1> QED BY <1>2, <1>3, FS_CardinalityType

(* The members up to b are one more than those below b. *)
LEMMA BelowNext ==
  ASSUME NEW S \in SUBSET Nat, IsFiniteSet(S), NEW b \in S, NEW d \in S,
         b < d, \A c \in S : b < c => d <= c
  PROVE  Cardinality(Below(S, d)) = Cardinality(Below(S, b)) + 1
<1>1. b \notin Below(S, b)
  BY DEF Below
<1>2. IsFiniteSet(Below(S, b))
  BY BelowCard
<1>4. \A c \in Nat : c \in Below(S, d) <=> c \in Below(S, b) \cup {b}
  BY DEF Below
<1>5. Below(S, d) = Below(S, b) \cup {b}
  BY <1>4 DEF Below
<1>3. Cardinality(Below(S, b) \cup {b}) = Cardinality(Below(S, b)) + 1
  BY <1>1, <1>2, FS_AddElement, Zenon
<1> QED BY <1>3, <1>5

(* For every count below the size there is a member with that many below. *)
LEMMA RankExists ==
  ASSUME NEW S \in SUBSET Nat, IsFiniteSet(S), NEW k \in Nat,
         k < Cardinality(S)
  PROVE  \E b \in S : Cardinality(Below(S, b)) = k
<1> DEFINE T == {n \in Nat : n < Cardinality(S) =>
                               \E b \in S : Cardinality(Below(S, b)) = n}
<1>0. Cardinality(S) \in Nat
  BY FS_CardinalityType
<1>1. 0 \in T
  <2>1. SUFFICES ASSUME 0 < Cardinality(S)
                 PROVE  \E b \in S : Cardinality(Below(S, b)) = 0
    OBVIOUS
  <2>2. S # {}
    BY <2>1, FS_EmptySet
  <2>3. PICK b \in S : \A y \in S : b <= y
    BY <2>2, NatMin
  <2>4. Below(S, b) = {}
    <3>1. \A y \in S : ~ (y < b)
      BY <2>3
    <3> QED BY <3>1 DEF Below
  <2> QED BY <2>4, FS_EmptySet
<1>2. ASSUME NEW n \in T PROVE n + 1 \in T
  <2>1. SUFFICES ASSUME n + 1 < Cardinality(S)
                 PROVE  \E b \in S : Cardinality(Below(S, b)) = n + 1
    BY <1>2
  <2>2. PICK b \in S : Cardinality(Below(S, b)) = n
    <3>1. n \in Nat /\ n < Cardinality(S)
      BY <1>0, <1>2, <2>1
    <3> QED BY <1>2, <3>1
  <2> DEFINE Above == {c \in S : b < c}
  <2>3. Above # {}
    <3>1. SUFFICES ASSUME Above = {} PROVE FALSE
      OBVIOUS
    <3>1a. b \notin Below(S, b) /\ \A c \in S : ~ (b < c)
      BY <3>1 DEF Below
    <3>1b. \A c \in S : c < b \/ c = b
      BY <3>1a
    <3>2. S = Below(S, b) \cup {b} /\ b \notin Below(S, b)
      BY <3>1a, <3>1b DEF Below
    <3>3. IsFiniteSet(Below(S, b))
      BY BelowCard
    <3>4. Cardinality(Below(S, b) \cup {b}) = Cardinality(Below(S, b)) + 1
      BY <3>2, <3>3, FS_AddElement, Zenon
    <3>5. Cardinality(S) = n + 1
      BY <2>2, <3>2, <3>4
    <3> QED BY <2>1, <3>5, <1>2
  <2>4. PICK d \in Above : \A y \in Above : d <= y
    BY <2>3, NatMin
  <2>5. Cardinality(Below(S, d)) = n + 1
    BY <2>2, <2>4, BelowNext
  <2> QED BY <2>4, <2>5
<1>3. \A n \in Nat : n \in T
  <2> HIDE DEF T
  <2>1. T \in SUBSET Nat
    BY DEF T
  <2> QED BY <1>1, <1>2, <2>1, SetInduction
<1> QED BY <1>3

(* Ascending(S) has every position filled by a member, no member twice. *)
LEMMA AscendingFresh ==
  ASSUME NEW S \in SUBSET Nat, IsFiniteSet(S)
  PROVE  /\ Ascending(S) \in Seq(S) /\ Ascending(S) \in Seq(Nat)
         /\ IsInjective(Ascending(S))
<1>0. Cardinality(S) \in Nat
  BY FS_CardinalityType
<1>1. \A k \in 1..Cardinality(S) :
        /\ Ascending(S)[k] \in S
        /\ Cardinality(Below(S, Ascending(S)[k])) = k - 1
  <2> TAKE k \in 1..Cardinality(S)
  <2>1. \E b \in S : Cardinality(Below(S, b)) = k - 1
    BY <1>0, RankExists
  <2> QED BY <2>1 DEF Ascending, Below
<1>2. Ascending(S) \in [1..Cardinality(S) -> S]
  BY <1>1 DEF Ascending
<1>3. Ascending(S) \in Seq(S) /\ Ascending(S) \in Seq(Nat)
  <2>1. Ascending(S) \in [1..Cardinality(S) -> Nat]
    BY <1>2
  <2> QED BY <1>0, <1>2, <2>1, SeqOfFunction
<1>4. ASSUME NEW k \in 1..Cardinality(S), NEW l \in 1..Cardinality(S),
             Ascending(S)[k] = Ascending(S)[l]
      PROVE  k = l
  BY <1>0, <1>1, <1>4
<1> QED BY <1>2, <1>3, <1>4 DEF IsInjective

-----------------------------------------------------------------------------
(* The inductive invariant.  NoSharedBlocks needs the header in the store  *)
(* to be sound, because initialize makes it the header in memory, and the  *)
(* streams to fit, because updateHeader cuts block lists to their sizes.   *)

IndInv ==
  /\ TypeOK
  /\ NoSharedBlocks
  /\ DiskHeaderSound
  /\ StreamsFit
  /\ Fit(diskHeader)

(* A larger store keeps the blocks of a list inside it. *)
LEMMA DisjointMono ==
  ASSUME NEW S \in Seq(Stream), NEW B \in Nat, NEW C \in Nat, B <= C,
         Disjoint(S, B)
  PROVE  Disjoint(S, C)
<1>1. \A s \in DOMAIN S : \A k \in DOMAIN S[s].aBlocks : S[s].aBlocks[k] \in Nat
  BY SeqElem, StreamFields, BlockIndex
<1>2. \A s \in DOMAIN S : \A k \in DOMAIN S[s].aBlocks : S[s].aBlocks[k] < C
  BY <1>1 DEF Disjoint
<1> QED BY <1>2 DEF Disjoint

(* The blocks of streams are numbers below the number of blocks. *)
LEMMA OwnedBelow ==
  ASSUME NEW S \in Seq(Stream), NEW B \in Nat, Disjoint(S, B)
  PROVE  \A b \in BlocksOf(S) : b \in Nat /\ b < B
<1>1. \A s \in DOMAIN S : \A k \in DOMAIN S[s].aBlocks : S[s].aBlocks[k] \in Nat
  BY SeqElem, StreamFields, BlockIndex
<1>2. \A s \in DOMAIN S : \A k \in DOMAIN S[s].aBlocks : S[s].aBlocks[k] < B
  BY DEF Disjoint
<1> QED BY <1>1, <1>2, BlocksOfElem

(* The free list is fresh with respect to the blocks of the streams. *)
LEMMA FreeFresh ==
  ASSUME IndInv
  PROVE  Fresh(lFreeBlocks, iBlocks, Owned)
  BY DEF IndInv, TypeOK, NoSharedBlocks, Fresh

(* What findEmptyBlock returns is new, and what stays free is not it. *)
LEMMA AllocatedFresh ==
  ASSUME IndInv, NEW n \in Nat, findEmptyBlocks(n)
  PROVE  /\ iBlocks' \in Nat /\ iBlocks <= iBlocks'
         /\ storeBlocks' \in Nat /\ iBlocks' <= storeBlocks'
         /\ iUsed' \in Int
         /\ Len(Allocated(n)) = n
         /\ Fresh(Allocated(n), iBlocks', Owned)
         /\ lFreeBlocks' \in Seq(Nat)
         /\ \A U : U \subseteq Owned \cup Range(Allocated(n))
                     => Fresh(lFreeBlocks', iBlocks', U)
<1> DEFINE L == lFreeBlocks
           m == FromList(n)
           A == Allocated(n)
<1>1. L \in Seq(Nat) /\ Len(L) \in Nat /\ iBlocks \in Nat /\ storeBlocks \in Nat
      /\ iBlocks <= storeBlocks /\ iUsed \in Int
  BY DEF IndInv, TypeOK, DiskHeaderSound
<1>2. m \in Nat /\ m <= n /\ m <= Len(L) /\ (m < n => m = Len(L))
  BY <1>1 DEF FromList
<1>3. /\ lFreeBlocks' = SubSeq(L, m + 1, Len(L))
      /\ iBlocks' = iBlocks + (n - m)
      /\ storeBlocks' = IF n > m THEN iBlocks' ELSE storeBlocks
      /\ iUsed' = iUsed + n
  BY DEF findEmptyBlocks
<1>4. /\ iBlocks' \in Nat /\ iBlocks <= iBlocks'
      /\ storeBlocks' \in Nat /\ iBlocks' <= storeBlocks' /\ iUsed' \in Int
  BY <1>1, <1>2, <1>3
<1>5. \A k \in DOMAIN L : L[k] \in Nat /\ L[k] < iBlocks /\ L[k] \notin Owned
  BY <1>1, BlockIndex DEF IndInv, NoSharedBlocks
<1>6. \A j, k \in DOMAIN L : L[j] = L[k] => j = k
  BY DEF IndInv, NoSharedBlocks, IsInjective
<1>7. \A b \in Owned : b \in Nat /\ b < iBlocks
  BY OwnedBelow DEF IndInv, TypeOK, NoSharedBlocks, Owned
<1>8. A = [k \in 1..n |-> IF k <= Len(L) THEN L[k] ELSE iBlocks + (k - Len(L)) - 1]
  BY DEF Allocated
<1>9. \A k \in 1..n : \/ k \in DOMAIN L /\ k <= m /\ A[k] = L[k]
                      \/ /\ k > Len(L) /\ m = Len(L)
                         /\ A[k] = iBlocks + (k - Len(L)) - 1
  BY <1>1, <1>2, <1>8
<1>10. A \in Seq(Nat) /\ Len(A) = n /\ DOMAIN A = 1..n
  <2>1. \A k \in 1..n : A[k] \in Nat
    BY <1>1, <1>5, <1>9
  <2> QED BY <2>1, <1>8
<1> HIDE DEF A, m
<1>11. \A k \in 1..n : A[k] < iBlocks' /\ A[k] \notin Owned
  <2> TAKE k \in 1..n
  <2>1. CASE k \in DOMAIN L /\ k <= m /\ A[k] = L[k]
    <3>1. L[k] \in Nat /\ L[k] < iBlocks /\ L[k] \notin Owned
      BY <2>1, <1>5
    <3> QED BY <2>1, <3>1, <1>1, <1>4
  <2>2. CASE /\ k > Len(L) /\ m = Len(L)
             /\ A[k] = iBlocks + (k - Len(L)) - 1
    <3>1. A[k] < iBlocks' /\ ~ (A[k] < iBlocks)
      BY <2>2, <1>1, <1>3
    <3> QED BY <3>1, <1>7
  <2> QED BY <2>1, <2>2, <1>9
<1>12. ASSUME NEW j \in 1..n, NEW k \in 1..n, A[j] = A[k]
       PROVE  j = k
  <2>1. CASE j \in DOMAIN L /\ A[j] = L[j] /\ k \in DOMAIN L /\ A[k] = L[k]
    BY <2>1, <1>6, <1>12
  <2>2. CASE /\ k > Len(L) /\ A[k] = iBlocks + (k - Len(L)) - 1
             /\ j > Len(L) /\ A[j] = iBlocks + (j - Len(L)) - 1
    BY <2>2, <1>1, <1>12
  <2>3. CASE j \in DOMAIN L /\ A[j] = L[j] /\ k > Len(L)
             /\ A[k] = iBlocks + (k - Len(L)) - 1
    <3>1. L[j] < iBlocks /\ L[j] \in Nat
      BY <2>3, <1>5
    <3> QED BY <2>3, <3>1, <1>1, <1>12
  <2>4. CASE k \in DOMAIN L /\ A[k] = L[k] /\ j > Len(L)
             /\ A[j] = iBlocks + (j - Len(L)) - 1
    <3>1. L[k] < iBlocks /\ L[k] \in Nat
      BY <2>4, <1>5
    <3> QED BY <2>4, <3>1, <1>1, <1>12
  <2> QED BY <2>1, <2>2, <2>3, <2>4, <1>9
<1>13. Fresh(A, iBlocks', Owned)
  BY <1>10, <1>11, <1>12 DEF Fresh, IsInjective
<1>14. /\ lFreeBlocks' \in Seq(Nat)
       /\ \A k \in DOMAIN lFreeBlocks' :
            k + m \in DOMAIN L /\ k + m > m /\ lFreeBlocks'[k] = L[k + m]
  <2> HIDE DEF L
  <2> QED BY <1>1, <1>2, <1>3, SeqRest
<1>15. ASSUME NEW U, U \subseteq Owned \cup Range(A)
       PROVE  Fresh(lFreeBlocks', iBlocks', U)
  <2>1. ASSUME NEW k \in DOMAIN lFreeBlocks'
        PROVE  lFreeBlocks'[k] < iBlocks' /\ lFreeBlocks'[k] \notin U
    <3>1. /\ k + m \in DOMAIN L /\ k + m > m /\ lFreeBlocks'[k] = L[k + m]
          /\ L[k + m] \in Nat /\ L[k + m] < iBlocks /\ L[k + m] \notin Owned
      BY <1>14, <1>5
    <3>2. lFreeBlocks'[k] < iBlocks'
      BY <3>1, <1>1, <1>4
    <3>3. \A l \in 1..n : A[l] # L[k + m]
      <4> TAKE l \in 1..n
      <4>1. CASE l \in DOMAIN L /\ l <= m /\ A[l] = L[l]
        <5>1. l # k + m
          BY <3>1, <4>1, <1>1, <1>2
        <5> QED BY <5>1, <4>1, <3>1, <1>6
      <4>2. CASE l > Len(L) /\ A[l] = iBlocks + (l - Len(L)) - 1
        BY <4>2, <3>1, <1>1
      <4> QED BY <4>1, <4>2, <1>9
    <3> QED BY <1>10, <1>15, <3>1, <3>2, <3>3 DEF Range
  <2>2. ASSUME NEW j \in DOMAIN lFreeBlocks', NEW k \in DOMAIN lFreeBlocks',
               lFreeBlocks'[j] = lFreeBlocks'[k]
        PROVE  j = k
    <3>1. j + m = k + m
      BY <2>2, <1>14, <1>6
    <3>2. j \in Nat /\ k \in Nat
      BY <1>14, BlockIndex
    <3> QED BY <3>1, <3>2, <1>2
  <2> QED BY <1>14, <2>1, <2>2 DEF Fresh, IsInjective
<1> QED BY <1>4, <1>10, <1>13, <1>14, <1>15 DEF A

-----------------------------------------------------------------------------
(* The actions keep the inductive invariant. *)

(* Putting fresh blocks into the streams keeps it, with any sound header   *)
(* in the store.                                                           *)
LEMMA AllocationKeepsDisk ==
  ASSUME IndInv, NEW n \in Nat, findEmptyBlocks(n),
         aStreams' \in Seq(Stream), aStreams' # << >>,
         Disjoint(aStreams', iBlocks'),
         BlocksOf(aStreams') \subseteq Owned \cup Range(Allocated(n)),
         Fit(aStreams'), bHeaderChanged' \in BOOLEAN,
         diskHeader' \in Seq(Stream), diskHeader' # << >>,
         Disjoint(diskHeader', iBlocks'), Fit(diskHeader')
  PROVE  IndInv'
<1>1. /\ iBlocks' \in Nat /\ iBlocks <= iBlocks'
      /\ storeBlocks' \in Nat /\ iBlocks' <= storeBlocks' /\ iUsed' \in Int
      /\ lFreeBlocks' \in Seq(Nat)
      /\ Fresh(lFreeBlocks', iBlocks', BlocksOf(aStreams'))
  BY AllocatedFresh
<1>2. TypeOK'
  BY <1>1 DEF IndInv, TypeOK
<1>3. NoSharedBlocks'
  BY <1>1 DEF NoSharedBlocks, Fresh, Owned
<1>4. DiskHeaderSound'
  BY <1>1 DEF DiskHeaderSound
<1> QED BY <1>2, <1>3, <1>4 DEF IndInv, StreamsFit

(* The same with the header in the store left alone. *)
LEMMA AllocationKeeps ==
  ASSUME IndInv, NEW n \in Nat, findEmptyBlocks(n),
         aStreams' \in Seq(Stream), aStreams' # << >>,
         Disjoint(aStreams', iBlocks'),
         BlocksOf(aStreams') \subseteq Owned \cup Range(Allocated(n)),
         Fit(aStreams'), bHeaderChanged' \in BOOLEAN,
         diskHeader' = diskHeader
  PROVE  IndInv'
<1>1. iBlocks' \in Nat /\ iBlocks <= iBlocks'
  BY AllocatedFresh
<1>2. /\ diskHeader' \in Seq(Stream) /\ diskHeader' # << >>
      /\ Disjoint(diskHeader', iBlocks') /\ Fit(diskHeader')
  BY <1>1, DisjointMono DEF IndInv, TypeOK, DiskHeaderSound
<1> QED BY <1>2, AllocationKeepsDisk

(* A stream without data fits whatever it holds. *)
LEMMA NewStream ==
  ASSUME NEW id \in Int, NEW A \in Seq(Nat)
  PROVE  LET p == [iId |-> id, iSize |-> 0, aBlocks |-> A]
         IN  /\ p \in Stream /\ p.aBlocks = A
             /\ p.iSize <= Len(p.aBlocks) * BlockSize
<1>1. Len(A) \in Nat /\ BlockSize \in Nat
  BY ConstantsAssumption
<1>2. 0 <= Len(A) * BlockSize
  BY <1>1
<1> QED BY <1>2 DEF Stream

(* Putting in a stream that holds fresh blocks. *)
LEMMA InsertedStream ==
  ASSUME NEW S \in Seq(Stream), NEW B \in Nat, NEW C \in Nat, B <= C,
         Disjoint(S, B), Fit(S), NEW A, Fresh(A, C, BlocksOf(S)),
         NEW p \in Stream, p.aBlocks = A, p.iSize <= Len(A) * BlockSize,
         NEW T, NEW i, Inserted(T, S, i, p)
  PROVE  /\ Disjoint(T, C) /\ Fit(T)
         /\ BlocksOf(T) \subseteq BlocksOf(S) \cup Range(A)
<1> DEFINE f == [s \in DOMAIN T |-> IF s < i THEN s ELSE s - 1]
<1>1. /\ T \in Seq(Stream) /\ Len(T) = Len(S) + 1 /\ DOMAIN T = 1..(Len(S) + 1)
      /\ i \in DOMAIN T /\ T[i] = p /\ Len(S) \in Nat /\ i \in Nat
  BY DEF Inserted
<1>2. \A s \in DOMAIN T : s \in Nat
  BY <1>1
<1>3. ASSUME NEW s \in DOMAIN T \ {i}
      PROVE  f[s] \in DOMAIN S /\ T[s] = S[f[s]]
  <2>1. s < i \/ s > i
    BY <1>1, <1>2
  <2>2. CASE s < i
    BY <1>1, <2>2 DEF Inserted
  <2>3. CASE s > i
    <3>1. f[s] = s - 1
      BY <1>1, <1>2, <2>3
    <3> QED BY <1>1, <2>3, <3>1 DEF Inserted
  <2> QED BY <2>1, <2>2, <2>3
<1>4. \A s, t \in DOMAIN T \ {i} : f[s] = f[t] => s = t
  BY <1>1, <1>2
<1> HIDE DEF f
<1>5. Disjoint(T, C) /\ BlocksOf(T) \subseteq BlocksOf(S) \cup Range(A)
  <2>1. \A s \in DOMAIN T \ {i} : f[s] \in DOMAIN S /\ T[s] = S[f[s]]
    BY <1>3
  <2>2. T[i].aBlocks = A /\ i \in DOMAIN T
    BY <1>1
  <2> QED BY <1>4, <2>1, <2>2, InsertStream, Zenon
<1>6. Fit(T)
  <2>1. ASSUME NEW s \in DOMAIN T
        PROVE  T[s].iSize <= Len(T[s].aBlocks) * BlockSize
    <3>1. CASE s = i
      BY <1>1, <3>1
    <3>2. CASE s # i
      BY <1>3, <3>2 DEF Fit
    <3> QED BY <3>1, <3>2
  <2> QED BY <2>1 DEF Fit
<1> QED BY <1>5, <1>6

(* Inserting a new stream with the allocated blocks at some place. *)
LEMMA InsertionKeeps ==
  ASSUME IndInv, NEW n \in Nat, findEmptyBlocks(n),
         NEW id \in Int, NEW i,
         Inserted(aStreams', aStreams, i,
                  [iId |-> id, iSize |-> 0, aBlocks |-> Allocated(n)]),
         bHeaderChanged' \in BOOLEAN, diskHeader' = diskHeader
  PROVE  IndInv'
<1>1. PICK p : p = [iId |-> id, iSize |-> 0, aBlocks |-> Allocated(n)]
  OBVIOUS
<1>2. /\ aStreams \in Seq(Stream) /\ Disjoint(aStreams, iBlocks)
      /\ iBlocks \in Nat /\ Fit(aStreams)
  BY DEF IndInv, TypeOK, NoSharedBlocks, StreamsFit
<1>3. /\ iBlocks' \in Nat /\ iBlocks <= iBlocks'
      /\ Fresh(Allocated(n), iBlocks', BlocksOf(aStreams))
      /\ Allocated(n) \in Seq(Nat)
  BY AllocatedFresh DEF Owned, Fresh
<1>4. /\ p \in Stream /\ p.aBlocks = Allocated(n)
      /\ p.iSize <= Len(Allocated(n)) * BlockSize
  BY <1>1, <1>3, NewStream
<1>5. Inserted(aStreams', aStreams, i, p)
  BY <1>1
<1>6. /\ Disjoint(aStreams', iBlocks') /\ Fit(aStreams')
      /\ BlocksOf(aStreams') \subseteq BlocksOf(aStreams) \cup Range(Allocated(n))
  BY <1>2, <1>3, <1>4, <1>5, InsertedStream
<1>7. aStreams' \in Seq(Stream) /\ aStreams' # << >>
  BY <1>5 DEF Inserted
<1> QED BY <1>6, <1>7, AllocationKeeps DEF Owned

(* createStream appends a stream. *)
LEMMA CreateKeeps ==
  ASSUME IndInv, NEW n \in PreAllocs, createStream(n)
  PROVE  IndInv'
<1>1. n \in Nat
  BY ConstantsAssumption
<1>2. aStreams \in Seq(Stream) /\ aStreams # << >> /\ Len(aStreams) \in Nat
      /\ Len(aStreams) \in DOMAIN aStreams
  BY DEF IndInv, TypeOK
<1>3. Last(aStreams).iId \in Int
  BY <1>2, StreamFields DEF Last
<1>4. PICK p : p = [iId |-> Last(aStreams).iId + 1, iSize |-> 0,
                    aBlocks |-> Allocated(n)]
  OBVIOUS
<1>5. findEmptyBlocks(n) /\ aStreams' = Append(aStreams, p)
      /\ bHeaderChanged' \in BOOLEAN /\ diskHeader' = diskHeader
  BY <1>4 DEF createStream
<1>6. p \in Stream
  BY <1>1, <1>3, <1>4, <1>5, AllocatedFresh DEF Stream, Fresh
<1>7. Inserted(aStreams', aStreams, Len(aStreams) + 1, p)
  BY <1>2, <1>5, <1>6 DEF Inserted
<1>8. Last(aStreams).iId + 1 \in Int
  BY <1>3
<1> QED BY <1>1, <1>4, <1>5, <1>7, <1>8, InsertionKeeps

(* createStreamWithId inserts a stream, or loses its blocks. *)
LEMMA CreateWithIdKeeps ==
  ASSUME IndInv, NEW id \in GivenIds, NEW n \in PreAllocs,
         createStreamWithId(id, n)
  PROVE  IndInv'
<1>1. n \in Nat /\ id \in Int
  BY ConstantsAssumption
<1>2. aStreams \in Seq(Stream) /\ aStreams # << >> /\ Len(aStreams) \in Nat
  BY DEF IndInv, TypeOK
<1>4. PICK p : p = [iId |-> id, iSize |-> 0, aBlocks |-> Allocated(n)]
  OBVIOUS
<1>5. findEmptyBlocks(n) /\ bHeaderChanged' \in BOOLEAN /\ diskHeader' = diskHeader
  BY DEF createStreamWithId
<1>6. p \in Stream
  BY <1>1, <1>4, <1>5, AllocatedFresh DEF Stream, Fresh
<1>7. CASE aStreams' = Append(aStreams, p)
  <2>1. Inserted(aStreams', aStreams, Len(aStreams) + 1, p)
    BY <1>2, <1>6, <1>7 DEF Inserted
  <2> QED BY <1>1, <1>4, <1>5, <2>1, InsertionKeeps
<1>8. ASSUME NEW i \in FirstAbove(id), aStreams' = InsertAt(aStreams, i, p)
      PROVE  IndInv'
  <2>1. i \in 1..(Len(aStreams) + 1) /\ i \in 1..Len(aStreams)
    BY <1>2, <1>8 DEF FirstAbove
  <2>2. Inserted(aStreams', aStreams, i, p)
    BY <1>2, <1>6, <1>8, <2>1, SeqInsert
  <2> QED BY <1>1, <1>4, <1>5, <2>2, InsertionKeeps
<1>9. CASE aStreams' = aStreams
  <2>1. Disjoint(aStreams', iBlocks') /\ Fit(aStreams')
    BY <1>1, <1>2, <1>5, <1>9, AllocatedFresh, DisjointMono
       DEF IndInv, TypeOK, NoSharedBlocks, StreamsFit
  <2> QED BY <1>1, <1>2, <1>5, <1>9, <2>1, AllocationKeeps DEF Owned
<1> QED BY <1>4, <1>7, <1>8, <1>9 DEF createStreamWithId

(* Appending the allocated blocks to stream i and giving it a size that    *)
(* fits.                                                                   *)
LEMMA ExtensionFacts ==
  ASSUME IndInv, NEW n \in Nat, findEmptyBlocks(n),
         NEW i \in DOMAIN aStreams, NEW z \in Nat,
         z <= (Len(aStreams[i].aBlocks) + n) * BlockSize,
         Updated(aStreams', aStreams, i, z, aStreams[i].aBlocks \o Allocated(n))
  PROVE  /\ aStreams' \in Seq(Stream) /\ aStreams' # << >>
         /\ DOMAIN aStreams' = DOMAIN aStreams
         /\ Disjoint(aStreams', iBlocks')
         /\ BlocksOf(aStreams') \subseteq Owned \cup Range(Allocated(n))
         /\ Fit(aStreams')
<1>1. /\ aStreams \in Seq(Stream) /\ aStreams # << >>
      /\ Disjoint(aStreams, iBlocks) /\ iBlocks \in Nat /\ Fit(aStreams)
  BY DEF IndInv, TypeOK, NoSharedBlocks, StreamsFit
<1>2. /\ iBlocks' \in Nat /\ iBlocks <= iBlocks'
      /\ Fresh(Allocated(n), iBlocks', BlocksOf(aStreams))
      /\ Allocated(n) \in Seq(Nat) /\ Len(Allocated(n)) = n
  BY AllocatedFresh DEF Owned, Fresh
<1>3. aStreams[i].aBlocks \in Seq(Nat)
  BY <1>1, SeqElem, StreamFields
<1>4. PICK a : a = aStreams[i].aBlocks \o Allocated(n)
  OBVIOUS
<1>5. a \in Seq(Nat) /\ Len(a) = Len(aStreams[i].aBlocks) + n
  BY <1>2, <1>3, <1>4, SeqConcat
<1>7. Updated(aStreams', aStreams, i, z, a)
  BY <1>4
<1>8. /\ Disjoint(aStreams', iBlocks')
      /\ BlocksOf(aStreams') \subseteq Owned \cup Range(Allocated(n))
  BY <1>1, <1>2, ExtendStream DEF Owned
<1>9. Fit(aStreams')
  BY <1>1, <1>5, <1>7 DEF Fit, Updated
<1>10. /\ aStreams' \in Seq(Stream) /\ aStreams' # << >>
       /\ DOMAIN aStreams' = DOMAIN aStreams
  BY <1>7 DEF Updated
<1> QED BY <1>8, <1>9, <1>10

(* The assignment of the actions that extend a stream. *)
LEMMA ExtensionUpdates ==
  ASSUME IndInv, NEW n \in Nat, findEmptyBlocks(n),
         NEW i \in DOMAIN aStreams, NEW z \in Nat
  PROVE  Updated([aStreams EXCEPT ![i].iSize = z,
                                  ![i].aBlocks = @ \o Allocated(n)],
                 aStreams, i, z, aStreams[i].aBlocks \o Allocated(n))
<1>1. aStreams \in Seq(Stream)
  BY DEF IndInv, TypeOK
<1>2. aStreams[i].aBlocks \in Seq(Nat) /\ Allocated(n) \in Seq(Nat)
  BY <1>1, SeqElem, StreamFields, AllocatedFresh DEF Fresh
<1>3. aStreams[i].aBlocks \o Allocated(n) \in Seq(Nat)
  BY <1>2, SeqConcat
<1> QED BY <1>1, <1>3, ListUpdate, Zenon

(* Blocks of a stream and its size are numbers. *)
LEMMA StreamNumbers ==
  ASSUME IndInv, NEW i \in DOMAIN aStreams
  PROVE  /\ aStreams[i] \in Stream /\ aStreams[i].iSize \in Nat
         /\ aStreams[i].aBlocks \in Seq(Nat)
         /\ Len(aStreams[i].aBlocks) \in Nat
         /\ aStreams[i].iSize <= Len(aStreams[i].aBlocks) * BlockSize
         /\ BlockSize \in Nat \ {0}
<1>1. aStreams \in Seq(Stream) /\ Fit(aStreams)
  BY DEF IndInv, TypeOK, StreamsFit
<1>2. aStreams[i] \in Stream
  BY <1>1, SeqElem
<1>3. aStreams[i].iSize \in Nat /\ aStreams[i].aBlocks \in Seq(Nat)
  BY <1>2, StreamFields
<1> QED BY <1>1, <1>2, <1>3, ConstantsAssumption DEF Fit

(* setStreamSize, growing. *)
LEMMA GrowKeeps ==
  ASSUME IndInv, NEW i \in DOMAIN aStreams, NEW z \in Sizes, Grow(i, z)
  PROVE  IndInv'
<1> DEFINE len == Len(aStreams[i].aBlocks)
           needed == blkDiv(z, BlockSize)
           added == IF needed > len THEN needed - len ELSE 0
<1>1. z \in Nat /\ len \in Nat /\ BlockSize \in Nat \ {0}
  BY StreamNumbers, ConstantsAssumption
<1>2. needed \in Nat /\ z <= needed * BlockSize
  BY <1>1, BlkDivEnough
<1>3. /\ findEmptyBlocks(added)
      /\ aStreams' = [aStreams EXCEPT ![i].iSize = z,
                                      ![i].aBlocks = @ \o Allocated(added)]
      /\ bHeaderChanged' = TRUE /\ diskHeader' = diskHeader
  BY DEF Grow
<1> HIDE DEF needed, len
<1>4. added \in Nat /\ len + added \in Nat /\ needed <= len + added
  BY <1>1, <1>2
<1> HIDE DEF added
<1>5. z <= (len + added) * BlockSize
  <2>1. needed * BlockSize <= (len + added) * BlockSize
    BY <1>1, <1>2, <1>4, MulMono
  <2>2. needed * BlockSize \in Nat /\ (len + added) * BlockSize \in Nat
    BY <1>1, <1>2, <1>4
  <2> QED BY <1>1, <1>2, <2>1, <2>2
<1>6. Updated(aStreams', aStreams, i, z, aStreams[i].aBlocks \o Allocated(added))
  BY <1>1, <1>3, <1>4, ExtensionUpdates, Zenon
<1> QED BY <1>1, <1>3, <1>4, <1>5, <1>6, ExtensionFacts, AllocationKeeps DEF len

(* One pass of write: the position lies at or after the end, so the bytes  *)
(* added still fit into the blocks up to the one written.                  *)
LEMMA WriteKeeps ==
  ASSUME IndInv, NEW i \in DOMAIN aStreams, NEW pos \in Sizes,
         NEW amnt \in Chunks, WriteChunk(i, pos, amnt)
  PROVE  IndInv'
<1> DEFINE len == Len(aStreams[i].aBlocks)
           size == aStreams[i].iSize
           q == pos \div BlockSize
           added == IF q < len THEN 0 ELSE 1
           z == size + amnt
<1>1. /\ pos \in Nat /\ amnt \in Nat /\ len \in Nat /\ BlockSize \in Nat \ {0}
      /\ size \in Nat /\ size <= len * BlockSize
  BY StreamNumbers, ConstantsAssumption
<1>2. /\ findEmptyBlocks(added)
      /\ aStreams' = [aStreams EXCEPT ![i].iSize = z,
                                      ![i].aBlocks = @ \o Allocated(added)]
      /\ bHeaderChanged' = TRUE /\ diskHeader' = diskHeader
      /\ pos >= size /\ amnt <= BlockSize - (pos % BlockSize)
  BY DEF WriteChunk
<1>3. q \in Nat /\ pos % BlockSize \in Nat /\ pos = BlockSize * q + (pos % BlockSize)
  <2>1. /\ pos \div BlockSize \in Nat /\ pos % BlockSize \in 0..(BlockSize - 1)
        /\ pos = BlockSize * (pos \div BlockSize) + (pos % BlockSize)
    BY <1>1, DivMod, Zenon
  <2>2. pos % BlockSize \in Nat
    BY <1>1, <2>1
  <2> QED BY <2>1, <2>2, Zenon
<1> HIDE DEF len, size, q
<1>4. z \in Nat /\ z <= (len + added) * BlockSize
  <2>1. CASE q < len
    <3>1. (q + 1) * BlockSize <= len * BlockSize
      BY <1>1, <1>3, <2>1, MulMono
    <3>2. (q + 1) * BlockSize = BlockSize * q + BlockSize
      BY <1>1, <1>3
    <3>3. len + added = len
      BY <1>1, <2>1
    <3> QED BY <1>1, <1>2, <1>3, <3>1, <3>2, <3>3
  <2>2. CASE ~ (q < len)
    <3>1. (len + 1) * BlockSize = len * BlockSize + BlockSize
      BY <1>1
    <3>2. amnt <= BlockSize
      BY <1>1, <1>2, <1>3
    <3>3. len + added = len + 1
      BY <2>2
    <3> QED BY <1>1, <3>1, <3>2, <3>3
  <2> QED BY <2>1, <2>2
<1>5. added \in Nat
  OBVIOUS
<1> HIDE DEF added, z
<1>6. Updated(aStreams', aStreams, i, z, aStreams[i].aBlocks \o Allocated(added))
  BY <1>2, <1>4, <1>5, ExtensionUpdates, Zenon
<1> QED BY <1>2, <1>4, <1>5, <1>6, ExtensionFacts, AllocationKeeps DEF len

(* The header as updateHeader writes it: every block list cut to what the  *)
(* size needs.                                                             *)
LEMMA ImageSound ==
  ASSUME NEW S \in Seq(Stream), S # << >>, NEW B, Disjoint(S, B), Fit(S)
  PROVE  /\ HeaderImage(S) \in Seq(Stream) /\ HeaderImage(S) # << >>
         /\ Disjoint(HeaderImage(S), B) /\ Fit(HeaderImage(S))
<1> DEFINE T == HeaderImage(S)
           n(s) == blkDiv(S[s].iSize, BlockSize)
           f == [s \in DOMAIN S |-> s]
<1>0. BlockSize \in Nat \ {0}
  BY ConstantsAssumption
<1>1. ASSUME NEW s \in DOMAIN S
      PROVE  /\ S[s] \in Stream /\ S[s].iSize \in Nat /\ S[s].aBlocks \in Seq(Nat)
             /\ n(s) \in Nat /\ n(s) <= Len(S[s].aBlocks)
             /\ S[s].iSize <= n(s) * BlockSize
  <2>1. S[s] \in Stream /\ S[s].iSize \in Nat /\ S[s].aBlocks \in Seq(Nat)
    BY SeqElem, StreamFields
  <2>2. S[s].iSize <= Len(S[s].aBlocks) * BlockSize /\ Len(S[s].aBlocks) \in Nat
    BY <2>1 DEF Fit
  <2> QED BY <1>0, <2>1, <2>2, BlkDivEnough, BlkDivLeast
<1>2. DOMAIN T = DOMAIN S
  BY DEF HeaderImage
<1>3. ASSUME NEW s \in DOMAIN S
      PROVE  /\ T[s] \in Stream /\ T[s].iSize = S[s].iSize
             /\ T[s].aBlocks \in Seq(Nat) /\ Len(T[s].aBlocks) = n(s)
             /\ \A k \in DOMAIN T[s].aBlocks :
                  k \in DOMAIN S[s].aBlocks /\ T[s].aBlocks[k] = S[s].aBlocks[k]
  <2>1. PICK a : a = SubSeq(S[s].aBlocks, 1, n(s))
    OBVIOUS
  <2>2. /\ a \in Seq(Nat) /\ Len(a) = n(s)
        /\ \A k \in DOMAIN a : k \in DOMAIN S[s].aBlocks /\ a[k] = S[s].aBlocks[k]
    BY <1>1, <2>1, SeqFirst
  <2>3. T[s] = [S[s] EXCEPT !.aBlocks = a]
    BY <2>1 DEF HeaderImage
  <2>4. T[s] \in Stream /\ T[s].iSize = S[s].iSize /\ T[s].aBlocks = a
    BY <1>1, <2>2, <2>3 DEF Stream
  <2> QED BY <2>2, <2>4
<1> HIDE DEF T, n
<1>4. T \in Seq(Stream) /\ T # << >>
  <2>1. T = [s \in DOMAIN S |-> T[s]] /\ DOMAIN S = 1..Len(S) /\ Len(S) \in Nat
    BY DEF T, HeaderImage
  <2>2. T \in [1..Len(S) -> Stream]
    BY <1>3, <2>1
  <2>3. T \in Seq(Stream) /\ Len(T) = Len(S)
    BY <2>1, <2>2, SeqOfFunction
  <2> QED BY <2>3
<1>5. PartOf(T, S, f)
  BY <1>2, <1>3 DEF PartOf
<1>6. Disjoint(T, B)
  BY <1>5, PartDisjoint
<1>7. Fit(T)
  BY <1>1, <1>2, <1>3 DEF Fit
<1> QED BY <1>4, <1>6, <1>7 DEF T

(* The places in the block lists are finitely many. *)
LEMMA EntriesFinite ==
  ASSUME NEW S \in Seq(Stream)
  PROVE  Cardinality(Entries(S)) \in Nat /\ IsFiniteSet(Entries(S))
<1> DEFINE row(s) == {<<s, k>> : k \in DOMAIN S[s].aBlocks}
<1>1. ASSUME NEW s \in DOMAIN S PROVE IsFiniteSet(row(s))
  <2>1. S[s].aBlocks \in Seq(Nat)
    BY SeqElem, StreamFields
  <2>2. DOMAIN S[s].aBlocks = 1..Len(S[s].aBlocks) /\ Len(S[s].aBlocks) \in Nat
    BY <2>1
  <2>3. IsFiniteSet(DOMAIN S[s].aBlocks)
    BY <2>2, FS_Interval
  <2>4. IsFiniteSet({s} \X DOMAIN S[s].aBlocks)
    BY <2>3, FS_Singleton, FS_Product
  <2>5. row(s) \subseteq {s} \X DOMAIN S[s].aBlocks
    OBVIOUS
  <2> QED BY <2>4, <2>5, FS_Subset
<1>2. IsFiniteSet(DOMAIN S)
  <2>1. DOMAIN S = 1..Len(S) /\ Len(S) \in Nat
    OBVIOUS
  <2> QED BY <2>1, FS_Interval
<1>3. IsFiniteSet({row(s) : s \in DOMAIN S})
  <2> DEFINE g == [s \in DOMAIN S |-> row(s)]
  <2>1. g \in Surjection(DOMAIN S, {row(s) : s \in DOMAIN S})
    BY DEF Surjection
  <2> QED BY <1>2, <2>1, FS_Surjection
<1>4. IsFiniteSet(UNION {row(s) : s \in DOMAIN S})
  BY <1>1, <1>3, FS_UNION
<1> QED BY <1>4, FS_CardinalityType DEF Entries

(* updateHeader: stream zero grows until it holds the header. *)
LEMMA UpdateHeaderKeeps ==
  ASSUME IndInv, updateHeader
  PROVE  IndInv'
<1>1. /\ aStreams \in Seq(Stream) /\ aStreams # << >> /\ 1 \in DOMAIN aStreams
      /\ Len(aStreams) \in Nat /\ MaxBlocks \in Nat
  BY ConstantsAssumption DEF IndInv, TypeOK
<1>2. PICK m \in 0..MaxBlocks :
        /\ HeaderHolds(m)
        /\ findEmptyBlocks(m)
        /\ aStreams' = [aStreams EXCEPT ![1].iSize = HeaderBytes + 4 * m,
                                        ![1].aBlocks = @ \o Allocated(m)]
  BY DEF updateHeader
<1> DEFINE len == Len(aStreams[1].aBlocks)
           z == HeaderBytes + 4 * m
<1>3. m \in Nat /\ len \in Nat /\ z \in Nat /\ BlockSize \in Nat \ {0}
  <2>1. Cardinality(Entries(aStreams)) \in Nat
    BY <1>1, EntriesFinite
  <2>2. m \in Nat
    BY <1>1, <1>2
  <2>3. len \in Nat /\ BlockSize \in Nat \ {0}
    BY <1>1, StreamNumbers
  <2> QED BY <1>1, <2>1, <2>2, <2>3 DEF HeaderBytes
<1>4. blkDiv(z, BlockSize) <= len + m
  BY <1>2 DEF HeaderHolds
<1> HIDE DEF len, z
<1>5. z <= (len + m) * BlockSize
  <2>1. blkDiv(z, BlockSize) \in Nat /\ z <= blkDiv(z, BlockSize) * BlockSize
    BY <1>3, BlkDivEnough
  <2>2. blkDiv(z, BlockSize) * BlockSize <= (len + m) * BlockSize
    BY <1>3, <1>4, <2>1, MulMono
  <2>3. blkDiv(z, BlockSize) * BlockSize \in Nat /\ (len + m) * BlockSize \in Nat
    BY <1>3, <2>1
  <2> QED BY <1>3, <2>1, <2>2, <2>3
<1>6. Updated(aStreams', aStreams, 1, z, aStreams[1].aBlocks \o Allocated(m))
  <2>1. aStreams' = [aStreams EXCEPT ![1].iSize = z,
                                     ![1].aBlocks = @ \o Allocated(m)]
    BY <1>2 DEF z
  <2>2. findEmptyBlocks(m) /\ m \in Nat /\ z \in Nat /\ 1 \in DOMAIN aStreams
    BY <1>1, <1>2, <1>3
  <2>3. Updated([aStreams EXCEPT ![1].iSize = z, ![1].aBlocks = @ \o Allocated(m)],
                aStreams, 1, z, aStreams[1].aBlocks \o Allocated(m))
    BY <2>2, ExtensionUpdates
  <2> QED BY <2>1, <2>3, Zenon
<1>7. /\ aStreams' \in Seq(Stream) /\ aStreams' # << >>
      /\ Disjoint(aStreams', iBlocks')
      /\ BlocksOf(aStreams') \subseteq Owned \cup Range(Allocated(m))
      /\ Fit(aStreams')
  BY <1>1, <1>2, <1>3, <1>5, <1>6, ExtensionFacts DEF len
<1>8. CASE diskHeader' = HeaderImage(aStreams')
  <2>1. /\ diskHeader' \in Seq(Stream) /\ diskHeader' # << >>
        /\ Disjoint(diskHeader', iBlocks') /\ Fit(diskHeader')
    BY <1>7, <1>8, ImageSound
  <2>2. bHeaderChanged' \in BOOLEAN
    BY DEF updateHeader
  <2>3. findEmptyBlocks(m) /\ m \in Nat
    BY <1>2, <1>3
  <2> QED BY <1>7, <2>1, <2>2, <2>3, AllocationKeepsDisk, Zenon
<1>9. CASE diskHeader' = diskHeader
  <2>1. bHeaderChanged' \in BOOLEAN
    BY DEF updateHeader
  <2> QED BY <1>2, <1>3, <1>7, <1>9, <2>1, AllocationKeeps
<1> QED BY <1>8, <1>9 DEF updateHeader

(* Giving up blocks: what is freed is no longer in a stream. *)
LEMMA ReleaseKeeps ==
  ASSUME IndInv, NEW f, PartOf(aStreams', aStreams, f),
         aStreams' \in Seq(Stream), aStreams' # << >>, Fit(aStreams'),
         NEW F, Fresh(F, iBlocks, BlocksOf(aStreams')),
         \A k \in DOMAIN F : F[k] \in Owned,
         lFreeBlocks' = lFreeBlocks \o F, iUsed' \in Int,
         bHeaderChanged' \in BOOLEAN,
         UNCHANGED <<iBlocks, storeBlocks, diskHeader>>
  PROVE  IndInv'
<1>1. Disjoint(aStreams, iBlocks) /\ Fresh(lFreeBlocks, iBlocks, Owned)
  BY FreeFresh DEF IndInv, NoSharedBlocks
<1>2. Disjoint(aStreams', iBlocks) /\ BlocksOf(aStreams') \subseteq Owned
  BY <1>1, PartDisjoint DEF Owned
<1>3. Fresh(lFreeBlocks, iBlocks, BlocksOf(aStreams'))
  BY <1>1, <1>2 DEF Fresh
<1>4. \A k \in DOMAIN lFreeBlocks, l \in DOMAIN F : lFreeBlocks[k] # F[l]
  BY <1>1 DEF Fresh
<1>5. Fresh(lFreeBlocks', iBlocks, BlocksOf(aStreams'))
  BY <1>3, <1>4, ConcatFresh
<1>6. TypeOK'
  BY <1>5 DEF IndInv, TypeOK, Fresh
<1>7. NoSharedBlocks'
  BY <1>2, <1>5 DEF NoSharedBlocks, Fresh, Owned
<1>8. DiskHeaderSound' /\ Fit(diskHeader')
  BY DEF IndInv, DiskHeaderSound
<1> QED BY <1>6, <1>7, <1>8 DEF IndInv, StreamsFit

(* RemoveAt takes one element out. *)
LEMMA SeqRemove ==
  ASSUME NEW X, NEW S \in Seq(X), NEW i \in DOMAIN S
  PROVE  /\ RemoveAt(S, i) \in Seq(X) /\ Len(RemoveAt(S, i)) = Len(S) - 1
         /\ \A s \in 1..(Len(S) - 1) :
              RemoveAt(S, i)[s] = IF s < i THEN S[s] ELSE S[s + 1]
<1>a. /\ SubSeq(S, 1, i - 1) \in Seq(X)
      /\ Len(SubSeq(S, 1, i - 1)) = i - 1
  OBVIOUS
<1>b. /\ SubSeq(S, i + 1, Len(S)) \in Seq(X)
      /\ Len(SubSeq(S, i + 1, Len(S))) = Len(S) - i
  OBVIOUS
<1>c. i \in Nat /\ Len(S) \in Nat /\ i >= 1 /\ i <= Len(S)
  OBVIOUS
<1>1. PICK a \in Seq(X), b \in Seq(X) :
        a = SubSeq(S, 1, i - 1) /\ b = SubSeq(S, i + 1, Len(S))
  BY <1>a, <1>b
<1>2. /\ Len(a) = i - 1 /\ Len(b) = Len(S) - i
      /\ \A k \in 1..(i - 1) : a[k] = S[k]
      /\ \A k \in 1..(Len(S) - i) : b[k] = S[k + i]
      /\ i \in Nat /\ Len(S) \in Nat /\ i >= 1 /\ i <= Len(S)
  <2>1. Len(a) = i - 1 /\ Len(b) = Len(S) - i
    BY <1>a, <1>b, <1>1
  <2>2. \A k \in 1..(i - 1) : SubSeq(S, 1, i - 1)[k] = S[k]
    BY <1>c
  <2>3. \A k \in 1..(Len(S) - i) : SubSeq(S, i + 1, Len(S))[k] = S[k + i]
    BY <1>c
  <2> QED BY <1>c, <1>1, <2>1, <2>2, <2>3, Zenon
<1>3. PICK T : T = a \o b
  OBVIOUS
<1>4. /\ T \in Seq(X) /\ Len(T) = Len(a) + Len(b)
      /\ \A k \in 1..Len(a) : T[k] = a[k]
      /\ \A k \in 1..Len(b) : T[Len(a) + k] = b[k]
  BY <1>3
<1>5. ASSUME NEW s \in 1..(Len(S) - 1)
      PROVE  T[s] = IF s < i THEN S[s] ELSE S[s + 1]
  <2>1. CASE s < i
    <3>1. s \in 1..(i - 1)
      BY <1>2, <2>1
    <3> QED BY <1>2, <1>4, <2>1, <3>1
  <2>2. CASE ~ (s < i)
    <3>1. s \in Nat /\ Len(a) = i - 1 /\ Len(b) = Len(S) - i
      BY <1>2
    <3>2. s - i + 1 \in 1..(Len(S) - i) /\ Len(a) + (s - i + 1) = s
      BY <1>c, <2>2, <3>1
    <3>3. (s - i + 1) + i = s + 1
      BY <1>c, <3>1
    <3>4. T[Len(a) + (s - i + 1)] = b[s - i + 1]
      BY <1>4, <3>1, <3>2
    <3>5. b[s - i + 1] = S[(s - i + 1) + i]
      BY <1>2, <3>2
    <3> QED BY <2>2, <3>2, <3>3, <3>4, <3>5
  <2> QED BY <2>1, <2>2
<1>6. RemoveAt(S, i) = T
  BY <1>1, <1>3 DEF RemoveAt
<1>7. T \in Seq(X) /\ Len(T) = Len(S) - 1
  BY <1>2, <1>4
<1> QED BY <1>5, <1>6, <1>7

(* deleteStream frees all blocks of a stream other than the last one left. *)
LEMMA DeleteKeeps ==
  ASSUME IndInv, NEW i \in DOMAIN aStreams, aStreams # <<aStreams[i]>>,
         deleteStream(i)
  PROVE  IndInv'
<1> DEFINE S == aStreams
           T == RemoveAt(aStreams, i)
           F == aStreams[i].aBlocks
           f == [s \in 1..(Len(S) - 1) |-> IF s < i THEN s ELSE s + 1]
<1>1. /\ S \in Seq(Stream) /\ Len(S) \in Nat /\ i \in 1..Len(S)
      /\ Disjoint(S, iBlocks) /\ Fit(S) /\ DOMAIN S = 1..Len(S)
  BY DEF IndInv, TypeOK, NoSharedBlocks, StreamsFit
<1>2. /\ T \in Seq(Stream) /\ Len(T) = Len(S) - 1
      /\ \A s \in 1..(Len(S) - 1) : T[s] = IF s < i THEN S[s] ELSE S[s + 1]
  BY <1>1, SeqRemove
<1>3. /\ aStreams' = T /\ lFreeBlocks' = lFreeBlocks \o F
      /\ iUsed' = iUsed - Len(F) /\ bHeaderChanged' = TRUE
      /\ UNCHANGED <<iBlocks, storeBlocks, diskHeader>>
  BY DEF deleteStream
<1> HIDE DEF T
<1>4. DOMAIN T = 1..(Len(S) - 1)
  BY <1>1, <1>2
<1>5. \A s \in DOMAIN T : f[s] \in DOMAIN S /\ f[s] # i /\ T[s] = S[f[s]]
  <2> TAKE s \in DOMAIN T
  <2>1. s \in 1..(Len(S) - 1)
    BY <1>4
  <2>2. CASE s < i
    BY <1>1, <1>2, <2>1, <2>2
  <2>3. CASE ~ (s < i)
    <3>1. f[s] = s + 1 /\ T[s] = S[s + 1]
      BY <1>2, <2>1, <2>3
    <3>2. s + 1 \in 1..Len(S) /\ s + 1 # i
      BY <1>1, <2>1, <2>3
    <3> QED BY <1>1, <3>1, <3>2
  <2> QED BY <2>2, <2>3
<1>6. \A s, t \in DOMAIN T : f[s] = f[t] => s = t
  BY <1>1, <1>4
<1> HIDE DEF f
<1>7. PartOf(T, S, f)
  BY <1>5, <1>6 DEF PartOf
<1>8. Len(S) # 1
  <2>1. SUFFICES ASSUME Len(S) = 1 PROVE FALSE
    OBVIOUS
  <2>2. i = 1 /\ S = <<S[1]>>
    BY <1>1, <2>1
  <2> QED BY <2>2
<1>9. T # << >>
  BY <1>1, <1>2, <1>8
<1>10. Fit(T)
  BY <1>1, <1>5 DEF Fit
<1>11. F \in Seq(Nat) /\ Len(F) \in Nat
  BY StreamNumbers
<1>12. \A k \in DOMAIN F : F[k] < iBlocks /\ F[k] \notin BlocksOf(T) /\ F[k] \in Owned
  <2> TAKE k \in DOMAIN F
  <2>1. F[k] < iBlocks
    BY <1>1 DEF Disjoint
  <2>2. F[k] \notin BlocksOf(T)
    BY <1>1, <1>5, <1>7, PartDrops
  <2>3. F[k] \in Owned
    BY BlocksOfElem DEF Owned
  <2> QED BY <2>1, <2>2, <2>3
<1>13. IsInjective(F)
  BY <1>1 DEF Disjoint, IsInjective
<1>14. Fresh(F, iBlocks, BlocksOf(T))
  BY <1>11, <1>12, <1>13 DEF Fresh
<1>15. iUsed' \in Int
  BY <1>3, <1>11 DEF IndInv, TypeOK
<1> QED BY <1>2, <1>3, <1>7, <1>9, <1>10, <1>12, <1>14, <1>15, ReleaseKeeps

(* setStreamSize, shrinking: the blocks past the kept ones are freed. *)
LEMMA ShrinkKeeps ==
  ASSUME IndInv, NEW i \in DOMAIN aStreams, NEW z \in Sizes, Shrink(i, z)
  PROVE  IndInv'
<1> DEFINE a == aStreams[i].aBlocks
           len == Len(a)
           kept == KeptBlocks(aStreams[i], z)
           F == [k \in 1..(len - kept) |-> a[len - k + 1]]
           b == SubSeq(a, 1, kept)
           f == [s \in DOMAIN aStreams |-> s]
<1>1. /\ aStreams \in Seq(Stream) /\ aStreams # << >>
      /\ Disjoint(aStreams, iBlocks) /\ Fit(aStreams)
  BY DEF IndInv, TypeOK, NoSharedBlocks, StreamsFit
<1>2. /\ z \in Nat /\ a \in Seq(Nat) /\ len \in Nat /\ BlockSize \in Nat \ {0}
      /\ aStreams[i].iSize \in Nat /\ aStreams[i].iSize <= len * BlockSize
  BY StreamNumbers, ConstantsAssumption
<1>3. /\ aStreams[i].iSize > z
      /\ lFreeBlocks' = lFreeBlocks \o F /\ iUsed' = iUsed - (len - kept)
      /\ aStreams' = [aStreams EXCEPT ![i].iSize = z, ![i].aBlocks = b]
      /\ bHeaderChanged' = TRUE
      /\ UNCHANGED <<iBlocks, storeBlocks, diskHeader>>
  BY DEF Shrink
<1>4. kept \in Nat /\ kept <= len /\ z <= kept * BlockSize
  <2> DEFINE q == z \div BlockSize
  <2>1. /\ q \in Nat /\ z % BlockSize \in 0..(BlockSize - 1)
        /\ z = BlockSize * q + (z % BlockSize)
    BY <1>2, DivMod, Zenon
  <2>2. kept = IF q + 1 < len THEN q + 1 ELSE len
    BY DEF KeptBlocks
  <2> HIDE DEF q, kept, len
  <2>3. z <= (q + 1) * BlockSize
    BY <1>2, <2>1
  <2>4. z <= len * BlockSize
    <3>1. z < aStreams[i].iSize /\ len * BlockSize \in Nat
      BY <1>2, <1>3
    <3> QED BY <1>2, <3>1
  <2>5. CASE q + 1 < len
    BY <1>2, <2>1, <2>2, <2>3, <2>5
  <2>6. CASE ~ (q + 1 < len)
    BY <1>2, <2>2, <2>4, <2>6
  <2> QED BY <2>5, <2>6
<1> HIDE DEF kept
<1>5. /\ b \in Seq(Nat) /\ Len(b) = kept
      /\ \A k \in DOMAIN b : k \in DOMAIN a /\ b[k] = a[k]
  BY <1>2, <1>4, SeqFirst
<1> HIDE DEF b
<1>6. Updated(aStreams', aStreams, i, z, b)
  <2>1. Updated([aStreams EXCEPT ![i].iSize = z, ![i].aBlocks = b],
                aStreams, i, z, b)
    BY <1>1, <1>2, <1>5, ListUpdate
  <2> QED BY <1>3, <2>1, Zenon
<1>7. /\ aStreams' \in Seq(Stream) /\ aStreams' # << >> /\ Fit(aStreams')
      /\ DOMAIN aStreams' = DOMAIN aStreams
  <2>1. aStreams' \in Seq(Stream) /\ DOMAIN aStreams' = DOMAIN aStreams
    BY <1>6 DEF Updated
  <2>2. aStreams' # << >>
    BY <2>1
  <2>3. z <= Len(b) * BlockSize
    BY <1>4, <1>5
  <2>4. Fit(aStreams')
    BY <1>1, <1>6, <2>1, <2>3 DEF Updated, Fit
  <2> QED BY <2>1, <2>2, <2>4
<1>8. PartOf(aStreams', aStreams, f)
  BY <1>5, <1>6 DEF PartOf, Updated
<1>9. /\ DOMAIN a = 1..len
      /\ \A k \in 1..(len - kept) :
           /\ len - k + 1 \in DOMAIN a /\ len - k + 1 > kept
           /\ F[k] = a[len - k + 1]
  <2>1. DOMAIN a = 1..len
    BY <1>2
  <2>2. \A k \in 1..(len - kept) : F[k] = a[len - k + 1]
    BY Zenon
  <2> HIDE DEF F, a, len
  <2>3. \A k \in 1..(len - kept) : len - k + 1 \in 1..len /\ len - k + 1 > kept
    BY <1>2, <1>4
  <2> QED BY <2>1, <2>2, <2>3
<1>10. F \in Seq(Nat) /\ DOMAIN F = 1..(len - kept)
  <2>1. \A k \in 1..(len - kept) : a[len - k + 1] \in Nat
    BY <1>2, <1>9, BlockIndex
  <2>2. F \in [1..(len - kept) -> Nat] /\ len - kept \in Nat
    BY <1>2, <1>4, <2>1
  <2> QED BY <2>2, SeqOfFunction
<1> HIDE DEF F
<1>11. ASSUME NEW k \in DOMAIN F
       PROVE  /\ F[k] < iBlocks /\ F[k] \in Owned
              /\ F[k] \notin BlocksOf(aStreams')
  <2> DEFINE l == len - k + 1
  <2>1. l \in DOMAIN a /\ l > kept /\ F[k] = a[l]
    BY <1>9, <1>10
  <2> HIDE DEF l
  <2>2. a[l] < iBlocks /\ a[l] \in Owned
    BY <1>1, <2>1, BlocksOfElem DEF Disjoint, Owned
  <2>3. l \notin DOMAIN aStreams'[i].aBlocks
    BY <1>2, <1>4, <1>5, <1>6, <2>1 DEF Updated
  <2>4. \A s \in DOMAIN aStreams' : f[s] = i => l \notin DOMAIN aStreams'[s].aBlocks
    BY <1>7, <2>3
  <2>5. a[l] \notin BlocksOf(aStreams')
    BY <1>1, <1>8, <2>1, <2>4, PartDrops
  <2> QED BY <2>1, <2>2, <2>5
<1>12. IsInjective(F)
  <2>1. ASSUME NEW k \in DOMAIN F, NEW l \in DOMAIN F, F[k] = F[l]
        PROVE  k = l
    <3>0. /\ len - k + 1 \in DOMAIN a /\ len - l + 1 \in DOMAIN a
          /\ a[len - k + 1] = a[len - l + 1]
      BY <1>9, <1>10, <2>1
    <3>1. len - k + 1 = len - l + 1
      <4>1. \A x, y \in DOMAIN a : a[x] = a[y] => x = y
        BY <1>1 DEF Disjoint
      <4> QED BY <3>0, <4>1, Zenon
    <3>2. k \in Nat /\ l \in Nat
      BY <1>10, BlockIndex
    <3> QED BY <1>2, <3>1, <3>2
  <2> QED BY <2>1 DEF IsInjective
<1>13. Fresh(F, iBlocks, BlocksOf(aStreams'))
  BY <1>10, <1>11, <1>12 DEF Fresh
<1>14. iUsed' \in Int
  <2>1. iUsed \in Int /\ iUsed' = iUsed - (len - kept)
    BY <1>3 DEF IndInv, TypeOK
  <2>2. len \in Nat /\ kept \in Nat
    BY <1>2, <1>4
  <2> HIDE DEF len
  <2> QED BY <2>1, <2>2
<1> QED BY <1>3, <1>7, <1>8, <1>11, <1>13, <1>14, ReleaseKeeps

(* initialize( iBlockSize, iPreAllocate ) and the constructor: the blocks  *)
(* after the header are free.                                              *)
Formatted(pre) ==
  /\ aStreams = <<EmptyHeader>>
  /\ lFreeBlocks = FreshBlocks(pre)
  /\ iBlocks = pre + FormatBlocks
  /\ iUsed = FormatBlocks + 1
  /\ bHeaderChanged = TRUE
  /\ diskHeader = <<EmptyHeader>>
  /\ storeBlocks \in Nat /\ storeBlocks >= pre + FormatBlocks

(* A freshly formatted Myriad satisfies the inductive invariant. *)
LEMMA FormattedHolds ==
  ASSUME NEW pre \in Nat, Formatted(pre)
  PROVE  IndInv
<1>1. /\ FormatBlocks \in Nat \ {0} /\ BlockSize \in Nat \ {0}
      /\ 22 + 4 * FormatBlocks <= FormatBlocks * BlockSize
  BY FormatAssumption, ConstantsAssumption
<1> DEFINE a == [k \in 1..FormatBlocks |-> k - 1]
           h == EmptyHeader
           S == <<h>>
<1>2. a \in Seq(Nat) /\ Len(a) = FormatBlocks /\ DOMAIN a = 1..FormatBlocks
  <2>1. a \in [1..FormatBlocks -> Nat] /\ FormatBlocks \in Nat
    BY <1>1
  <2> HIDE DEF a
  <2> QED BY <2>1, SeqOfFunction
<1>3. h \in Stream /\ h.aBlocks = a /\ h.iSize = 22 + 4 * FormatBlocks
  BY <1>1, <1>2 DEF EmptyHeader, Stream
<1>4. \A k \in DOMAIN a : a[k] \in Nat /\ a[k] = k - 1 /\ a[k] < FormatBlocks
  BY <1>1, <1>2
<1> HIDE DEF a, h
<1>5. S \in Seq(Stream) /\ S # << >> /\ DOMAIN S = {1} /\ S[1] = h
  BY <1>3
<1> HIDE DEF S
<1>6. Fit(S)
  <2>1. h.iSize <= Len(h.aBlocks) * BlockSize
    BY <1>1, <1>2, <1>3
  <2> QED BY <1>5, <2>1 DEF Fit
<1>7. Disjoint(S, iBlocks)
  <2>1. \A k, l \in DOMAIN a : a[k] = a[l] => k = l
    BY <1>1, <1>2, <1>4
  <2>2. \A k \in DOMAIN a : a[k] < iBlocks
    BY <1>1, <1>4 DEF Formatted
  <2> QED BY <1>3, <1>5, <2>1, <2>2 DEF Disjoint
<1>8. \A b \in BlocksOf(S) : b \in Nat /\ b < FormatBlocks
  <2> TAKE b \in BlocksOf(S)
  <2>1. \E k \in DOMAIN a : a[k] = b
    BY <1>3, <1>5, BlocksOfElem
  <2> QED BY <1>4, <2>1
<1>9. /\ lFreeBlocks \in Seq(Nat) /\ DOMAIN lFreeBlocks = 1..pre
      /\ \A k \in 1..pre : lFreeBlocks[k] = FormatBlocks + k - 1
  <2>1. lFreeBlocks = [k \in 1..pre |-> FormatBlocks + k - 1]
    BY DEF Formatted, FreshBlocks
  <2>2. lFreeBlocks \in [1..pre -> Nat]
    BY <1>1, <2>1
  <2> QED BY <2>1, <2>2, SeqOfFunction
<1>10. aStreams = S /\ diskHeader = S
  BY DEF Formatted, S, h
<1>11. TypeOK
  BY <1>1, <1>5, <1>9, <1>10 DEF TypeOK, Formatted
<1>12. NoSharedBlocks
  <2>1. IsInjective(lFreeBlocks)
    BY <1>1, <1>9 DEF IsInjective
  <2>2. \A k \in DOMAIN lFreeBlocks : lFreeBlocks[k] < iBlocks
    BY <1>1, <1>9 DEF Formatted
  <2>3. \A k \in DOMAIN lFreeBlocks : lFreeBlocks[k] \notin BlocksOf(S)
    <3> TAKE k \in DOMAIN lFreeBlocks
    <3>1. ~ (lFreeBlocks[k] < FormatBlocks)
      BY <1>1, <1>9
    <3> QED BY <1>8, <3>1
  <2> QED BY <1>7, <1>10, <2>1, <2>2, <2>3 DEF NoSharedBlocks, Owned
<1>13. DiskHeaderSound
  BY <1>1, <1>7, <1>10 DEF DiskHeaderSound, Formatted
<1> QED BY <1>6, <1>10, <1>11, <1>12, <1>13 DEF IndInv, StreamsFit

(* initialize(): the blocks the header in the store does not name become   *)
(* free.                                                                   *)
LEMMA InitializeKeeps ==
  ASSUME IndInv, initialize
  PROVE  IndInv'
<1> DEFINE R == (0..(storeBlocks - 1)) \ BlocksOf(diskHeader)
<1>1. /\ diskHeader \in Seq(Stream) /\ diskHeader # << >>
      /\ Disjoint(diskHeader, iBlocks) /\ Fit(diskHeader)
      /\ iBlocks \in Nat /\ storeBlocks \in Nat /\ iBlocks <= storeBlocks
  BY DEF IndInv, TypeOK, DiskHeaderSound
<1>2. /\ aStreams' = diskHeader /\ iBlocks' = storeBlocks
      /\ lFreeBlocks' = Ascending(R)
      /\ iUsed' = Cardinality(Entries(diskHeader)) /\ bHeaderChanged' = FALSE
      /\ storeBlocks' = storeBlocks /\ diskHeader' = diskHeader
  BY DEF initialize
<1>3. R \in SUBSET Nat /\ IsFiniteSet(R)
  <2>1. IsFiniteSet(0..(storeBlocks - 1))
    BY <1>1, FS_Interval
  <2> QED BY <1>1, <2>1, FS_Subset
<1>4. \A r \in R : r \in Nat /\ r < storeBlocks /\ r \notin BlocksOf(diskHeader)
  BY <1>1
<1> HIDE DEF R
<1>5. /\ Ascending(R) \in Seq(R) /\ Ascending(R) \in Seq(Nat)
      /\ IsInjective(Ascending(R))
  BY <1>3, AscendingFresh
<1>6. \A k \in DOMAIN Ascending(R) : Ascending(R)[k] \in R
  BY <1>5, SeqElem
<1>7. Ascending(R) \in Seq(Nat)
  BY <1>5
<1>8. Disjoint(diskHeader, storeBlocks)
  BY <1>1, DisjointMono
<1>9. Cardinality(Entries(diskHeader)) \in Int
  BY <1>1, EntriesFinite
<1>10. TypeOK'
  BY <1>1, <1>2, <1>7, <1>9 DEF TypeOK
<1>11. NoSharedBlocks'
  BY <1>2, <1>4, <1>5, <1>6, <1>8 DEF NoSharedBlocks, Owned
<1>12. DiskHeaderSound'
  BY <1>1, <1>2, <1>8 DEF DiskHeaderSound
<1> QED BY <1>1, <1>2, <1>10, <1>11, <1>12 DEF IndInv, StreamsFit

-----------------------------------------------------------------------------
(* Stream zero is never deleted, so a list of streams is never empty. *)

HasZero(S) == \E s \in DOMAIN S : S[s].iId = 0

ZeroKept == HasZero(aStreams) /\ HasZero(diskHeader)

(* Changing sizes and block lists keeps the ids. *)
LEMMA UpdateKeepsZero ==
  ASSUME NEW S \in Seq(Stream), HasZero(S), NEW i \in DOMAIN S, NEW z, NEW a
  PROVE  HasZero([S EXCEPT ![i].iSize = z, ![i].aBlocks = a])
<1>1. PICK s \in DOMAIN S : S[s].iId = 0
  BY DEF HasZero
<1>2. S[i] \in Stream
  BY SeqElem
<1>3. PICK T : T = [S EXCEPT ![i].iSize = z, ![i].aBlocks = a]
  OBVIOUS
<1>4. T[s].iId = 0 /\ s \in DOMAIN T
  BY <1>1, <1>2, <1>3 DEF Stream
<1> QED BY <1>3, <1>4 DEF HasZero

(* Putting in a stream keeps the ids of the others. *)
LEMMA InsertKeepsZero ==
  ASSUME NEW S \in Seq(Stream), HasZero(S), NEW T, NEW i, NEW p,
         Inserted(T, S, i, p)
  PROVE  HasZero(T)
<1>1. PICK s \in DOMAIN S : S[s].iId = 0
  BY DEF HasZero
<1>2. /\ T \in Seq(Stream) /\ DOMAIN T = 1..(Len(S) + 1) /\ Len(S) \in Nat
      /\ i \in Nat /\ s \in 1..Len(S)
  BY DEF Inserted
<1>3. CASE s < i
  <2>1. s \in 1..(Len(S) + 1)
    BY <1>2
  <2>2. T[s] = S[s]
    BY <1>3, <2>1 DEF Inserted
  <2> QED BY <1>1, <1>2, <2>1, <2>2 DEF HasZero
<1>4. CASE ~ (s < i)
  <2>1. s + 1 \in 1..(Len(S) + 1) /\ s + 1 > i /\ (s + 1) - 1 = s
    BY <1>2, <1>4
  <2>2. T[s + 1] = S[s]
    BY <2>1 DEF Inserted
  <2> QED BY <1>1, <1>2, <2>1, <2>2 DEF HasZero
<1> QED BY <1>3, <1>4

(* Every action keeps stream zero. *)
LEMMA ZeroStep ==
  ASSUME IndInv, ZeroKept, [Next]_vars
  PROVE  ZeroKept'
<1>0. aStreams \in Seq(Stream) /\ HasZero(aStreams) /\ HasZero(diskHeader)
  BY DEF IndInv, TypeOK, ZeroKept
<1>1. ASSUME NEW pre \in PreAllocs, NEW pos, Format(pre, pos) PROVE ZeroKept'
  BY <1>1 DEF Format, ZeroKept, HasZero, EmptyHeader
<1>2. ASSUME NEW n \in PreAllocs, createStream(n) PROVE ZeroKept'
  <2>1. PICK p : aStreams' = Append(aStreams, p)
    BY <1>2 DEF createStream
  <2>2. HasZero(aStreams')
    BY <1>0, <2>1 DEF HasZero
  <2> QED BY <1>0, <1>2, <2>2 DEF createStream, ZeroKept
<1>3. ASSUME NEW id \in GivenIds, NEW n \in PreAllocs, createStreamWithId(id, n)
      PROVE  ZeroKept'
  <2>1. PICK p : p = [iId |-> id, iSize |-> 0, aBlocks |-> Allocated(n)]
    OBVIOUS
  <2>2. ASSUME aStreams' = Append(aStreams, p) PROVE HasZero(aStreams')
    BY <1>0, <2>2 DEF HasZero
  <2>3. ASSUME NEW i \in FirstAbove(id), aStreams' = InsertAt(aStreams, i, p)
        PROVE  HasZero(aStreams')
    <3>1. i \in 1..(Len(aStreams) + 1)
      BY <1>0 DEF FirstAbove
    <3>2. n \in Nat /\ id \in Int /\ findEmptyBlocks(n)
      BY <1>3, ConstantsAssumption DEF createStreamWithId
    <3>3. Allocated(n) \in Seq(Nat)
      BY <3>2, AllocatedFresh DEF Fresh
    <3>4. p \in Stream
      BY <2>1, <3>2, <3>3 DEF Stream
    <3>5. Inserted(aStreams', aStreams, i, p)
      BY <1>0, <2>3, <3>1, <3>4, SeqInsert
    <3> QED BY <1>0, <3>5, InsertKeepsZero
  <2>4. HasZero(aStreams')
    BY <1>0, <1>3, <2>1, <2>2, <2>3 DEF createStreamWithId
  <2> QED BY <1>0, <1>3, <2>4 DEF createStreamWithId, ZeroKept
<1>4. ASSUME NEW i \in DOMAIN aStreams, deleteStream(i) PROVE ZeroKept'
  <2>1. PICK s \in DOMAIN aStreams : aStreams[s].iId = 0
    BY <1>0 DEF HasZero
  <2>2. s # i
    BY <1>4, <2>1 DEF deleteStream
  <2>3. /\ RemoveAt(aStreams, i) \in Seq(Stream)
        /\ Len(RemoveAt(aStreams, i)) = Len(aStreams) - 1
        /\ \A t \in 1..(Len(aStreams) - 1) :
             RemoveAt(aStreams, i)[t] =
               IF t < i THEN aStreams[t] ELSE aStreams[t + 1]
    BY <1>0, SeqRemove
  <2>4. PICK T : T = RemoveAt(aStreams, i)
    OBVIOUS
  <2>5. s \in 1..Len(aStreams) /\ i \in 1..Len(aStreams) /\ Len(aStreams) \in Nat
    BY <1>0
  <2>6. DOMAIN T = 1..(Len(aStreams) - 1)
    BY <2>3, <2>4, <2>5
  <2>7. ASSUME s < i PROVE HasZero(T)
    BY <2>1, <2>3, <2>4, <2>5, <2>6, <2>7 DEF HasZero
  <2>8. ASSUME s > i PROVE HasZero(T)
    <3>1. /\ s - 1 \in 1..(Len(aStreams) - 1) /\ ~ (s - 1 < i)
          /\ (s - 1) + 1 = s
      BY <2>5, <2>8
    <3>2. T[s - 1] = aStreams[s]
      BY <2>3, <2>4, <3>1
    <3> QED BY <2>1, <2>6, <3>1, <3>2 DEF HasZero
  <2>9. HasZero(T)
    BY <2>2, <2>5, <2>7, <2>8
  <2> QED BY <1>0, <1>4, <2>4, <2>9 DEF deleteStream, ZeroKept
<1>5. ASSUME NEW i \in DOMAIN aStreams, NEW z \in Sizes, setStreamSize(i, z)
      PROVE  ZeroKept'
  <2>1. PICK a : aStreams' = [aStreams EXCEPT ![i].iSize = z, ![i].aBlocks = a]
    BY <1>5 DEF setStreamSize, Shrink, Grow
  <2> QED BY <1>0, <1>5, <2>1, UpdateKeepsZero
          DEF setStreamSize, Shrink, Grow, ZeroKept
<1>6. ASSUME NEW i \in DOMAIN aStreams, NEW pos \in Sizes, NEW n \in Chunks,
             WriteChunk(i, pos, n)
      PROVE  ZeroKept'
  <2>1. PICK z, a : aStreams' = [aStreams EXCEPT ![i].iSize = z, ![i].aBlocks = a]
    BY <1>6 DEF WriteChunk
  <2>2. HasZero(aStreams')
    BY <1>0, <2>1, UpdateKeepsZero
  <2> QED BY <1>0, <1>6, <2>2 DEF WriteChunk, ZeroKept
<1>7. ASSUME updateHeader PROVE ZeroKept'
  <2>1. PICK z, a : aStreams' = [aStreams EXCEPT ![1].iSize = z, ![1].aBlocks = a]
    BY <1>7 DEF updateHeader
  <2>2. 1 \in DOMAIN aStreams
    BY <1>0 DEF HasZero
  <2>3. HasZero(aStreams')
    BY <1>0, <2>1, <2>2, UpdateKeepsZero
  <2>4. HasZero(HeaderImage(aStreams'))
    <3>1. PICK s \in DOMAIN aStreams' : aStreams'[s].iId = 0
      BY <2>3 DEF HasZero
    <3>2. aStreams'[s] \in Stream
      <4>1. IndInv'
        BY <1>7, UpdateHeaderKeeps
      <4> QED BY <4>1, SeqElem DEF IndInv, TypeOK
    <3>3. HeaderImage(aStreams')[s].iId = 0 /\ s \in DOMAIN HeaderImage(aStreams')
      BY <3>1, <3>2 DEF HeaderImage, Stream
    <3> QED BY <3>3 DEF HasZero
  <2> QED BY <1>0, <1>7, <2>3, <2>4 DEF updateHeader, ZeroKept
<1>8. ASSUME initialize PROVE ZeroKept'
  BY <1>0, <1>8 DEF initialize, ZeroKept
<1>9. CASE UNCHANGED vars
  BY <1>0, <1>9 DEF vars, ZeroKept
<1> QED BY <1>1, <1>2, <1>3, <1>4, <1>5, <1>6, <1>7, <1>8, <1>9 DEF Next, Handles

-----------------------------------------------------------------------------
(* The theorems. *)

(* The initial states have the invariant. *)
LEMMA InitHolds ==
  ASSUME Init
  PROVE  IndInv /\ ZeroKept
<1>1. PICK pre \in PreAllocs :
        /\ aStreams = <<EmptyHeader>>
        /\ lFreeBlocks = FreshBlocks(pre)
        /\ iBlocks = pre + FormatBlocks
        /\ iUsed = FormatBlocks + 1
        /\ bHeaderChanged = TRUE
        /\ diskHeader = <<EmptyHeader>>
        /\ storeBlocks = pre + FormatBlocks
  BY DEF Init
<1>2. pre \in Nat /\ FormatBlocks \in Nat
  BY ConstantsAssumption, FormatAssumption
<1>3. Formatted(pre)
  BY <1>1, <1>2 DEF Formatted
<1>4. ZeroKept
  BY <1>1 DEF ZeroKept, HasZero, EmptyHeader
<1> QED BY <1>2, <1>3, <1>4, FormattedHolds

(* The same as a formula, to be primed below. *)
LEMMA FormattedSound == \A pre \in Nat : Formatted(pre) => IndInv
  BY FormattedHolds

(* The same in the next state. *)
LEMMA FormattedSoundNext == (\A pre \in Nat : Formatted(pre) => IndInv)'
  BY FormattedSound, PTL

(* Formatting a store again. *)
LEMMA FormatKeeps ==
  ASSUME IndInv, NEW pre \in PreAllocs, NEW pos \in 0..storeBlocks,
         Format(pre, pos)
  PROVE  IndInv'
<1>1. pre \in Nat /\ FormatBlocks \in Nat /\ storeBlocks \in Nat /\ pos \in Nat
  BY ConstantsAssumption, FormatAssumption DEF IndInv, TypeOK
<1>2. storeBlocks' \in Nat /\ storeBlocks' >= pre + FormatBlocks
  BY <1>1 DEF Format
<1>3. Formatted(pre)'
  BY <1>2 DEF Format, Formatted
<1> QED BY <1>1, <1>3, FormattedSoundNext

(* Every step keeps the invariant. *)
LEMMA StepKeeps ==
  ASSUME IndInv, ZeroKept, [Next]_vars
  PROVE  IndInv' /\ ZeroKept'
<1>1. ASSUME NEW pre \in PreAllocs, NEW pos \in 0..storeBlocks, Format(pre, pos)
      PROVE  IndInv'
  BY <1>1, FormatKeeps
<1>2. ASSUME NEW n \in PreAllocs, createStream(n) PROVE IndInv'
  BY <1>2, CreateKeeps
<1>3. ASSUME NEW id \in GivenIds, NEW n \in PreAllocs, createStreamWithId(id, n)
      PROVE  IndInv'
  BY <1>3, CreateWithIdKeeps
<1>4. ASSUME NEW i \in DOMAIN aStreams, deleteStream(i) PROVE IndInv'
  <2>1. PICK s \in DOMAIN aStreams : aStreams[s].iId = 0
    BY DEF ZeroKept, HasZero
  <2>2. aStreams[i].iId # 0
    BY <1>4 DEF deleteStream
  <2>3. aStreams # <<aStreams[i]>>
    BY <2>1, <2>2
  <2> QED BY <1>4, <2>3, DeleteKeeps
<1>5. ASSUME NEW i \in DOMAIN aStreams, NEW z \in Sizes, setStreamSize(i, z)
      PROVE  IndInv'
  BY <1>5, ShrinkKeeps, GrowKeeps DEF setStreamSize
<1>6. ASSUME NEW i \in DOMAIN aStreams, NEW pos \in Sizes, NEW n \in Chunks,
             WriteChunk(i, pos, n)
      PROVE  IndInv'
  BY <1>6, WriteKeeps
<1>7. ASSUME updateHeader PROVE IndInv'
  BY <1>7, UpdateHeaderKeeps
<1>8. ASSUME initialize PROVE IndInv'
  BY <1>8, InitializeKeeps
<1>9. CASE UNCHANGED vars
  <2>1. IndInv'
    BY <1>9 DEF vars, IndInv, TypeOK, NoSharedBlocks, DiskHeaderSound,
                StreamsFit, Owned
  <2> QED BY <2>1, ZeroStep
<1>10. CASE Next
  <2>1. IndInv'
    BY <1>1, <1>2, <1>3, <1>4, <1>5, <1>6, <1>7, <1>8, <1>10 DEF Next, Handles
  <2> QED BY <2>1, ZeroStep
<1> QED BY <1>9, <1>10

(* The invariant holds in every state the code can reach. *)
THEOREM Invariance == Spec => [](IndInv /\ ZeroKept)
<1>1. Init => IndInv /\ ZeroKept
  BY InitHolds
<1>2. IndInv /\ ZeroKept /\ [Next]_vars => (IndInv /\ ZeroKept)'
  BY StepKeeps
<1> QED BY <1>1, <1>2, PTL DEF Spec

(* The allocator and the header code of myriad.cpp keep their variables in *)
(* their types, and aStreams is never empty, so that aStreams.last() and   *)
(* aStreams[0] are always there.                                           *)
THEOREM TypeCorrect == Spec => []TypeOK
<1>1. IndInv => TypeOK
  BY DEF IndInv
<1> QED BY Invariance, <1>1, PTL

(* For every block size, every store and every sequence of operations of   *)
(* myriad.cpp, crashes between them included, no block is in two streams,  *)
(* twice in one stream, or in a stream and free.                           *)
THEOREM BlocksNotShared == Spec => []NoSharedBlocks
<1>1. IndInv => NoSharedBlocks
  BY DEF IndInv
<1> QED BY Invariance, <1>1, PTL

(* Whatever header a crash brings back, initialize() can read it: it names *)
(* no block twice and no block the store does not have.                    *)
THEOREM CrashSafeHeader == Spec => []DiskHeaderSound
<1>1. IndInv => DiskHeaderSound
  BY DEF IndInv
<1> QED BY Invariance, <1>1, PTL

(* updateHeader never indexes aBlocks out of range: every stream has the   *)
(* blocks its size needs, after every resize and write.                    *)
THEOREM SizesFit == Spec => []StreamsFit
<1>1. IndInv => StreamsFit
  BY DEF IndInv
<1> QED BY Invariance, <1>1, PTL

-----------------------------------------------------------------------------
(* What a step may do to the streams and the free list, whatever operation *)
(* it belongs to.  The invariants that follow need these shapes only.      *)

(* A place for a new stream with this id: at the end behind a smaller id,  *)
(* or before the first larger one.                                         *)
PlaceFor(id, i) ==
  \/ i = Len(aStreams) + 1 /\ Last(aStreams).iId < id
  \/ /\ id \in GivenIds /\ i \in FirstAbove(id)
     /\ ReuseIds \/ \A s \in DOMAIN aStreams : aStreams[s].iId # id

(* A new stream of n blocks. *)
Adds(i, id, n) ==
  /\ PlaceFor(id, i)
  /\ findEmptyBlocks(n)
  /\ Inserted(aStreams', aStreams, i,
              [iId |-> id, iSize |-> 0, aBlocks |-> Allocated(n)])
  /\ bHeaderChanged' = TRUE
  /\ UNCHANGED diskHeader

(* Blocks taken for a stream that found no place in the list. *)
Loses(n) ==
  /\ ReuseIds
  /\ findEmptyBlocks(n)
  /\ bHeaderChanged' = TRUE
  /\ UNCHANGED <<aStreams, diskHeader>>

(* Stream i is gone: the list before is the list after with it put in. *)
Drops(i) ==
  /\ aStreams[i].iId > 0
  /\ Inserted(aStreams, aStreams', i, aStreams[i])
  /\ lFreeBlocks' = lFreeBlocks \o aStreams[i].aBlocks
  /\ iUsed' = iUsed - Len(aStreams[i].aBlocks)
  /\ bHeaderChanged' = TRUE
  /\ UNCHANGED <<iBlocks, storeBlocks, diskHeader>>

(* Stream i gets n blocks more. *)
Extends(i, z, n) ==
  /\ findEmptyBlocks(n)
  /\ Updated(aStreams', aStreams, i, z, aStreams[i].aBlocks \o Allocated(n))

(* Stream i keeps its first blocks only. *)
Cuts(i, z, kept) ==
  /\ kept <= Len(aStreams[i].aBlocks)
  /\ Updated(aStreams', aStreams, i, z, SubSeq(aStreams[i].aBlocks, 1, kept))
  /\ \E F \in Seq(Nat) :
       /\ lFreeBlocks' = lFreeBlocks \o F
       /\ \A k \in DOMAIN aStreams[i].aBlocks :
            k > kept => aStreams[i].aBlocks[k] \in Range(F)
  /\ iUsed' = iUsed - (Len(aStreams[i].aBlocks) - kept)
  /\ bHeaderChanged' = TRUE
  /\ UNCHANGED <<iBlocks, storeBlocks, diskHeader>>

(* The header is written: stream zero gets m blocks more. *)
WritesHeader(m) ==
  /\ Extends(1, HeaderBytes + 4 * m, m)
  /\ diskHeader' = IF HeaderAtZero(aStreams') THEN HeaderImage(aStreams')
                                              ELSE diskHeader
  /\ bHeaderChanged' = FALSE

(* Removing an element undoes inserting it. *)
LEMMA RemovedInserted ==
  ASSUME NEW S \in Seq(Stream), NEW i \in DOMAIN S
  PROVE  Inserted(S, RemoveAt(S, i), i, S[i])
<1>1. PICK T : T = RemoveAt(S, i)
  OBVIOUS
<1>2. /\ T \in Seq(Stream) /\ Len(T) = Len(S) - 1
      /\ \A s \in 1..(Len(S) - 1) : T[s] = IF s < i THEN S[s] ELSE S[s + 1]
  BY <1>1, SeqRemove
<1>3. i \in Nat /\ i >= 1 /\ i <= Len(S) /\ Len(S) \in Nat
  OBVIOUS
<1>4. DOMAIN T = 1..(Len(S) - 1) /\ Len(T) + 1 = Len(S)
  BY <1>2, <1>3
<1>5. ASSUME NEW s \in 1..(Len(T) + 1), s < i
      PROVE  s \in DOMAIN T /\ S[s] = T[s]
  BY <1>2, <1>3, <1>4, <1>5
<1>6. ASSUME NEW s \in 1..(Len(T) + 1), s > i
      PROVE  s - 1 \in DOMAIN T /\ S[s] = T[s - 1]
  <2>1. s - 1 \in 1..(Len(S) - 1) /\ ~ (s - 1 < i) /\ (s - 1) + 1 = s
    BY <1>3, <1>4, <1>6
  <2> QED BY <1>2, <1>4, <2>1
<1>7. Inserted(S, T, i, S[i])
  BY <1>3, <1>4, <1>5, <1>6 DEF Inserted
<1> QED BY <1>1, <1>7

(* createStream and createStreamWithId. *)
LEMMA CreateShape ==
  ASSUME IndInv, NEW n \in PreAllocs, createStream(n)
  PROVE  Adds(Len(aStreams) + 1, Last(aStreams).iId + 1, n)
         /\ Last(aStreams).iId + 1 \in Int
<1>1. n \in Nat
  BY ConstantsAssumption
<1>2. aStreams \in Seq(Stream) /\ aStreams # << >> /\ Len(aStreams) \in Nat
      /\ Len(aStreams) \in DOMAIN aStreams
  BY DEF IndInv, TypeOK
<1>3. Last(aStreams).iId \in Int
  BY <1>2, StreamFields DEF Last
<1>4. PICK p : p = [iId |-> Last(aStreams).iId + 1, iSize |-> 0,
                    aBlocks |-> Allocated(n)]
  OBVIOUS
<1>5. /\ findEmptyBlocks(n) /\ aStreams' = Append(aStreams, p)
      /\ bHeaderChanged' = TRUE /\ diskHeader' = diskHeader
  BY <1>4 DEF createStream
<1>6. p \in Stream
  BY <1>1, <1>3, <1>4, <1>5, AllocatedFresh DEF Stream, Fresh
<1>7. Inserted(aStreams', aStreams, Len(aStreams) + 1, p)
  BY <1>2, <1>5, <1>6 DEF Inserted
<1>8. PlaceFor(Last(aStreams).iId + 1, Len(aStreams) + 1)
  BY <1>3 DEF PlaceFor
<1> QED BY <1>3, <1>4, <1>5, <1>7, <1>8 DEF Adds

(* createStreamWithId puts the stream in its place, or throws. *)
LEMMA CreateWithIdShape ==
  ASSUME IndInv, NEW id \in GivenIds, NEW n \in PreAllocs,
         createStreamWithId(id, n)
  PROVE  (\E i \in Nat : Adds(i, id, n)) \/ Loses(n)
<1>1. n \in Nat /\ id \in Int
  BY ConstantsAssumption
<1>2. aStreams \in Seq(Stream) /\ aStreams # << >> /\ Len(aStreams) \in Nat
  BY DEF IndInv, TypeOK
<1>4. PICK p : p = [iId |-> id, iSize |-> 0, aBlocks |-> Allocated(n)]
  OBVIOUS
<1>5. /\ findEmptyBlocks(n) /\ bHeaderChanged' = TRUE /\ diskHeader' = diskHeader
      /\ ReuseIds \/ \A i \in DOMAIN aStreams : aStreams[i].iId # id
  BY DEF createStreamWithId
<1>6. p \in Stream
  BY <1>1, <1>4, <1>5, AllocatedFresh DEF Stream, Fresh
<1>7. ASSUME Last(aStreams).iId < id, aStreams' = Append(aStreams, p)
      PROVE  Adds(Len(aStreams) + 1, id, n)
  <2>1. Inserted(aStreams', aStreams, Len(aStreams) + 1, p)
    BY <1>2, <1>6, <1>7 DEF Inserted
  <2> QED BY <1>4, <1>5, <1>7, <2>1 DEF Adds, PlaceFor
<1>8. ASSUME NEW i \in FirstAbove(id), aStreams' = InsertAt(aStreams, i, p)
      PROVE  i \in Nat /\ Adds(i, id, n)
  <2>1. i \in 1..(Len(aStreams) + 1) /\ i \in Nat
    BY <1>2, <1>8 DEF FirstAbove
  <2>2. Inserted(aStreams', aStreams, i, p)
    BY <1>2, <1>6, <1>8, <2>1, SeqInsert
  <2>3. PlaceFor(id, i)
    BY <1>5, <1>8 DEF PlaceFor
  <2> QED BY <1>4, <1>5, <2>1, <2>2, <2>3 DEF Adds
<1>9. ASSUME Last(aStreams).iId >= id, FirstAbove(id) = {}, UNCHANGED aStreams
      PROVE  Loses(n)
  <2> DEFINE big == {s \in DOMAIN aStreams : aStreams[s].iId > id}
  <2>1. SUFFICES ASSUME ~ ReuseIds PROVE FALSE
    BY <1>5, <1>9 DEF Loses
  <2>2. Len(aStreams) \in big
    <3>1. Len(aStreams) \in DOMAIN aStreams
      BY <1>2
    <3>2. aStreams[Len(aStreams)].iId # id /\ aStreams[Len(aStreams)].iId >= id
      BY <1>5, <1>9, <2>1, <3>1 DEF Last
    <3>3. aStreams[Len(aStreams)].iId \in Int
      BY <1>2, <3>1, SeqElem, StreamFields
    <3> QED BY <1>1, <3>1, <3>2, <3>3
  <2>3. big \subseteq Nat
    BY <1>2
  <2>4. PICK s \in big : \A t \in big : s <= t
    BY <2>2, <2>3, NatMin
  <2>5. \A k \in 1..(s - 1) : aStreams[k].iId <= id
    <3> TAKE k \in 1..(s - 1)
    <3>1. k \in DOMAIN aStreams /\ k < s
      BY <1>2, <2>3
    <3>2. aStreams[k].iId \in Int /\ k \notin big
      BY <1>2, <2>3, <2>4, <3>1, SeqElem, StreamFields
    <3> QED BY <1>1, <3>1, <3>2
  <2>6. s \in FirstAbove(id)
    BY <2>5 DEF FirstAbove
  <2> QED BY <1>9, <2>6
<1> QED
  <2>1. Len(aStreams) + 1 \in Nat
    BY <1>2
  <2> QED BY <1>4, <1>7, <1>8, <1>9, <2>1 DEF createStreamWithId

(* deleteStream. *)
LEMMA DeleteShape ==
  ASSUME IndInv, NEW i \in DOMAIN aStreams, deleteStream(i)
  PROVE  Drops(i)
<1>1. aStreams \in Seq(Stream)
  BY DEF IndInv, TypeOK
<1>2. Inserted(aStreams, RemoveAt(aStreams, i), i, aStreams[i])
  BY <1>1, RemovedInserted
<1> QED BY <1>2 DEF deleteStream, Drops

(* setStreamSize, growing. *)
LEMMA GrowShape ==
  ASSUME IndInv, NEW i \in DOMAIN aStreams, NEW z \in Sizes, Grow(i, z)
  PROVE  \E n \in Nat : Extends(i, z, n)
<1> DEFINE len == Len(aStreams[i].aBlocks)
           needed == blkDiv(z, BlockSize)
           added == IF needed > len THEN needed - len ELSE 0
<1>1. z \in Nat /\ len \in Nat /\ BlockSize \in Nat \ {0}
  BY StreamNumbers, ConstantsAssumption
<1>2. needed \in Nat
  BY <1>1, BlkDivEnough
<1>3. /\ findEmptyBlocks(added)
      /\ aStreams' = [aStreams EXCEPT ![i].iSize = z,
                                      ![i].aBlocks = @ \o Allocated(added)]
  BY DEF Grow
<1>4. added \in Nat
  BY <1>1, <1>2
<1> HIDE DEF added
<1>5. Updated(aStreams', aStreams, i, z, aStreams[i].aBlocks \o Allocated(added))
  BY <1>1, <1>3, <1>4, ExtensionUpdates, Zenon
<1> QED BY <1>3, <1>4, <1>5 DEF Extends

(* One pass of write. *)
LEMMA WriteShape ==
  ASSUME IndInv, NEW i \in DOMAIN aStreams, NEW pos \in Sizes,
         NEW amnt \in Chunks, WriteChunk(i, pos, amnt)
  PROVE  \E z, n \in Nat : Extends(i, z, n)
<1> DEFINE added == IF pos \div BlockSize < Len(aStreams[i].aBlocks) THEN 0 ELSE 1
           z == aStreams[i].iSize + amnt
<1>1. added \in Nat /\ z \in Nat
  BY StreamNumbers, ConstantsAssumption
<1>2. /\ findEmptyBlocks(added)
      /\ aStreams' = [aStreams EXCEPT ![i].iSize = z,
                                      ![i].aBlocks = @ \o Allocated(added)]
  BY DEF WriteChunk
<1> HIDE DEF added, z
<1>3. Updated(aStreams', aStreams, i, z, aStreams[i].aBlocks \o Allocated(added))
  BY <1>1, <1>2, ExtensionUpdates, Zenon
<1> QED BY <1>1, <1>2, <1>3 DEF Extends

(* setStreamSize, shrinking. *)
LEMMA ShrinkShape ==
  ASSUME IndInv, NEW i \in DOMAIN aStreams, NEW z \in Sizes, Shrink(i, z)
  PROVE  \E kept \in Nat : Cuts(i, z, kept)
<1> DEFINE a == aStreams[i].aBlocks
           len == Len(a)
           kept == KeptBlocks(aStreams[i], z)
           F == [k \in 1..(len - kept) |-> a[len - k + 1]]
<1>1. /\ aStreams \in Seq(Stream) /\ z \in Nat /\ a \in Seq(Nat) /\ len \in Nat
      /\ BlockSize \in Nat \ {0}
  BY StreamNumbers, ConstantsAssumption DEF IndInv, TypeOK
<1>2. /\ lFreeBlocks' = lFreeBlocks \o F /\ iUsed' = iUsed - (len - kept)
      /\ aStreams' = [aStreams EXCEPT ![i].iSize = z,
                                      ![i].aBlocks = SubSeq(a, 1, kept)]
      /\ bHeaderChanged' = TRUE
      /\ UNCHANGED <<iBlocks, storeBlocks, diskHeader>>
  BY DEF Shrink
<1>3. kept \in Nat /\ kept <= len
  <2>1. z \div BlockSize \in Nat
    BY <1>1, DivMod
  <2>2. kept = IF z \div BlockSize + 1 < len THEN z \div BlockSize + 1 ELSE len
    BY DEF KeptBlocks
  <2> HIDE DEF kept, len
  <2> QED BY <1>1, <2>1, <2>2
<1>4. \A k \in 1..(len - kept) : F[k] = a[len - k + 1]
  BY Zenon
<1> HIDE DEF kept
<1>5. \A k \in 1..(len - kept) : len - k + 1 \in DOMAIN a
  BY <1>1, <1>3
<1>6. F \in Seq(Nat) /\ DOMAIN F = 1..(len - kept)
  <2>1. \A k \in 1..(len - kept) : a[len - k + 1] \in Nat
    BY <1>1, <1>5, BlockIndex
  <2>2. F \in [1..(len - kept) -> Nat] /\ len - kept \in Nat
    BY <1>1, <1>3, <2>1
  <2> QED BY <2>2, SeqOfFunction
<1> HIDE DEF F
<1>7. ASSUME NEW k \in DOMAIN a, k > kept
      PROVE  a[k] \in Range(F)
  <2>0. k \in Nat /\ k >= 1 /\ k <= len
    BY <1>1, BlockIndex
  <2> HIDE DEF len, a
  <2>1. /\ len - k + 1 \in 1..(len - kept)
        /\ len - (len - k + 1) + 1 = k
    BY <1>1, <1>3, <1>7, <2>0
  <2>2. F[len - k + 1] = a[k]
    BY <1>4, <2>1
  <2> QED BY <1>6, <2>1, <2>2 DEF Range
<1>8. SubSeq(a, 1, kept) \in Seq(Nat)
  BY <1>1, <1>3, SeqFirst
<1>9. Updated(aStreams', aStreams, i, z, SubSeq(a, 1, kept))
  <2>1. Updated([aStreams EXCEPT ![i].iSize = z, ![i].aBlocks = SubSeq(a, 1, kept)],
                aStreams, i, z, SubSeq(a, 1, kept))
    BY <1>1, <1>8, ListUpdate
  <2> QED BY <1>2, <2>1, Zenon
<1>10. Cuts(i, z, kept)
  BY <1>2, <1>3, <1>6, <1>7, <1>9, Zenon DEF Cuts
<1> QED BY <1>3, <1>10

(* updateHeader. *)
LEMMA UpdateHeaderShape ==
  ASSUME IndInv, updateHeader
  PROVE  \E m \in Nat : HeaderBytes + 4 * m \in Nat /\ WritesHeader(m)
<1>1. /\ aStreams \in Seq(Stream) /\ aStreams # << >> /\ 1 \in DOMAIN aStreams
      /\ Len(aStreams) \in Nat /\ MaxBlocks \in Nat
  BY ConstantsAssumption DEF IndInv, TypeOK
<1>2. PICK m \in 0..MaxBlocks :
        /\ findEmptyBlocks(m)
        /\ aStreams' = [aStreams EXCEPT ![1].iSize = HeaderBytes + 4 * m,
                                        ![1].aBlocks = @ \o Allocated(m)]
  BY DEF updateHeader
<1> DEFINE z == HeaderBytes + 4 * m
<1>3. m \in Nat /\ z \in Nat
  <2>1. Cardinality(Entries(aStreams)) \in Nat
    BY <1>1, EntriesFinite
  <2>2. m \in Nat
    BY <1>1, <1>2
  <2> QED BY <1>1, <2>1, <2>2 DEF HeaderBytes
<1> HIDE DEF z
<1>4. Updated(aStreams', aStreams, 1, z, aStreams[1].aBlocks \o Allocated(m))
  <2>1. aStreams' = [aStreams EXCEPT ![1].iSize = z,
                                     ![1].aBlocks = @ \o Allocated(m)]
    BY <1>2 DEF z
  <2>2. Updated([aStreams EXCEPT ![1].iSize = z, ![1].aBlocks = @ \o Allocated(m)],
                aStreams, 1, z, aStreams[1].aBlocks \o Allocated(m))
    BY <1>1, <1>2, <1>3, ExtensionUpdates
  <2> QED BY <2>1, <2>2, Zenon
<1>5. WritesHeader(m)
  BY <1>2, <1>4 DEF WritesHeader, Extends, z, updateHeader
<1> QED BY <1>3, <1>5 DEF z

(* Every step is one of these. *)
Shaped ==
  \/ \E pre \in Nat : Formatted(pre)'
  \/ \E i \in Nat, id \in Int, n \in Nat : Adds(i, id, n)
  \/ \E n \in Nat : Loses(n)
  \/ \E i \in DOMAIN aStreams : Drops(i)
  \/ \E i \in Handles, z, n \in Nat :
       Extends(i, z, n) /\ bHeaderChanged' = TRUE /\ UNCHANGED diskHeader
  \/ \E i \in Handles, z, kept \in Nat : Cuts(i, z, kept)
  \/ \E m \in Nat : HeaderBytes + 4 * m \in Nat /\ WritesHeader(m)
  \/ initialize
  \/ UNCHANGED vars

(* Every step of the specification has one of the shapes. *)
LEMMA StepShapes ==
  ASSUME IndInv, [Next]_vars
  PROVE  Shaped
<1>0. /\ PreAllocs \subseteq Nat /\ GivenIds \subseteq Int /\ Sizes \subseteq Nat
      /\ Handles \subseteq DOMAIN aStreams
  BY ConstantsAssumption DEF Handles
<1>1. ASSUME NEW pre \in PreAllocs, NEW pos \in 0..storeBlocks, Format(pre, pos)
      PROVE  Shaped
  <2>1. pre \in Nat /\ FormatBlocks \in Nat /\ storeBlocks \in Nat /\ pos \in Nat
    BY ConstantsAssumption, FormatAssumption DEF IndInv, TypeOK
  <2>2. storeBlocks' \in Nat /\ storeBlocks' >= pre + FormatBlocks
    BY <1>1, <2>1 DEF Format
  <2>3. Formatted(pre)'
    BY <1>1, <2>2 DEF Format, Formatted
  <2> QED BY <2>1, <2>3 DEF Shaped
<1>2. ASSUME NEW n \in PreAllocs, createStream(n) PROVE Shaped
  <2>1. Len(aStreams) + 1 \in Nat /\ n \in Nat
    BY <1>0 DEF IndInv, TypeOK
  <2>2. \E i \in Nat, id \in Int : Adds(i, id, n)
    BY <1>2, <2>1, CreateShape
  <2> QED BY <2>1, <2>2 DEF Shaped
<1>3. ASSUME NEW id \in GivenIds, NEW n \in PreAllocs, createStreamWithId(id, n)
      PROVE  Shaped
  <2>1. id \in Int /\ n \in Nat
    BY <1>0
  <2> QED BY <1>3, <2>1, CreateWithIdShape DEF Shaped
<1>4. ASSUME NEW i \in DOMAIN aStreams, deleteStream(i) PROVE Shaped
  BY <1>4, DeleteShape DEF Shaped
<1>5. ASSUME NEW i \in Handles, NEW z \in Sizes, setStreamSize(i, z)
      PROVE  Shaped
  <2>1. i \in DOMAIN aStreams /\ z \in Nat
    BY <1>0
  <2>2. CASE Shrink(i, z)
    <3>1. \E kept \in Nat : Cuts(i, z, kept)
      BY <2>1, <2>2, ShrinkShape
    <3> QED BY <2>1, <3>1 DEF Shaped
  <2>3. CASE Grow(i, z)
    <3>1. \E n \in Nat : Extends(i, z, n)
      BY <2>1, <2>3, GrowShape
    <3>2. bHeaderChanged' = TRUE /\ UNCHANGED diskHeader
      BY <2>3 DEF Grow
    <3> QED BY <2>1, <3>1, <3>2 DEF Shaped
  <2> QED BY <1>5, <2>2, <2>3 DEF setStreamSize
<1>6. ASSUME NEW i \in Handles, NEW pos \in Sizes, NEW n \in Chunks,
             WriteChunk(i, pos, n)
      PROVE  Shaped
  <2>1. \E z, k \in Nat : Extends(i, z, k)
    BY <1>0, <1>6, WriteShape
  <2>2. bHeaderChanged' = TRUE /\ UNCHANGED diskHeader
    BY <1>6 DEF WriteChunk
  <2> QED BY <2>1, <2>2 DEF Shaped
<1>7. ASSUME updateHeader PROVE Shaped
  BY <1>7, UpdateHeaderShape DEF Shaped
<1>8. ASSUME initialize PROVE Shaped
  BY <1>8 DEF Shaped
<1>9. CASE UNCHANGED vars
  BY <1>9 DEF Shaped
<1>10. CASE Next
  BY <1>1, <1>2, <1>3, <1>4, <1>5, <1>6, <1>7, <1>8, <1>10 DEF Next
<1> QED BY <1>9, <1>10

-----------------------------------------------------------------------------
(* Which blocks a changed list of streams holds, and how many.             *)

(* A list with a stream put in holds the blocks of both. *)
LEMMA InsertedBlocks ==
  ASSUME NEW S \in Seq(Stream), NEW T, NEW i, NEW p, Inserted(T, S, i, p)
  PROVE  BlocksOf(T) = BlocksOf(S) \cup Range(p.aBlocks)
<1>1. /\ T \in Seq(Stream) /\ DOMAIN T = 1..(Len(S) + 1) /\ Len(S) \in Nat
      /\ i \in 1..(Len(S) + 1) /\ T[i] = p /\ DOMAIN S = 1..Len(S)
  BY DEF Inserted
<1>2. ASSUME NEW b \in BlocksOf(T) PROVE b \in BlocksOf(S) \cup Range(p.aBlocks)
  <2>1. PICK s \in DOMAIN T : \E k \in DOMAIN T[s].aBlocks : T[s].aBlocks[k] = b
    BY <1>2, BlocksOfElem
  <2>2. CASE s = i
    BY <1>1, <2>1, <2>2 DEF Range
  <2>3. CASE s # i
    <3>1. \E t \in DOMAIN S : T[s] = S[t]
      <4>1. s < i \/ s > i
        BY <1>1, <2>3
      <4> QED BY <1>1, <4>1 DEF Inserted
    <3> QED BY <2>1, <3>1, BlocksOfElem
  <2> QED BY <2>2, <2>3
<1>3. ASSUME NEW b \in BlocksOf(S) PROVE b \in BlocksOf(T)
  <2>1. PICK s \in DOMAIN S : \E k \in DOMAIN S[s].aBlocks : S[s].aBlocks[k] = b
    BY <1>3, BlocksOfElem
  <2>2. \E t \in DOMAIN T : T[t] = S[s]
    <3>1. CASE s < i
      BY <1>1, <3>1 DEF Inserted
    <3>2. CASE ~ (s < i)
      <4>1. s + 1 \in 1..(Len(S) + 1) /\ s + 1 > i /\ (s + 1) - 1 = s
        BY <1>1, <3>2
      <4>2. T[s + 1] = S[s]
        BY <4>1 DEF Inserted
      <4> QED BY <1>1, <4>1, <4>2
    <3> QED BY <3>1, <3>2
  <2> QED BY <2>1, <2>2, BlocksOfElem
<1>4. ASSUME NEW b \in Range(p.aBlocks) PROVE b \in BlocksOf(T)
  BY <1>1, <1>4, BlocksOfElem DEF Range
<1> QED BY <1>2, <1>3, <1>4

(* The places in the block list of one stream, and in those of the others. *)
RowOf(S, i) == {<<i, k>> : k \in DOMAIN S[i].aBlocks}
OtherRows(S, i) == {e \in Entries(S) : e[1] # i}

(* A place is a stream and a position in its block list. *)
LEMMA EntryPlace ==
  ASSUME NEW S, NEW e
  PROVE  e \in Entries(S) <=>
           \E s \in DOMAIN S : \E k \in DOMAIN S[s].aBlocks : e = <<s, k>>
  BY DEF Entries

(* One stream has as many places as blocks. *)
LEMMA RowCount ==
  ASSUME NEW S, NEW i \in Nat, S[i].aBlocks \in Seq(Nat)
  PROVE  /\ IsFiniteSet(RowOf(S, i))
         /\ Cardinality(RowOf(S, i)) = Len(S[i].aBlocks)
<1> DEFINE n == Len(S[i].aBlocks)
           f == [k \in 1..n |-> <<i, k>>]
<1>1. n \in Nat /\ DOMAIN S[i].aBlocks = 1..n
  OBVIOUS
<1>2. RowOf(S, i) = {<<i, k>> : k \in 1..n}
  BY <1>1 DEF RowOf
<1> HIDE DEF n
<1>3. f \in Bijection(1..n, RowOf(S, i))
  <2>1. f \in [1..n -> RowOf(S, i)]
    BY <1>2
  <2>2. \A a, b \in 1..n : f[a] = f[b] => a = b
    OBVIOUS
  <2>3. \A t \in RowOf(S, i) : \E s \in 1..n : f[s] = t
    BY <1>2
  <2> QED BY <2>1, <2>2, <2>3 DEF Bijection, Injection, Surjection, IsInjective
<1>4. ExistsBijection(1..n, RowOf(S, i))
  BY <1>3 DEF ExistsBijection
<1>5. IsFiniteSet(1..n) /\ Cardinality(1..n) = n
  BY <1>1, FS_Interval
<1> QED BY <1>4, <1>5, FS_Bijection DEF n

(* The places are those of one stream and those of the others. *)
LEMMA RowsSplit ==
  ASSUME NEW S \in Seq(Stream), NEW i \in DOMAIN S
  PROVE  /\ IsFiniteSet(OtherRows(S, i)) /\ Cardinality(OtherRows(S, i)) \in Nat
         /\ Cardinality(Entries(S))
              = Cardinality(OtherRows(S, i)) + Len(S[i].aBlocks)
<1>1. S[i].aBlocks \in Seq(Nat) /\ i \in Nat
  BY SeqElem, StreamFields
<1>2. IsFiniteSet(OtherRows(S, i)) /\ Cardinality(OtherRows(S, i)) \in Nat
  <2>1. IsFiniteSet(Entries(S)) /\ OtherRows(S, i) \subseteq Entries(S)
    BY EntriesFinite DEF OtherRows
  <2> QED BY <2>1, FS_Subset, FS_CardinalityType
<1>3. IsFiniteSet(RowOf(S, i)) /\ Cardinality(RowOf(S, i)) = Len(S[i].aBlocks)
  BY <1>1, RowCount
<1>4. Entries(S) = OtherRows(S, i) \cup RowOf(S, i)
  BY EntryPlace DEF OtherRows, RowOf
<1>5. OtherRows(S, i) \cap RowOf(S, i) = {}
  BY DEF OtherRows, RowOf
<1>6. Cardinality({}) = 0
  BY FS_EmptySet
<1>7. Cardinality(Entries(S)) = Cardinality(OtherRows(S, i))
                                 + Cardinality(RowOf(S, i))
                                 - Cardinality(OtherRows(S, i) \cap RowOf(S, i))
  BY <1>2, <1>3, <1>4, FS_Union
<1>8. Cardinality(OtherRows(S, i) \cap RowOf(S, i)) = 0
  BY <1>5, <1>6
<1>9. Len(S[i].aBlocks) \in Nat
  BY <1>1
<1>10. Cardinality(Entries(S))
         = Cardinality(OtherRows(S, i)) + Len(S[i].aBlocks)
  BY <1>2, <1>3, <1>7, <1>8, <1>9
<1> QED BY <1>2, <1>10

(* Changing one block list changes the count by its change in length. *)
LEMMA UpdatedCount ==
  ASSUME NEW S \in Seq(Stream), NEW i \in DOMAIN S, NEW T, NEW z, NEW a,
         Updated(T, S, i, z, a)
  PROVE  Cardinality(Entries(T))
           = Cardinality(Entries(S)) - Len(S[i].aBlocks) + Len(a)
<1>1. /\ T \in Seq(Stream) /\ DOMAIN T = DOMAIN S /\ T[i].aBlocks = a
      /\ \A s \in DOMAIN S : s # i => T[s] = S[s]
  BY DEF Updated
<1>2. OtherRows(T, i) = OtherRows(S, i)
  <2>1. \A e : e \in OtherRows(T, i) <=> e \in OtherRows(S, i)
    BY <1>1, EntryPlace DEF OtherRows
  <2> QED BY <2>1
<1>3. /\ Cardinality(OtherRows(S, i)) \in Nat
      /\ Cardinality(Entries(S)) = Cardinality(OtherRows(S, i)) + Len(S[i].aBlocks)
      /\ Cardinality(Entries(T)) = Cardinality(OtherRows(S, i)) + Len(a)
  BY <1>1, <1>2, RowsSplit
<1>4. Len(S[i].aBlocks) \in Nat /\ Len(a) \in Nat
  <2>1. S[i].aBlocks \in Seq(Nat) /\ T[i].aBlocks \in Seq(Nat)
    BY <1>1, SeqElem, StreamFields
  <2> QED BY <1>1, <2>1
<1> QED BY <1>3, <1>4

(* Putting a stream in adds its blocks to the count. *)
LEMMA InsertedCount ==
  ASSUME NEW S \in Seq(Stream), NEW T, NEW i, NEW p \in Stream,
         Inserted(T, S, i, p)
  PROVE  Cardinality(Entries(T)) = Cardinality(Entries(S)) + Len(p.aBlocks)
<1>1. /\ T \in Seq(Stream) /\ DOMAIN T = 1..(Len(S) + 1) /\ Len(S) \in Nat
      /\ i \in DOMAIN T /\ i \in Nat /\ T[i] = p /\ DOMAIN S = 1..Len(S)
  BY DEF Inserted
<1> DEFINE up(s) == IF s < i THEN s ELSE s + 1
           f == [e \in Entries(S) |-> <<up(e[1]), e[2]>>]
<1>2. \A s \in DOMAIN S : up(s) \in DOMAIN T /\ up(s) # i /\ T[up(s)] = S[s]
  <2> TAKE s \in DOMAIN S
  <2>1. CASE s < i
    BY <1>1, <2>1 DEF Inserted
  <2>2. CASE ~ (s < i)
    <3>1. s + 1 \in 1..(Len(S) + 1) /\ s + 1 > i /\ (s + 1) - 1 = s
      BY <1>1, <2>2
    <3>2. T[s + 1] = S[s]
      BY <3>1 DEF Inserted
    <3> QED BY <1>1, <2>2, <3>1, <3>2
  <2> QED BY <2>1, <2>2
<1>3. \A s, t \in DOMAIN S : up(s) = up(t) => s = t
  BY <1>1
<1>4. \A t \in DOMAIN T : t # i => \E s \in DOMAIN S : up(s) = t
  <2> TAKE t \in DOMAIN T
  <2>1. SUFFICES ASSUME t # i PROVE \E s \in DOMAIN S : up(s) = t
    OBVIOUS
  <2>2. CASE t < i
    BY <1>1, <2>2
  <2>3. CASE t > i
    <3>1. t - 1 \in DOMAIN S /\ up(t - 1) = t
      BY <1>1, <2>3
    <3> QED BY <3>1
  <2> QED BY <1>1, <2>1, <2>2, <2>3
<1> HIDE DEF up
<1>5. f \in Bijection(Entries(S), OtherRows(T, i))
  <2>1. ASSUME NEW e \in Entries(S) PROVE f[e] \in OtherRows(T, i)
    <3>1a. PICK s \in DOMAIN S : \E k \in DOMAIN S[s].aBlocks : e = <<s, k>>
      BY <2>1, EntryPlace
    <3>1. PICK k \in DOMAIN S[s].aBlocks : e = <<s, k>>
      BY <3>1a
    <3>2. f[e] = <<up(s), k>>
      BY <3>1
    <3>3. f[e] \in Entries(T)
      BY <1>2, <3>1, <3>2, EntryPlace
    <3> QED BY <1>2, <3>2, <3>3 DEF OtherRows
  <2>2. ASSUME NEW d \in Entries(S), NEW e \in Entries(S), f[d] = f[e]
        PROVE  d = e
    <3>1a. PICK s \in DOMAIN S : \E k \in DOMAIN S[s].aBlocks : d = <<s, k>>
      BY <2>2, EntryPlace
    <3>1. PICK k \in DOMAIN S[s].aBlocks : d = <<s, k>>
      BY <3>1a
    <3>2a. PICK t \in DOMAIN S : \E l \in DOMAIN S[t].aBlocks : e = <<t, l>>
      BY <2>2, EntryPlace
    <3>2. PICK l \in DOMAIN S[t].aBlocks : e = <<t, l>>
      BY <3>2a
    <3>3. up(s) = up(t) /\ k = l
      BY <2>2, <3>1, <3>2
    <3> QED BY <1>3, <3>1, <3>2, <3>3
  <2>3. ASSUME NEW e \in OtherRows(T, i) PROVE \E d \in Entries(S) : f[d] = e
    <3>1a. PICK t \in DOMAIN T : \E k \in DOMAIN T[t].aBlocks : e = <<t, k>>
      BY <2>3, EntryPlace DEF OtherRows
    <3>1. PICK k \in DOMAIN T[t].aBlocks : e = <<t, k>>
      BY <3>1a
    <3>2. t # i
      BY <2>3, <3>1 DEF OtherRows
    <3>3. PICK s \in DOMAIN S : up(s) = t
      BY <1>4, <3>2
    <3>4. <<s, k>> \in Entries(S)
      BY <1>2, <3>1, <3>3, EntryPlace
    <3>5. f[<<s, k>>] = e
      BY <3>1, <3>3, <3>4
    <3> QED BY <3>4, <3>5
  <2>4. f \in [Entries(S) -> OtherRows(T, i)]
    BY <2>1
  <2> HIDE DEF f
  <2> QED BY <2>2, <2>3, <2>4 DEF Bijection, Injection, Surjection, IsInjective
<1>6. ExistsBijection(Entries(S), OtherRows(T, i))
  BY <1>5 DEF ExistsBijection
<1>7. Cardinality(OtherRows(T, i)) = Cardinality(Entries(S))
  BY <1>6, EntriesFinite, FS_Bijection
<1> QED BY <1>1, <1>7, RowsSplit

(* What extending and cutting a block list keeps of the blocks. *)
LEMMA ExtendedBlocks ==
  ASSUME NEW S \in Seq(Stream), NEW i \in DOMAIN S, NEW A \in Seq(Nat),
         NEW T, NEW z, Updated(T, S, i, z, S[i].aBlocks \o A)
  PROVE  BlocksOf(S) \cup Range(A) \subseteq BlocksOf(T)
<1>1. /\ DOMAIN T = DOMAIN S /\ T[i].aBlocks = S[i].aBlocks \o A
      /\ \A s \in DOMAIN S : s # i => T[s] = S[s]
  BY DEF Updated
<1>2. PICK a \in Seq(Nat) : a = S[i].aBlocks
  BY SeqElem, StreamFields
<1>3. /\ \A k \in DOMAIN a : k \in DOMAIN (a \o A) /\ (a \o A)[k] = a[k]
      /\ \A k \in DOMAIN A : Len(a) + k \in DOMAIN (a \o A)
                             /\ (a \o A)[Len(a) + k] = A[k]
  <2>1. \A k \in 1..Len(a) : (a \o A)[k] = a[k]
    OBVIOUS
  <2>2. \A k \in 1..Len(A) : (a \o A)[Len(a) + k] = A[k]
    OBVIOUS
  <2>3. DOMAIN (a \o A) = 1..(Len(a) + Len(A)) /\ Len(a) \in Nat /\ Len(A) \in Nat
    OBVIOUS
  <2> QED BY <2>1, <2>2, <2>3
<1>4. ASSUME NEW b \in BlocksOf(S) PROVE b \in BlocksOf(T)
  <2>1a. PICK s \in DOMAIN S : \E k \in DOMAIN S[s].aBlocks : S[s].aBlocks[k] = b
    BY <1>4, BlocksOfElem
  <2>1. PICK k \in DOMAIN S[s].aBlocks : S[s].aBlocks[k] = b
    BY <2>1a
  <2>2. CASE s = i
    <3>1. k \in DOMAIN (a \o A) /\ (a \o A)[k] = b
      BY <1>2, <1>3, <2>1, <2>2
    <3> QED BY <1>1, <1>2, <3>1, BlocksOfElem
  <2>3. CASE s # i
    BY <1>1, <2>1, <2>3, BlocksOfElem
  <2> QED BY <2>2, <2>3
<1>5. ASSUME NEW b \in Range(A) PROVE b \in BlocksOf(T)
  <2>1. PICK k \in DOMAIN A : A[k] = b
    BY <1>5 DEF Range
  <2>2. Len(a) + k \in DOMAIN (a \o A) /\ (a \o A)[Len(a) + k] = b
    BY <1>3, <2>1
  <2> QED BY <1>1, <1>2, <2>2, BlocksOfElem
<1> QED BY <1>4, <1>5

(* A list of which the tail was cut off loses the blocks of the tail only. *)
LEMMA CutBlocks ==
  ASSUME NEW S \in Seq(Stream), NEW i \in DOMAIN S, NEW m \in Nat,
         m <= Len(S[i].aBlocks), NEW T, NEW z, NEW X,
         Updated(T, S, i, z, SubSeq(S[i].aBlocks, 1, m)),
         \A k \in DOMAIN S[i].aBlocks : k > m => S[i].aBlocks[k] \in X
  PROVE  BlocksOf(S) \subseteq BlocksOf(T) \cup X
<1>1. /\ DOMAIN T = DOMAIN S /\ T[i].aBlocks = SubSeq(S[i].aBlocks, 1, m)
      /\ \A s \in DOMAIN S : s # i => T[s] = S[s]
  BY DEF Updated
<1>2. PICK a \in Seq(Nat) : a = S[i].aBlocks
  BY SeqElem, StreamFields
<1>3. \A k \in 1..m : k \in DOMAIN SubSeq(a, 1, m) /\ SubSeq(a, 1, m)[k] = a[k]
  BY <1>2
<1>4. ASSUME NEW b \in BlocksOf(S) PROVE b \in BlocksOf(T) \cup X
  <2>1a. PICK s \in DOMAIN S : \E k \in DOMAIN S[s].aBlocks : S[s].aBlocks[k] = b
    BY <1>4, BlocksOfElem
  <2>1. PICK k \in DOMAIN S[s].aBlocks : S[s].aBlocks[k] = b
    BY <2>1a
  <2>2. CASE s = i /\ k > m
    BY <2>1, <2>2
  <2>3. CASE s = i /\ ~ (k > m)
    <3>1. k \in 1..m
      BY <1>2, <2>1, <2>3
    <3>2. k \in DOMAIN T[i].aBlocks /\ T[i].aBlocks[k] = b
      BY <1>1, <1>2, <1>3, <2>1, <2>3, <3>1
    <3> QED BY <1>1, <3>2, BlocksOfElem
  <2>4. CASE s # i
    BY <1>1, <2>1, <2>4, BlocksOfElem
  <2> QED BY <2>2, <2>3, <2>4
<1> QED BY <1>4

-----------------------------------------------------------------------------
(* The header in the store. *)

(* The empty header holds itself and nothing else. *)
LEMMA EmptyHeaderFacts ==
  /\ FormatBlocks \in Nat \ {0}
  /\ EmptyHeader \in Stream
  /\ EmptyHeader.iId = 0 /\ EmptyHeader.iSize = 22 + 4 * FormatBlocks
  /\ Len(EmptyHeader.aBlocks) = FormatBlocks
  /\ EmptyHeader.aBlocks \in Seq(Nat)
  /\ \A k \in 1..FormatBlocks : EmptyHeader.aBlocks[k] = k - 1
  /\ Head(EmptyHeader.aBlocks) = 0
<1> DEFINE a == [k \in 1..FormatBlocks |-> k - 1]
<1>1. FormatBlocks \in Nat \ {0}
  BY FormatAssumption
<1>2. a \in Seq(Nat) /\ Len(a) = FormatBlocks
  <2>1. a \in [1..FormatBlocks -> Nat]
    BY <1>1
  <2> HIDE DEF a
  <2> QED BY <1>1, <2>1, SeqOfFunction
<1>3. \A k \in 1..FormatBlocks : a[k] = k - 1
  OBVIOUS
<1>4. EmptyHeader = [iId |-> 0, iSize |-> 22 + 4 * FormatBlocks, aBlocks |-> a]
  BY DEF EmptyHeader
<1> HIDE DEF a
<1>5. Head(a) = 0
  <2>1. Head(a) = a[1] /\ 1 \in 1..FormatBlocks
    BY <1>1, <1>2
  <2> QED BY <1>3, <2>1
<1> QED BY <1>1, <1>2, <1>3, <1>4, <1>5 DEF Stream

(* A one-element list has the places of its element. *)
LEMMA EmptyHeaderCount ==
  /\ <<EmptyHeader>> \in Seq(Stream) /\ Len(<<EmptyHeader>>) = 1
  /\ Cardinality(Entries(<<EmptyHeader>>)) = FormatBlocks
<1> DEFINE S == <<EmptyHeader>>
<1>1. S \in Seq(Stream) /\ DOMAIN S = {1} /\ S[1] = EmptyHeader /\ Len(S) = 1
  BY EmptyHeaderFacts
<1> HIDE DEF S
<1>2. OtherRows(S, 1) = {}
  BY <1>1, EntryPlace DEF OtherRows
<1>3. Cardinality(OtherRows(S, 1)) = 0
  BY <1>2, FS_EmptySet
<1>4. Cardinality(Entries(S)) = 0 + FormatBlocks
  BY <1>1, <1>3, EmptyHeaderFacts, RowsSplit
<1> QED BY <1>1, <1>4, EmptyHeaderFacts DEF S

(* The image of a list in the store. *)
LEMMA ImageFields ==
  ASSUME NEW S \in Seq(Stream), Fit(S), NEW s \in DOMAIN S
  PROVE  LET p == HeaderImage(S)[s]
         IN  /\ DOMAIN HeaderImage(S) = DOMAIN S
             /\ p \in Stream /\ p.iId = S[s].iId /\ p.iSize = S[s].iSize
             /\ p.aBlocks \in Seq(Nat)
             /\ Len(p.aBlocks) = blkDiv(S[s].iSize, BlockSize)
             /\ \A k \in DOMAIN p.aBlocks :
                  k \in DOMAIN S[s].aBlocks /\ p.aBlocks[k] = S[s].aBlocks[k]
<1> DEFINE n == blkDiv(S[s].iSize, BlockSize)
<1>0. BlockSize \in Nat \ {0}
  BY ConstantsAssumption
<1>1. S[s] \in Stream /\ S[s].iSize \in Nat /\ S[s].aBlocks \in Seq(Nat)
  BY SeqElem, StreamFields
<1>2. S[s].iSize <= Len(S[s].aBlocks) * BlockSize /\ Len(S[s].aBlocks) \in Nat
  BY <1>1 DEF Fit
<1>3. n \in Nat /\ n <= Len(S[s].aBlocks)
  BY <1>0, <1>1, <1>2, BlkDivEnough, BlkDivLeast
<1>4. PICK a : a = SubSeq(S[s].aBlocks, 1, n)
  OBVIOUS
<1> HIDE DEF n
<1>5. /\ a \in Seq(Nat) /\ Len(a) = n
      /\ \A k \in DOMAIN a : k \in DOMAIN S[s].aBlocks /\ a[k] = S[s].aBlocks[k]
  BY <1>1, <1>3, <1>4, SeqFirst
<1>6. HeaderImage(S)[s] = [S[s] EXCEPT !.aBlocks = a]
  BY <1>4 DEF HeaderImage, n
<1>7. DOMAIN HeaderImage(S) = DOMAIN S
  BY DEF HeaderImage
<1>8. PICK p : p = [S[s] EXCEPT !.aBlocks = a]
  OBVIOUS
<1>9. p \in Stream /\ p.iId = S[s].iId /\ p.iSize = S[s].iSize /\ p.aBlocks = a
  BY <1>1, <1>5, <1>8 DEF Stream
<1> QED BY <1>5, <1>6, <1>7, <1>8, <1>9 DEF n

(* The store's header has as many streams and no more block numbers. *)
LEMMA ImageCount ==
  ASSUME NEW S \in Seq(Stream), Fit(S), S # << >>
  PROVE  /\ HeaderImage(S) \in Seq(Stream) /\ Len(HeaderImage(S)) = Len(S)
         /\ Cardinality(Entries(HeaderImage(S))) \in Nat
         /\ Cardinality(Entries(HeaderImage(S))) <= Cardinality(Entries(S))
<1> DEFINE T == HeaderImage(S)
<1>1. DOMAIN T = DOMAIN S /\ DOMAIN S = 1..Len(S) /\ Len(S) \in Nat
  BY DEF HeaderImage
<1>2. \A s \in DOMAIN S :
        T[s] \in Stream
        /\ \A k \in DOMAIN T[s].aBlocks : k \in DOMAIN S[s].aBlocks
  BY ImageFields
<1>3. T \in Seq(Stream) /\ Len(T) = Len(S)
  <2>1. T \in [1..Len(S) -> Stream]
    BY <1>1, <1>2 DEF HeaderImage
  <2> HIDE DEF T
  <2> QED BY <1>1, <2>1, SeqOfFunction
<1> HIDE DEF T
<1>4. Entries(T) \subseteq Entries(S)
  BY <1>1, <1>2, EntryPlace
<1>5. IsFiniteSet(Entries(S))
  BY EntriesFinite
<1>6. /\ Cardinality(Entries(T)) <= Cardinality(Entries(S))
      /\ Cardinality(Entries(T)) \in Nat
  BY <1>3, <1>4, <1>5, EntriesFinite, FS_Subset
<1> QED BY <1>3, <1>6 DEF T

(* The length of the list and the count of places after updateHeader. *)
LEMMA WrittenFacts ==
  ASSUME IndInv, IndInv', NEW m \in Nat, HeaderBytes + 4 * m \in Nat,
         WritesHeader(m)
  PROVE  /\ 1 \in DOMAIN aStreams /\ DOMAIN aStreams' = DOMAIN aStreams
         /\ aStreams'[1].iId = aStreams[1].iId
         /\ aStreams'[1].iSize = HeaderBytes + 4 * m
         /\ aStreams'[1].iSize = HeaderWritten(aStreams')
         /\ aStreams'[1].iSize >= 14
<1>1. /\ aStreams \in Seq(Stream) /\ aStreams # << >> /\ 1 \in DOMAIN aStreams
      /\ Len(aStreams) \in Nat
  BY DEF IndInv, TypeOK
<1>2. aStreams' \in Seq(Stream)
  BY DEF IndInv, TypeOK
<1>3. /\ findEmptyBlocks(m)
      /\ Updated(aStreams', aStreams, 1, HeaderBytes + 4 * m,
                 aStreams[1].aBlocks \o Allocated(m))
  BY DEF WritesHeader, Extends
<1>4. Len(Allocated(m)) = m /\ Allocated(m) \in Seq(Nat)
  BY <1>3, AllocatedFresh DEF Fresh
<1>5. aStreams[1].aBlocks \in Seq(Nat) /\ Len(aStreams[1].aBlocks) \in Nat
  BY <1>1, SeqElem, StreamFields
<1>6. Len(aStreams[1].aBlocks \o Allocated(m)) = Len(aStreams[1].aBlocks) + m
  BY <1>4, <1>5, SeqConcat
<1>7. /\ Cardinality(Entries(aStreams)) \in Nat
      /\ Cardinality(Entries(aStreams')) = Cardinality(Entries(aStreams)) + m
  <2>1. Cardinality(Entries(aStreams)) \in Nat
    BY <1>1, EntriesFinite
  <2>2. Cardinality(Entries(aStreams'))
          = Cardinality(Entries(aStreams)) - Len(aStreams[1].aBlocks)
              + Len(aStreams[1].aBlocks \o Allocated(m))
    BY <1>1, <1>3, UpdatedCount
  <2> QED BY <1>5, <1>6, <2>1, <2>2
<1>8. /\ DOMAIN aStreams' = DOMAIN aStreams
      /\ aStreams'[1].iId = aStreams[1].iId
      /\ aStreams'[1].iSize = HeaderBytes + 4 * m
  BY <1>3 DEF Updated
<1>9. Len(aStreams') = Len(aStreams)
  BY <1>1, <1>2, <1>8
<1>10. aStreams'[1].iSize = HeaderWritten(aStreams')
  BY <1>1, <1>7, <1>8, <1>9 DEF HeaderBytes, HeaderWritten
<1>11. aStreams'[1].iSize >= 14
  BY <1>1, <1>7, <1>8 DEF HeaderBytes
<1> QED BY <1>1, <1>8, <1>10, <1>11

(* What a step does to the header in the store: nothing, a format, or the  *)
(* image of the streams as they are after it.                              *)
LEMMA DiskSteps ==
  ASSUME IndInv, [Next]_vars
  PROVE  \/ diskHeader' = diskHeader
         \/ diskHeader' = <<EmptyHeader>> /\ bHeaderChanged' = TRUE
         \/ \E m \in Nat :
              /\ HeaderBytes + 4 * m \in Nat /\ WritesHeader(m)
              /\ diskHeader' = HeaderImage(aStreams')
<1>1. Shaped
  BY StepShapes
<1> QED BY <1>1 DEF Shaped, Formatted, Adds, Loses, Drops, Cuts, WritesHeader,
                   initialize, vars

(* The header in the store has room for all that is written into it. *)
LEMMA HeaderFitsStep ==
  ASSUME IndInv, IndInv', HeaderFits, [Next]_vars
  PROVE  HeaderFits'
<1>1. CASE diskHeader' = diskHeader
  BY <1>1 DEF HeaderFits
<1>2. CASE diskHeader' = <<EmptyHeader>>
  <2>1. HeaderWritten(<<EmptyHeader>>) <= EmptyHeader.iSize
    BY EmptyHeaderFacts, EmptyHeaderCount DEF HeaderWritten
  <2> QED BY <1>2, <2>1 DEF HeaderFits
<1>3. ASSUME NEW m \in Nat, HeaderBytes + 4 * m \in Nat, WritesHeader(m),
             diskHeader' = HeaderImage(aStreams')
      PROVE  HeaderFits'
  <2> DEFINE T == aStreams'
             D == HeaderImage(T)
  <2>1. /\ T \in Seq(Stream) /\ Fit(T) /\ T # << >> /\ 1 \in DOMAIN T
        /\ Len(T) \in Nat
    BY DEF IndInv, TypeOK, StreamsFit
  <2>2. T[1].iSize = HeaderWritten(T)
    BY <1>3, WrittenFacts
  <2> HIDE DEF T
  <2>3. /\ Len(D) = Len(T) /\ Cardinality(Entries(D)) \in Nat
        /\ Cardinality(Entries(D)) <= Cardinality(Entries(T))
        /\ Cardinality(Entries(T)) \in Nat
    BY <2>1, ImageCount, EntriesFinite
  <2>4. D[1].iSize = T[1].iSize
    BY <2>1, ImageFields
  <2> HIDE DEF D
  <2>5. HeaderWritten(D) <= D[1].iSize
    BY <2>1, <2>2, <2>3, <2>4 DEF HeaderWritten
  <2> QED BY <1>3, <2>5 DEF HeaderFits, D, T
<1> QED BY <1>1, <1>2, <1>3, DiskSteps

(* The header is the first stream and starts at block zero. *)
ZeroFirst(S) ==
  S[1].iId = 0 /\ S[1].aBlocks # << >> /\ Head(S[1].aBlocks) = 0

(* So it is in memory and in the store: what initialize() relies on. *)
ZeroInPlace == ZeroFirst(aStreams) /\ ZeroFirst(diskHeader)

(* The header as formatted. *)
LEMMA EmptyZeroFirst == ZeroFirst(<<EmptyHeader>>)
<1>1. EmptyHeader.aBlocks # << >>
  BY EmptyHeaderFacts
<1> QED BY <1>1, EmptyHeaderFacts DEF ZeroFirst

(* A stream other than the first can be changed, put in or taken out. *)
LEMMA OtherStreamKept ==
  ASSUME IndInv, ZeroFirst(aStreams), NEW i \in DOMAIN aStreams, i # 1,
         NEW z, NEW a, Updated(aStreams', aStreams, i, z, a)
  PROVE  ZeroFirst(aStreams')
<1>1. 1 \in DOMAIN aStreams
  BY DEF IndInv, TypeOK
<1>2. aStreams'[1] = aStreams[1]
  BY <1>1 DEF Updated
<1> QED BY <1>2 DEF ZeroFirst

(* Appending to its blocks keeps the header's first block. *)
LEMMA ExtendedZeroFirst ==
  ASSUME NEW S \in Seq(Stream), S # << >>, ZeroFirst(S), NEW A \in Seq(Nat),
         NEW T, NEW z, Updated(T, S, 1, z, S[1].aBlocks \o A)
  PROVE  ZeroFirst(T)
<1>1. 1 \in DOMAIN S
  OBVIOUS
<1>2. PICK a \in Seq(Nat) : a = S[1].aBlocks
  BY <1>1, SeqElem, StreamFields
<1>3. T[1].iId = 0 /\ T[1].aBlocks = a \o A
  BY <1>2 DEF Updated, ZeroFirst
<1>4. a # << >> /\ Head(a) = 0
  BY <1>2 DEF ZeroFirst
<1>5. a \o A # << >> /\ Head(a \o A) = 0
  BY <1>4
<1> QED BY <1>3, <1>5 DEF ZeroFirst

(* The image of a list keeps them when the header has a size. *)
LEMMA ImageZeroFirst ==
  ASSUME NEW S \in Seq(Stream), S # << >>, Fit(S), ZeroFirst(S), S[1].iSize > 0
  PROVE  ZeroFirst(HeaderImage(S))
<1>1. 1 \in DOMAIN S /\ S[1].iSize \in Nat /\ S[1].aBlocks \in Seq(Nat)
  BY StreamFields
<1>2. PICK p : p = HeaderImage(S)[1]
  OBVIOUS
<1>3. /\ p.iId = 0 /\ p.aBlocks \in Seq(Nat)
      /\ Len(p.aBlocks) = blkDiv(S[1].iSize, BlockSize)
      /\ \A k \in DOMAIN p.aBlocks : p.aBlocks[k] = S[1].aBlocks[k]
  BY <1>1, <1>2, ImageFields DEF ZeroFirst
<1>4. blkDiv(S[1].iSize, BlockSize) >= 1
  <2>1. BlockSize \in Nat \ {0}
    BY ConstantsAssumption
  <2>2. /\ blkDiv(S[1].iSize, BlockSize) \in Nat
        /\ S[1].iSize <= blkDiv(S[1].iSize, BlockSize) * BlockSize
    BY <1>1, <2>1, BlkDivEnough
  <2>3. blkDiv(S[1].iSize, BlockSize) # 0
    BY <1>1, <2>1, <2>2
  <2> QED BY <2>2, <2>3
<1>5. p.aBlocks # << >> /\ Head(p.aBlocks) = p.aBlocks[1] /\ 1 \in DOMAIN p.aBlocks
  BY <1>3, <1>4
<1>6. Head(S[1].aBlocks) = S[1].aBlocks[1]
  BY <1>1 DEF ZeroFirst
<1> QED BY <1>2, <1>3, <1>5, <1>6 DEF ZeroFirst

(* Every step keeps the header in its place, unless a caller gives a new   *)
(* stream a negative id.                                                   *)
LEMMA ZeroInPlaceStep ==
  ASSUME GivenIds \subseteq Nat, IndInv, IndInv', ZeroInPlace, [Next]_vars
  PROVE  ZeroInPlace'
<1>0. /\ aStreams \in Seq(Stream) /\ aStreams # << >> /\ 1 \in DOMAIN aStreams
      /\ Len(aStreams) \in Nat /\ Len(aStreams) >= 1
      /\ aStreams' \in Seq(Stream) /\ aStreams' # << >> /\ Fit(aStreams')
      /\ ZeroFirst(aStreams) /\ ZeroFirst(diskHeader)
  BY DEF IndInv, TypeOK, StreamsFit, ZeroInPlace
<1>1. ASSUME NEW pre \in Nat, Formatted(pre)' PROVE ZeroInPlace'
  BY <1>1, EmptyZeroFirst DEF Formatted, ZeroInPlace
<1>2. ASSUME NEW i \in Nat, NEW id \in Int, NEW n \in Nat, Adds(i, id, n)
      PROVE  ZeroInPlace'
  <2>1. i # 1
    <3>1. CASE i = Len(aStreams) + 1
      BY <1>0, <3>1
    <3>2. CASE id \in GivenIds /\ i \in FirstAbove(id)
      BY <1>0, <3>2 DEF FirstAbove, ZeroFirst
    <3> QED BY <1>2, <3>1, <3>2 DEF Adds, PlaceFor
  <2>2. 1 < i /\ 1 \in 1..(Len(aStreams) + 1)
    <3>1. i \in 1..(Len(aStreams) + 1)
      BY <1>0, <1>2 DEF Adds, Inserted
    <3> QED BY <1>0, <2>1, <3>1
  <2>3. aStreams'[1] = aStreams[1]
    BY <1>2, <2>2 DEF Adds, Inserted
  <2> QED BY <1>0, <1>2, <2>3 DEF ZeroFirst, ZeroInPlace, Adds
<1>3. ASSUME NEW n \in Nat, Loses(n) PROVE ZeroInPlace'
  BY <1>0, <1>3 DEF Loses, ZeroInPlace
<1>4. ASSUME NEW i \in DOMAIN aStreams, Drops(i) PROVE ZeroInPlace'
  <2>1. i # 1 /\ i \in Nat /\ i >= 1
    BY <1>0, <1>4 DEF Drops, ZeroFirst
  <2>2. 1 < i /\ 1 \in 1..(Len(aStreams') + 1)
    BY <1>0, <2>1
  <2>3. aStreams[1] = aStreams'[1]
    BY <1>4, <2>2 DEF Drops, Inserted
  <2> QED BY <1>0, <1>4, <2>3 DEF ZeroFirst, ZeroInPlace, Drops
<1>5. ASSUME NEW i \in Handles, NEW z \in Nat, NEW n \in Nat, Extends(i, z, n),
             UNCHANGED diskHeader
      PROVE  ZeroInPlace'
  <2>1. i \in DOMAIN aStreams /\ i # 1
    BY <1>0 DEF Handles, ZeroFirst
  <2> QED BY <1>0, <1>5, <2>1, OtherStreamKept DEF Extends, ZeroInPlace
<1>6. ASSUME NEW i \in Handles, NEW z \in Nat, NEW kept \in Nat, Cuts(i, z, kept)
      PROVE  ZeroInPlace'
  <2>1. i \in DOMAIN aStreams /\ i # 1
    BY <1>0 DEF Handles, ZeroFirst
  <2>2. ZeroFirst(aStreams')
    BY <1>0, <1>6, <2>1, OtherStreamKept DEF Cuts
  <2> QED BY <1>0, <1>6, <2>2 DEF Cuts, ZeroInPlace
<1>7. ASSUME NEW m \in Nat, HeaderBytes + 4 * m \in Nat, WritesHeader(m)
      PROVE  ZeroInPlace'
  <2>1. Allocated(m) \in Seq(Nat)
    BY <1>7, AllocatedFresh DEF WritesHeader, Extends, Fresh
  <2>2. Updated(aStreams', aStreams, 1, HeaderBytes + 4 * m,
                aStreams[1].aBlocks \o Allocated(m))
    BY <1>7 DEF WritesHeader, Extends
  <2>3. ZeroFirst(aStreams')
    BY <1>0, <2>1, <2>2, ExtendedZeroFirst
  <2>4. aStreams'[1].iSize > 0
    <3>1. aStreams'[1].iSize >= 14 /\ aStreams'[1].iSize = HeaderBytes + 4 * m
      BY <1>7, WrittenFacts
    <3> QED BY <1>7, <3>1
  <2>5. ZeroFirst(HeaderImage(aStreams'))
    BY <1>0, <2>3, <2>4, ImageZeroFirst
  <2> QED BY <1>0, <1>7, <2>3, <2>5 DEF WritesHeader, ZeroInPlace
<1>8. ASSUME initialize PROVE ZeroInPlace'
  BY <1>0, <1>8 DEF initialize, ZeroInPlace
<1>9. ASSUME UNCHANGED vars PROVE ZeroInPlace'
  BY <1>0, <1>9 DEF vars, ZeroInPlace
<1> QED BY <1>1, <1>2, <1>3, <1>4, <1>5, <1>6, <1>7, <1>8, <1>9, StepShapes
        DEF Shaped

(* A header whose block lists are no longer than the sizes need. *)
Trimmed(S) ==
  \A s \in DOMAIN S : Len(S[s].aBlocks) = blkDiv(S[s].iSize, BlockSize)

(* What the flag bHeaderChanged promises, with the trimmed lists it takes. *)
HeaderSaved == CleanHeaderOnDisk /\ Trimmed(diskHeader)

(* Writing such a list changes nothing. *)
LEMMA TrimmedImage ==
  ASSUME NEW S \in Seq(Stream), Trimmed(S)
  PROVE  HeaderImage(S) = S
<1>1. ASSUME NEW s \in DOMAIN S
      PROVE  [S[s] EXCEPT !.aBlocks =
                SubSeq(@, 1, blkDiv(S[s].iSize, BlockSize))] = S[s]
  <2>1. S[s] \in Stream /\ S[s].aBlocks \in Seq(Nat)
    BY SeqElem, StreamFields
  <2>2. PICK a \in Seq(Nat) : a = S[s].aBlocks
    BY <2>1
  <2>3. SubSeq(a, 1, Len(a)) = a
    OBVIOUS
  <2>4. [S[s] EXCEPT !.aBlocks = a] = S[s]
    BY <2>1, <2>2 DEF Stream
  <2>5. SubSeq(S[s].aBlocks, 1, blkDiv(S[s].iSize, BlockSize)) = a
    BY <2>2, <2>3 DEF Trimmed
  <2> QED BY <2>4, <2>5
<1>2. S = [s \in DOMAIN S |-> S[s]]
  OBVIOUS
<1> QED BY <1>1, <1>2 DEF HeaderImage

(* The formatted header is one. *)
LEMMA EmptyTrimmed == Trimmed(<<EmptyHeader>>)
<1>1. FormatBlocks = blkDiv(22 + 4 * FormatBlocks, BlockSize)
  <2>1. /\ FormatBlocks \in Nat /\ BlockSize \in Nat \ {0}
        /\ 22 + 4 * FormatBlocks \in Nat
        /\ 22 + 4 * FormatBlocks <= FormatBlocks * BlockSize
        /\ FormatBlocks <= blkDiv(22 + 4 * FormatBlocks, BlockSize)
    BY FormatAssumption, ConstantsAssumption
  <2>2. /\ blkDiv(22 + 4 * FormatBlocks, BlockSize) \in Nat
        /\ blkDiv(22 + 4 * FormatBlocks, BlockSize) <= FormatBlocks
    BY <2>1, BlkDivEnough, BlkDivLeast
  <2> QED BY <2>1, <2>2
<1> QED BY <1>1, EmptyHeaderFacts DEF Trimmed

(* Every step keeps the store up to date or the flag up. *)
LEMMA HeaderSavedStep ==
  ASSUME IndInv, IndInv', ZeroInPlace', HeaderSaved, [Next]_vars
  PROVE  HeaderSaved'
<1>0. /\ diskHeader \in Seq(Stream) /\ Trimmed(diskHeader)
      /\ aStreams' \in Seq(Stream) /\ Fit(aStreams')
  BY DEF IndInv, TypeOK, HeaderSaved, StreamsFit
<1>1. ASSUME bHeaderChanged' = TRUE, Trimmed(diskHeader') PROVE HeaderSaved'
  BY <1>1 DEF HeaderSaved, CleanHeaderOnDisk
<1>2. ASSUME NEW pre \in Nat, Formatted(pre)' PROVE HeaderSaved'
  BY <1>1, <1>2, EmptyTrimmed DEF Formatted
<1>3. ASSUME bHeaderChanged' = TRUE, UNCHANGED diskHeader PROVE HeaderSaved'
  BY <1>0, <1>1, <1>3
<1>4. ASSUME NEW m \in Nat, WritesHeader(m) PROVE HeaderSaved'
  <2>1. diskHeader' = HeaderImage(aStreams')
    BY <1>4 DEF WritesHeader, ZeroInPlace, ZeroFirst, HeaderAtZero
  <2>2. \A s \in DOMAIN aStreams' :
          /\ DOMAIN HeaderImage(aStreams') = DOMAIN aStreams'
          /\ HeaderImage(aStreams')[s].iSize = aStreams'[s].iSize
          /\ Len(HeaderImage(aStreams')[s].aBlocks)
               = blkDiv(aStreams'[s].iSize, BlockSize)
    BY <1>0, ImageFields
  <2>3. DOMAIN HeaderImage(aStreams') = DOMAIN aStreams'
    BY DEF HeaderImage
  <2>4. Trimmed(HeaderImage(aStreams'))
    BY <2>2, <2>3 DEF Trimmed
  <2> QED BY <2>1, <2>4 DEF HeaderSaved, CleanHeaderOnDisk
<1>5. ASSUME initialize PROVE HeaderSaved'
  <2>1. aStreams' = diskHeader /\ diskHeader' = diskHeader
    BY <1>5 DEF initialize
  <2>2. HeaderImage(diskHeader) = diskHeader
    BY <1>0, TrimmedImage
  <2> QED BY <1>0, <2>1, <2>2 DEF HeaderSaved, CleanHeaderOnDisk
<1>6. ASSUME UNCHANGED vars PROVE HeaderSaved'
  BY <1>6 DEF vars, HeaderSaved, CleanHeaderOnDisk
<1>7. ASSUME NEW i, NEW id, NEW n, Adds(i, id, n) PROVE HeaderSaved'
  BY <1>3, <1>7 DEF Adds
<1>8. ASSUME NEW n, Loses(n) PROVE HeaderSaved'
  BY <1>3, <1>8 DEF Loses
<1>9. ASSUME NEW i, Drops(i) PROVE HeaderSaved'
  BY <1>3, <1>9 DEF Drops
<1>10. ASSUME NEW i, NEW z, NEW kept, Cuts(i, z, kept) PROVE HeaderSaved'
  BY <1>3, <1>10 DEF Cuts
<1> QED BY <1>2, <1>3, <1>4, <1>5, <1>6, <1>7, <1>8, <1>9, <1>10, StepShapes
        DEF Shaped

-----------------------------------------------------------------------------
(* The order of the ids. *)

Rising(S) == \A i, j \in DOMAIN S : i < j => S[i].iId < S[j].iId

(* The ids rise in memory and in the store. *)
IdsRise == Rising(aStreams) /\ Rising(diskHeader)

(* The ids of a list with the ids of another in the same order. *)
LEMMA SameIdsRise ==
  ASSUME NEW S, NEW T, DOMAIN T = DOMAIN S,
         \A s \in DOMAIN S : T[s].iId = S[s].iId, Rising(S)
  PROVE  Rising(T)
  BY DEF Rising

(* A new size or block list of one stream leaves the ids as they are. *)
LEMMA UpdatedRise ==
  ASSUME NEW S, NEW T, NEW i \in DOMAIN S, NEW z, NEW a, Updated(T, S, i, z, a),
         Rising(S)
  PROVE  Rising(T)
  BY SameIdsRise DEF Updated

(* An id put in its place. *)
LEMMA InsertedRise ==
  ASSUME NEW S \in Seq(Stream), Rising(S), NEW T, NEW i, NEW p \in Stream,
         Inserted(T, S, i, p),
         \A s \in DOMAIN S : s < i => S[s].iId < p.iId,
         \A s \in DOMAIN S : s >= i => p.iId < S[s].iId
  PROVE  Rising(T)
<1>1. /\ DOMAIN T = 1..(Len(S) + 1) /\ Len(S) \in Nat /\ i \in 1..(Len(S) + 1)
      /\ T[i] = p /\ DOMAIN S = 1..Len(S)
  BY DEF Inserted
<1>2. ASSUME NEW s \in DOMAIN T, NEW t \in DOMAIN T, s < t
      PROVE  T[s].iId < T[t].iId
  <2>0. s \in Nat /\ t \in Nat /\ i \in Nat
    BY <1>1
  <2>1. CASE s = i
    <3>1. t - 1 \in DOMAIN S /\ T[t] = S[t - 1] /\ t - 1 >= i
      BY <1>1, <1>2, <2>0, <2>1 DEF Inserted
    <3> QED BY <1>1, <2>1, <3>1
  <2>2. CASE t = i
    <3>1. s \in DOMAIN S /\ T[s] = S[s]
      BY <1>1, <1>2, <2>0, <2>2 DEF Inserted
    <3> QED BY <1>1, <1>2, <2>2, <3>1
  <2>3. CASE s # i /\ t # i
    <3>1. \E u \in DOMAIN S : T[s] = S[u] /\ ((s < i /\ u = s) \/ (s > i /\ u = s - 1))
      <4>1. s < i \/ s > i
        BY <2>0, <2>3
      <4> QED BY <1>1, <4>1 DEF Inserted
    <3>2. \E u \in DOMAIN S : T[t] = S[u] /\ ((t < i /\ u = t) \/ (t > i /\ u = t - 1))
      <4>1. t < i \/ t > i
        BY <2>0, <2>3
      <4> QED BY <1>1, <4>1 DEF Inserted
    <3>3. PICK u \in DOMAIN S : T[s] = S[u] /\ ((s < i /\ u = s) \/ (s > i /\ u = s - 1))
      BY <3>1
    <3>4. PICK v \in DOMAIN S : T[t] = S[v] /\ ((t < i /\ v = t) \/ (t > i /\ v = t - 1))
      BY <3>2
    <3>5. u < v
      BY <1>2, <2>0, <3>3, <3>4
    <3> QED BY <3>3, <3>4, <3>5 DEF Rising
  <2> QED BY <2>1, <2>2, <2>3
<1> QED BY <1>2 DEF Rising

(* Taking a stream out keeps the order of the others. *)
LEMMA RemovedRise ==
  ASSUME NEW T \in Seq(Stream), NEW S, Rising(S), NEW i, NEW p,
         Inserted(S, T, i, p)
  PROVE  Rising(T)
<1>1. /\ DOMAIN S = 1..(Len(T) + 1) /\ Len(T) \in Nat /\ i \in 1..(Len(T) + 1)
      /\ DOMAIN T = 1..Len(T)
  BY DEF Inserted
<1> DEFINE up(s) == IF s < i THEN s ELSE s + 1
<1>2. \A s \in DOMAIN T : up(s) \in DOMAIN S /\ T[s] = S[up(s)]
  <2> TAKE s \in DOMAIN T
  <2>1. CASE s < i
    BY <1>1, <2>1 DEF Inserted
  <2>2. CASE ~ (s < i)
    <3>1. s + 1 \in 1..(Len(T) + 1) /\ s + 1 > i /\ (s + 1) - 1 = s
      BY <1>1, <2>2
    <3>2. S[s + 1] = T[s]
      BY <3>1 DEF Inserted
    <3> QED BY <1>1, <2>2, <3>1, <3>2
  <2> QED BY <2>1, <2>2
<1>3. \A s, t \in DOMAIN T : s < t => up(s) < up(t)
  BY <1>1
<1> HIDE DEF up
<1> QED BY <1>2, <1>3 DEF Rising

(* Every step keeps the ids in order, unless a caller gives an id that is  *)
(* in use.                                                                 *)
LEMMA IdsRiseStep ==
  ASSUME ReuseIds = FALSE, IndInv, IndInv', IdsRise, [Next]_vars
  PROVE  IdsRise'
<1>0. /\ aStreams \in Seq(Stream) /\ aStreams # << >> /\ Len(aStreams) \in Nat
      /\ aStreams' \in Seq(Stream) /\ Fit(aStreams')
      /\ Len(aStreams) \in DOMAIN aStreams /\ 1 \in DOMAIN aStreams
      /\ Rising(aStreams) /\ Rising(diskHeader)
      /\ DOMAIN aStreams = 1..Len(aStreams)
  BY DEF IndInv, TypeOK, StreamsFit, IdsRise
<1>1. ASSUME NEW pre \in Nat, Formatted(pre)' PROVE IdsRise'
  <2>1. Rising(<<EmptyHeader>>)
    BY DEF Rising
  <2> QED BY <1>1, <2>1 DEF Formatted, IdsRise
<1>2. ASSUME NEW i \in Nat, NEW id \in Int, NEW n \in Nat, Adds(i, id, n)
      PROVE  IdsRise'
  <2>0. \A s \in DOMAIN aStreams : aStreams[s].iId \in Int
    BY <1>0, SeqElem, StreamFields
  <2>1. /\ \A s \in DOMAIN aStreams : s < i => aStreams[s].iId < id
        /\ \A s \in DOMAIN aStreams : s >= i => id < aStreams[s].iId
    <3>1. CASE i = Len(aStreams) + 1 /\ Last(aStreams).iId < id
      <4>1. ASSUME NEW s \in DOMAIN aStreams PROVE aStreams[s].iId < id /\ ~ (s >= i)
        <5>1. aStreams[Len(aStreams)].iId < id
          BY <3>1 DEF Last
        <5>2. s = Len(aStreams)
              \/ aStreams[s].iId < aStreams[Len(aStreams)].iId
          BY <1>0 DEF Rising
        <5> QED BY <1>0, <2>0, <3>1, <5>1, <5>2
      <4> QED BY <4>1
    <3>2. CASE /\ i \in FirstAbove(id)
               /\ \A s \in DOMAIN aStreams : aStreams[s].iId # id
      <4>1. /\ i \in DOMAIN aStreams /\ aStreams[i].iId > id
            /\ \A k \in 1..(i - 1) : aStreams[k].iId <= id
        BY <3>2 DEF FirstAbove
      <4>2. ASSUME NEW s \in DOMAIN aStreams, s < i PROVE aStreams[s].iId < id
        <5>1. s \in 1..(i - 1)
          BY <1>0, <4>2
        <5> QED BY <2>0, <3>2, <4>1, <5>1
      <4>3. ASSUME NEW s \in DOMAIN aStreams, s >= i PROVE id < aStreams[s].iId
        <5>1. s = i \/ aStreams[i].iId < aStreams[s].iId
          BY <1>0, <4>1, <4>3 DEF Rising
        <5> QED BY <2>0, <4>1, <5>1
      <4> QED BY <4>2, <4>3
    <3> QED BY <1>2, <3>1, <3>2 DEF Adds, PlaceFor
  <2>2. PICK p : p = [iId |-> id, iSize |-> 0, aBlocks |-> Allocated(n)]
    OBVIOUS
  <2>3. p \in Stream /\ p.iId = id
    BY <1>2, <2>2, AllocatedFresh DEF Adds, Fresh, Stream
  <2>4. Inserted(aStreams', aStreams, i, p)
    BY <1>2, <2>2 DEF Adds
  <2>5. Rising(aStreams')
    BY <1>0, <2>1, <2>3, <2>4, InsertedRise
  <2> QED BY <1>0, <1>2, <2>5 DEF Adds, IdsRise
<1>3. ASSUME NEW n \in Nat, Loses(n) PROVE IdsRise'
  BY <1>3 DEF Loses
<1>4. ASSUME NEW i \in DOMAIN aStreams, Drops(i) PROVE IdsRise'
  <2>1. Rising(aStreams')
    BY <1>0, <1>4, RemovedRise DEF Drops
  <2> QED BY <1>0, <1>4, <2>1 DEF Drops, IdsRise
<1>5. ASSUME NEW i \in DOMAIN aStreams, NEW z, NEW n, Extends(i, z, n)
      PROVE  Rising(aStreams')
  <2>1. PICK a : Updated(aStreams', aStreams, i, z, a)
    BY <1>5, Zenon DEF Extends
  <2> QED BY <1>0, <2>1, UpdatedRise
<1>6. ASSUME NEW i \in Handles, NEW z, NEW kept, Cuts(i, z, kept)
      PROVE  IdsRise'
  <2>1. i \in DOMAIN aStreams
    BY DEF Handles
  <2>a. PICK a : Updated(aStreams', aStreams, i, z, a)
    BY <1>6, Zenon DEF Cuts
  <2>2. Rising(aStreams')
    BY <1>0, <2>1, <2>a, UpdatedRise
  <2> QED BY <1>0, <1>6, <2>2 DEF Cuts, IdsRise
<1>7. ASSUME NEW m \in Nat, WritesHeader(m) PROVE IdsRise'
  <2>1. Rising(aStreams')
    BY <1>0, <1>5, <1>7 DEF WritesHeader
  <2>2. /\ DOMAIN HeaderImage(aStreams') = DOMAIN aStreams'
        /\ \A s \in DOMAIN aStreams' :
             HeaderImage(aStreams')[s].iId = aStreams'[s].iId
    BY <1>0, ImageFields DEF HeaderImage
  <2>3. Rising(HeaderImage(aStreams'))
    BY <2>1, <2>2, SameIdsRise
  <2> QED BY <1>0, <1>7, <2>1, <2>3 DEF WritesHeader, IdsRise
<1>8. ASSUME initialize PROVE IdsRise'
  BY <1>0, <1>8 DEF initialize, IdsRise
<1>9. ASSUME UNCHANGED vars PROVE IdsRise'
  BY <1>0, <1>9 DEF vars, IdsRise
<1>10. ASSUME NEW i \in Handles, NEW z, NEW n, Extends(i, z, n), UNCHANGED diskHeader
       PROVE  IdsRise'
  BY <1>0, <1>5, <1>10 DEF Handles, IdsRise
<1> QED BY <1>1, <1>2, <1>3, <1>4, <1>6, <1>7, <1>8, <1>9, <1>10, StepShapes
        DEF Shaped

-----------------------------------------------------------------------------
(* The count behind getNumUsedBlocks. *)

(* Every step changes the count by what it changes in the block lists,     *)
(* unless a caller gives an id that is in use.                             *)
LEMMA UsedCountStep ==
  ASSUME ReuseIds = FALSE, IndInv, IndInv', UsedCountDrift, [Next]_vars
  PROVE  UsedCountDrift'
<1>0. /\ aStreams \in Seq(Stream) /\ aStreams # << >> /\ 1 \in DOMAIN aStreams
      /\ aStreams' \in Seq(Stream) /\ iUsed \in Int
      /\ Cardinality(Entries(aStreams)) \in Nat
      /\ iUsed - Cardinality(Entries(aStreams)) \in {0, 1}
      /\ Handles \subseteq DOMAIN aStreams
  <2>1. aStreams \in Seq(Stream)
    BY DEF IndInv, TypeOK
  <2>2. Cardinality(Entries(aStreams)) \in Nat
    BY <2>1, EntriesFinite
  <2> QED BY <2>1, <2>2 DEF IndInv, TypeOK, UsedCountDrift, Handles
<1>1. ASSUME NEW d \in Int, iUsed' = iUsed + d,
             Cardinality(Entries(aStreams')) = Cardinality(Entries(aStreams)) + d
      PROVE  UsedCountDrift'
  BY <1>0, <1>1 DEF UsedCountDrift
<1>2. ASSUME NEW pre \in Nat, Formatted(pre)' PROVE UsedCountDrift'
  <2>1. aStreams' = <<EmptyHeader>> /\ iUsed' = FormatBlocks + 1
    BY <1>2 DEF Formatted
  <2> QED BY <2>1, EmptyHeaderCount, EmptyHeaderFacts DEF UsedCountDrift
<1>3. ASSUME NEW i \in Nat, NEW id \in Int, NEW n \in Nat, Adds(i, id, n)
      PROVE  UsedCountDrift'
  <2>1. PICK p : p = [iId |-> id, iSize |-> 0, aBlocks |-> Allocated(n)]
    OBVIOUS
  <2>2. p \in Stream /\ Len(p.aBlocks) = n
    BY <1>3, <2>1, AllocatedFresh DEF Adds, Fresh, Stream
  <2>3. Inserted(aStreams', aStreams, i, p)
    BY <1>3, <2>1 DEF Adds
  <2>4. Cardinality(Entries(aStreams')) = Cardinality(Entries(aStreams)) + n
    BY <1>0, <2>2, <2>3, InsertedCount
  <2>5. iUsed' = iUsed + n
    BY <1>3 DEF Adds, findEmptyBlocks
  <2> QED BY <1>1, <2>4, <2>5
<1>4. ASSUME NEW n \in Nat, Loses(n) PROVE UsedCountDrift'
  BY <1>4 DEF Loses
<1>5. ASSUME NEW i \in DOMAIN aStreams, Drops(i) PROVE UsedCountDrift'
  <2>1. aStreams[i] \in Stream /\ Len(aStreams[i].aBlocks) \in Nat
    BY StreamNumbers
  <2>2. Cardinality(Entries(aStreams))
          = Cardinality(Entries(aStreams')) + Len(aStreams[i].aBlocks)
    BY <1>0, <1>5, <2>1, InsertedCount DEF Drops
  <2>3. iUsed' = iUsed - Len(aStreams[i].aBlocks)
    BY <1>5 DEF Drops
  <2>4. Cardinality(Entries(aStreams')) \in Nat
    BY <1>0, EntriesFinite
  <2>5. /\ Cardinality(Entries(aStreams'))
             = Cardinality(Entries(aStreams)) + (- Len(aStreams[i].aBlocks))
        /\ iUsed' = iUsed + (- Len(aStreams[i].aBlocks))
        /\ - Len(aStreams[i].aBlocks) \in Int
    BY <1>0, <2>1, <2>2, <2>3, <2>4
  <2> QED BY <1>1, <2>5
<1>6. ASSUME NEW i \in DOMAIN aStreams, NEW z, NEW n \in Nat, Extends(i, z, n)
      PROVE  UsedCountDrift'
  <2>1. aStreams[i].aBlocks \in Seq(Nat) /\ Len(aStreams[i].aBlocks) \in Nat
    BY StreamNumbers
  <2>2. Allocated(n) \in Seq(Nat) /\ Len(Allocated(n)) = n
    BY <1>6, AllocatedFresh DEF Extends, Fresh
  <2>3. Len(aStreams[i].aBlocks \o Allocated(n)) = Len(aStreams[i].aBlocks) + n
    BY <2>1, <2>2, SeqConcat
  <2>4. Cardinality(Entries(aStreams'))
          = Cardinality(Entries(aStreams)) - Len(aStreams[i].aBlocks)
              + Len(aStreams[i].aBlocks \o Allocated(n))
    <3>1. Updated(aStreams', aStreams, i, z, aStreams[i].aBlocks \o Allocated(n))
      BY <1>6 DEF Extends
    <3>2. aStreams \in Seq(Stream)
      BY <1>0
    <3> QED BY <3>1, <3>2, UpdatedCount, Zenon
  <2>5. Cardinality(Entries(aStreams')) = Cardinality(Entries(aStreams)) + n
    BY <1>0, <2>1, <2>3, <2>4
  <2>6. iUsed' = iUsed + n
    BY <1>6 DEF Extends, findEmptyBlocks
  <2> QED BY <1>1, <2>5, <2>6
<1>7. ASSUME NEW i \in DOMAIN aStreams, NEW z, NEW kept \in Nat, Cuts(i, z, kept)
      PROVE  UsedCountDrift'
  <2>1. PICK a \in Seq(Nat) : a = aStreams[i].aBlocks
    BY StreamNumbers
  <2>2. Len(a) \in Nat /\ kept <= Len(a) /\ Len(SubSeq(a, 1, kept)) = kept
    <3>1. kept <= Len(a)
      BY <1>7, <2>1 DEF Cuts
    <3> QED BY <3>1, SeqFirst
  <2>3. Cardinality(Entries(aStreams'))
          = Cardinality(Entries(aStreams)) - Len(a) + Len(SubSeq(a, 1, kept))
    <3>1. Updated(aStreams', aStreams, i, z, SubSeq(a, 1, kept))
      BY <1>7, <2>1, Zenon DEF Cuts
    <3>2. aStreams \in Seq(Stream)
      BY <1>0
    <3> QED BY <2>1, <3>1, <3>2, UpdatedCount, Zenon
  <2>4. iUsed' = iUsed - (Len(a) - kept)
    BY <1>7, <2>1 DEF Cuts
  <2>5. /\ Cardinality(Entries(aStreams'))
             = Cardinality(Entries(aStreams)) + (kept - Len(a))
        /\ iUsed' = iUsed + (kept - Len(a)) /\ kept - Len(a) \in Int
    BY <1>0, <2>2, <2>3, <2>4
  <2> QED BY <1>1, <2>5
<1>8. ASSUME NEW m \in Nat, WritesHeader(m) PROVE UsedCountDrift'
  BY <1>0, <1>6, <1>8 DEF WritesHeader
<1>9. ASSUME initialize PROVE UsedCountDrift'
  <2>1. iUsed' = Cardinality(Entries(aStreams'))
    BY <1>9 DEF initialize
  <2>2. Cardinality(Entries(aStreams')) \in Nat
    BY <1>0, EntriesFinite
  <2> QED BY <2>1, <2>2 DEF UsedCountDrift
<1>10. ASSUME UNCHANGED vars PROVE UsedCountDrift'
  BY <1>10 DEF vars, UsedCountDrift
<1> QED BY <1>0, <1>2, <1>3, <1>4, <1>5, <1>6, <1>7, <1>8, <1>9, <1>10, StepShapes
        DEF Shaped

-----------------------------------------------------------------------------
(* No block is lost. *)

(* Ascending leaves no member out. *)
LEMMA AscendingCovers ==
  ASSUME NEW S \in SUBSET Nat, IsFiniteSet(S)
  PROVE  S \subseteq Range(Ascending(S))
<1> DEFINE A == Ascending(S)
           n == Cardinality(S)
<1>1. A \in Seq(S) /\ IsInjective(A)
  BY AscendingFresh
<1>2. n \in Nat /\ DOMAIN A = 1..n
  BY FS_CardinalityType DEF Ascending
<1>3. A \in [1..n -> S]
  BY <1>1, <1>2
<1> HIDE DEF A
<1>4. A \in Injection(1..n, S)
  BY <1>1, <1>3 DEF Injection
<1>5. Cardinality(1..n) = n
  BY <1>2, FS_Interval
<1>6. A \in Surjection(1..n, S)
  BY <1>4, <1>5, FS_Injection
<1>7. \A b \in S : \E k \in 1..n : A[k] = b
  BY <1>6 DEF Surjection
<1> QED BY <1>2, <1>7 DEF Range, A

(* What findEmptyBlock takes, from the free list and from the end. *)
LEMMA AllocatedCovers ==
  ASSUME IndInv, NEW n \in Nat, findEmptyBlocks(n)
  PROVE  /\ \A b \in 0..(iBlocks' - 1) :
              b < iBlocks \/ b \in Range(Allocated(n))
         /\ Free \subseteq Range(lFreeBlocks') \cup Range(Allocated(n))
<1> DEFINE L == lFreeBlocks
           m == FromList(n)
           A == Allocated(n)
<1>1. L \in Seq(Nat) /\ Len(L) \in Nat /\ iBlocks \in Nat
  BY DEF IndInv, TypeOK
<1>c. DOMAIN L = 1..Len(L)
  BY <1>1
<1>d. m = IF n <= Len(L) THEN n ELSE Len(L)
  BY DEF FromList
<1>2. /\ m \in Nat /\ m <= n /\ m <= Len(L) /\ (m < n => m = Len(L))
      /\ (n <= Len(L) => m = n)
  <2> HIDE DEF L, m
  <2> QED BY <1>1, <1>d
<1>3. /\ lFreeBlocks' = SubSeq(L, m + 1, Len(L))
      /\ iBlocks' = iBlocks + (n - m)
  BY DEF findEmptyBlocks
<1>a. A = [k \in 1..n |-> IF k <= Len(L) THEN L[k] ELSE iBlocks + (k - Len(L)) - 1]
  BY DEF Allocated
<1> HIDE DEF A
<1>4. /\ DOMAIN A = 1..n
      /\ \A k \in 1..n : k <= Len(L) => A[k] = L[k]
      /\ \A k \in 1..n : k > Len(L) => A[k] = iBlocks + (k - Len(L)) - 1
  BY <1>1, <1>a
<1>b. /\ DOMAIN lFreeBlocks' = 1..(Len(L) - m)
      /\ \A j \in 1..(Len(L) - m) : lFreeBlocks'[j] = L[j + m]
  <2> HIDE DEF L, m
  <2>1. /\ lFreeBlocks' \in Seq(Nat) /\ Len(lFreeBlocks') = Len(L) - m
        /\ \A k \in DOMAIN lFreeBlocks' : lFreeBlocks'[k] = L[k + m]
    BY <1>1, <1>2, <1>3, SeqRest
  <2>2. DOMAIN lFreeBlocks' = 1..(Len(L) - m)
    BY <1>1, <2>1
  <2> QED BY <2>1, <2>2
<1> HIDE DEF m, L
<1>5. ASSUME NEW b \in 0..(iBlocks' - 1), ~ (b < iBlocks)
      PROVE  b \in Range(A)
  <2>1. iBlocks' \in Nat /\ b \in Nat /\ b < iBlocks'
    BY <1>1, <1>2, <1>3
  <2>2. m = Len(L)
    BY <1>1, <1>2, <1>3, <1>5, <2>1
  <2>3. b - iBlocks + Len(L) + 1 \in 1..n /\ b - iBlocks + Len(L) + 1 > Len(L)
    BY <1>1, <1>3, <1>5, <2>1, <2>2
  <2>4. A[b - iBlocks + Len(L) + 1]
          = iBlocks + ((b - iBlocks + Len(L) + 1) - Len(L)) - 1
    BY <1>4, <2>3
  <2>5. iBlocks + ((b - iBlocks + Len(L) + 1) - Len(L)) - 1 = b
    BY <1>1, <2>1
  <2> QED BY <1>4, <2>3, <2>4, <2>5 DEF Range
<1>6. ASSUME NEW k \in DOMAIN L
      PROVE  L[k] \in Range(lFreeBlocks') \cup Range(A)
  <2>0. k \in Nat /\ k >= 1 /\ k <= Len(L)
    BY <1>1, <1>c
  <2>1. CASE k <= m
    <3>1. k \in 1..n /\ A[k] = L[k]
      BY <1>2, <1>4, <2>0, <2>1
    <3> QED BY <1>4, <3>1 DEF Range
  <2>2. CASE ~ (k <= m)
    <3>3. k - m \in 1..(Len(L) - m) /\ (k - m) + m = k
      BY <1>1, <1>2, <2>0, <2>2
    <3>4. lFreeBlocks'[k - m] = L[k]
      BY <1>b, <3>3
    <3> QED BY <1>b, <3>3, <3>4 DEF Range
  <2> QED BY <2>1, <2>2
<1>7. Free \subseteq Range(lFreeBlocks') \cup Range(A)
  BY <1>6 DEF Free, Range, L
<1> QED BY <1>5, <1>7 DEF A

(* After allocation the streams hold the new blocks, if they keep the old. *)
LEMMA AllocationCovers ==
  ASSUME IndInv, NoLostBlocks, NEW n \in Nat, findEmptyBlocks(n),
         Owned \cup Range(Allocated(n)) \subseteq BlocksOf(aStreams')
  PROVE  NoLostBlocks'
<1>1. ASSUME NEW b \in 0..(iBlocks' - 1)
      PROVE  b \in BlocksOf(aStreams') \cup Range(lFreeBlocks')
  <2>1. CASE b \in Range(Allocated(n))
    BY <2>1
  <2>2. CASE b < iBlocks
    <3>1. b \in 0..(iBlocks - 1)
      <4>1. iBlocks \in Nat /\ iBlocks' \in Nat
        BY AllocatedFresh DEF IndInv, TypeOK
      <4> QED BY <1>1, <2>2, <4>1
    <3>2. b \in Owned \/ b \in Free
      BY <3>1 DEF NoLostBlocks
    <3> QED BY <3>2, AllocatedCovers
  <2> QED BY <1>1, <2>1, <2>2, AllocatedCovers
<1> QED BY <1>1 DEF NoLostBlocks, Owned, Free

(* After giving blocks up they are on the free list. *)
LEMMA ReleaseCovers ==
  ASSUME IndInv, NoLostBlocks, NEW F \in Seq(Nat),
         lFreeBlocks' = lFreeBlocks \o F, iBlocks' = iBlocks,
         Owned \subseteq BlocksOf(aStreams') \cup Range(F)
  PROVE  NoLostBlocks'
<1>1. lFreeBlocks \in Seq(Nat)
  BY DEF IndInv, TypeOK
<1>2. PICK L \in Seq(Nat) : L = lFreeBlocks
  BY <1>1
<1>3. /\ \A k \in 1..Len(L) : (L \o F)[k] = L[k]
      /\ \A k \in 1..Len(F) : (L \o F)[Len(L) + k] = F[k]
      /\ DOMAIN (L \o F) = 1..(Len(L) + Len(F))
      /\ Len(L) \in Nat /\ Len(F) \in Nat
  OBVIOUS
<1>4. Range(L) \subseteq Range(L \o F)
  <2>1. \A k \in DOMAIN L : k \in DOMAIN (L \o F) /\ (L \o F)[k] = L[k]
    BY <1>3
  <2> QED BY <2>1 DEF Range
<1>5. Range(F) \subseteq Range(L \o F)
  <2>1. \A k \in DOMAIN F : /\ Len(L) + k \in DOMAIN (L \o F)
                            /\ (L \o F)[Len(L) + k] = F[k]
    BY <1>3
  <2> QED BY <2>1 DEF Range
<1>6. Free \subseteq Range(lFreeBlocks') /\ Range(F) \subseteq Range(lFreeBlocks')
  BY <1>2, <1>4, <1>5 DEF Free
<1> QED BY <1>6 DEF NoLostBlocks, Owned, Free

(* A formatted store has every block in the header or free. *)
LEMMA FormattedCovers ==
  ASSUME NEW pre \in Nat
  PROVE  0..((pre + FormatBlocks) - 1)
           \subseteq BlocksOf(<<EmptyHeader>>) \cup Range(FreshBlocks(pre))
<1> SUFFICES ASSUME NEW b \in 0..((pre + FormatBlocks) - 1)
             PROVE  b \in BlocksOf(<<EmptyHeader>>) \cup Range(FreshBlocks(pre))
  OBVIOUS
<1>0. FormatBlocks \in Nat /\ b \in Nat /\ b < pre + FormatBlocks
  BY EmptyHeaderFacts
<1>1. CASE b < FormatBlocks
  <2>1. b + 1 \in 1..FormatBlocks /\ (b + 1) - 1 = b
    BY <1>0, <1>1
  <2>2. b + 1 \in DOMAIN EmptyHeader.aBlocks /\ EmptyHeader.aBlocks[b + 1] = b
    BY <2>1, EmptyHeaderFacts
  <2>3. 1 \in DOMAIN <<EmptyHeader>> /\ <<EmptyHeader>>[1] = EmptyHeader
    OBVIOUS
  <2> QED BY <2>2, <2>3, BlocksOfElem
<1>2. CASE ~ (b < FormatBlocks)
  <2>1. b - FormatBlocks + 1 \in 1..pre
        /\ FormatBlocks + (b - FormatBlocks + 1) - 1 = b
    BY <1>0, <1>2
  <2>2. /\ b - FormatBlocks + 1 \in DOMAIN FreshBlocks(pre)
        /\ FreshBlocks(pre)[b - FormatBlocks + 1] = b
    BY <2>1 DEF FreshBlocks
  <2> QED BY <2>2 DEF Range
<1> QED BY <1>1, <1>2

(* Every step keeps every block in a stream or on the free list, unless a  *)
(* caller gives an id that is in use.                                      *)
LEMMA NoLostBlocksStep ==
  ASSUME ReuseIds = FALSE, IndInv, IndInv', NoLostBlocks, [Next]_vars
  PROVE  NoLostBlocks'
<1>0. /\ aStreams \in Seq(Stream) /\ aStreams # << >> /\ 1 \in DOMAIN aStreams
      /\ Handles \subseteq DOMAIN aStreams
  BY DEF IndInv, TypeOK, Handles
<1>1. ASSUME NEW pre \in Nat, Formatted(pre)' PROVE NoLostBlocks'
  <2>1. /\ aStreams' = <<EmptyHeader>> /\ lFreeBlocks' = FreshBlocks(pre)
        /\ iBlocks' = pre + FormatBlocks
    BY <1>1 DEF Formatted
  <2> QED BY <2>1, FormattedCovers, Zenon DEF NoLostBlocks, Owned, Free
<1>2. ASSUME NEW i \in Nat, NEW id \in Int, NEW n \in Nat, Adds(i, id, n)
      PROVE  NoLostBlocks'
  <2>1. PICK p : p = [iId |-> id, iSize |-> 0, aBlocks |-> Allocated(n)]
    OBVIOUS
  <2>2. Inserted(aStreams', aStreams, i, p) /\ p.aBlocks = Allocated(n)
    BY <1>2, <2>1 DEF Adds
  <2>3. BlocksOf(aStreams') = Owned \cup Range(Allocated(n))
    BY <1>0, <2>2, InsertedBlocks DEF Owned
  <2>4. findEmptyBlocks(n)
    BY <1>2 DEF Adds
  <2> QED BY <2>3, <2>4, AllocationCovers
<1>3. ASSUME NEW n \in Nat, Loses(n) PROVE NoLostBlocks'
  BY <1>3 DEF Loses
<1>4. ASSUME NEW i \in DOMAIN aStreams, Drops(i) PROVE NoLostBlocks'
  <2>1. aStreams[i].aBlocks \in Seq(Nat)
    BY StreamNumbers
  <2>2. /\ Inserted(aStreams, aStreams', i, aStreams[i])
        /\ lFreeBlocks' = lFreeBlocks \o aStreams[i].aBlocks
        /\ iBlocks' = iBlocks
    BY <1>4 DEF Drops
  <2>3. aStreams' \in Seq(Stream)
    BY DEF IndInv, TypeOK
  <2>4. Owned = BlocksOf(aStreams') \cup Range(aStreams[i].aBlocks)
    BY <2>2, <2>3, InsertedBlocks DEF Owned
  <2> QED BY <2>1, <2>2, <2>4, ReleaseCovers
<1>5. ASSUME NEW i \in DOMAIN aStreams, NEW z, NEW n \in Nat, Extends(i, z, n)
      PROVE  NoLostBlocks'
  <2>1. findEmptyBlocks(n)
    BY <1>5 DEF Extends
  <2>2. Updated(aStreams', aStreams, i, z, aStreams[i].aBlocks \o Allocated(n))
    BY <1>5 DEF Extends
  <2>3. Allocated(n) \in Seq(Nat)
    BY <2>1, AllocatedFresh DEF Fresh
  <2>4. aStreams \in Seq(Stream)
    BY <1>0
  <2>5. BlocksOf(aStreams) \cup Range(Allocated(n)) \subseteq BlocksOf(aStreams')
    BY <2>2, <2>3, <2>4, ExtendedBlocks, Zenon
  <2> QED BY <2>1, <2>5, AllocationCovers DEF Owned
<1>6. ASSUME NEW i \in DOMAIN aStreams, NEW z, NEW kept \in Nat, Cuts(i, z, kept)
      PROVE  NoLostBlocks'
  <2>1. PICK F \in Seq(Nat) :
          /\ lFreeBlocks' = lFreeBlocks \o F
          /\ \A k \in DOMAIN aStreams[i].aBlocks :
               k > kept => aStreams[i].aBlocks[k] \in Range(F)
    BY <1>6, Zenon DEF Cuts
  <2>2. /\ kept <= Len(aStreams[i].aBlocks)
        /\ Updated(aStreams', aStreams, i, z, SubSeq(aStreams[i].aBlocks, 1, kept))
        /\ iBlocks' = iBlocks
    BY <1>6 DEF Cuts
  <2>3. aStreams \in Seq(Stream)
    BY <1>0
  <2>4. BlocksOf(aStreams) \subseteq BlocksOf(aStreams') \cup Range(F)
    BY <2>1, <2>2, <2>3, CutBlocks, Zenon
  <2> QED BY <2>1, <2>2, <2>4, ReleaseCovers DEF Owned
<1>7. ASSUME NEW m \in Nat, WritesHeader(m) PROVE NoLostBlocks'
  BY <1>0, <1>5, <1>7 DEF WritesHeader
<1>8. ASSUME initialize PROVE NoLostBlocks'
  <2> DEFINE R == (0..(storeBlocks - 1)) \ BlocksOf(diskHeader)
  <2>1. /\ aStreams' = diskHeader /\ iBlocks' = storeBlocks
        /\ lFreeBlocks' = Ascending(R)
    BY <1>8 DEF initialize
  <2>2. storeBlocks \in Nat
    BY DEF IndInv, TypeOK
  <2>3. R \in SUBSET Nat /\ IsFiniteSet(R)
    <3>1. IsFiniteSet(0..(storeBlocks - 1))
      BY <2>2, FS_Interval
    <3> QED BY <2>2, <3>1, FS_Subset
  <2>4. \A b \in 0..(storeBlocks - 1) : b \in BlocksOf(diskHeader) \/ b \in R
    OBVIOUS
  <2> HIDE DEF R
  <2>5. R \subseteq Range(Ascending(R))
    BY <2>3, AscendingCovers
  <2> QED BY <2>1, <2>4, <2>5 DEF NoLostBlocks, Owned, Free
<1>9. ASSUME UNCHANGED vars PROVE NoLostBlocks'
  BY <1>9 DEF vars, NoLostBlocks, Owned, Free
<1> QED BY <1>0, <1>1, <1>2, <1>3, <1>4, <1>5, <1>6, <1>7, <1>8, <1>9, StepShapes
        DEF Shaped

-----------------------------------------------------------------------------
(* The initial states are the formatted ones. *)
LEMMA InitFormatted ==
  ASSUME Init
  PROVE  \E pre \in Nat : Formatted(pre)
<1>1. PreAllocs \subseteq Nat /\ FormatBlocks \in Nat
  BY ConstantsAssumption, FormatAssumption
<1> QED BY <1>1 DEF Init, Formatted

(* A Myriad that was just formatted satisfies all of the invariants. *)
LEMMA InitMore ==
  ASSUME Init
  PROVE  HeaderFits /\ ZeroInPlace /\ HeaderSaved /\ IdsRise /\ UsedCountDrift
         /\ NoLostBlocks
<1>1. PICK pre \in Nat : Formatted(pre)
  BY InitFormatted
<1>2. HeaderFits
  <2>1. HeaderWritten(<<EmptyHeader>>) <= EmptyHeader.iSize
    BY EmptyHeaderFacts, EmptyHeaderCount DEF HeaderWritten
  <2> QED BY <1>1, <2>1 DEF HeaderFits, Formatted
<1>3. ZeroInPlace
  BY <1>1, EmptyZeroFirst DEF ZeroInPlace, Formatted
<1>4. HeaderSaved
  BY <1>1, EmptyTrimmed DEF HeaderSaved, CleanHeaderOnDisk, Formatted
<1>5. IdsRise
  <2>1. Rising(<<EmptyHeader>>)
    BY DEF Rising
  <2> QED BY <1>1, <2>1 DEF Formatted, IdsRise
<1>6. UsedCountDrift
  <2>1. aStreams = <<EmptyHeader>> /\ iUsed = FormatBlocks + 1
    BY <1>1 DEF Formatted
  <2> QED BY <2>1, EmptyHeaderCount, EmptyHeaderFacts DEF UsedCountDrift
<1>7. NoLostBlocks
  <2>1. /\ aStreams = <<EmptyHeader>> /\ lFreeBlocks = FreshBlocks(pre)
        /\ iBlocks = pre + FormatBlocks
    BY <1>1 DEF Formatted
  <2> QED BY <2>1, FormattedCovers, Zenon DEF NoLostBlocks, Owned, Free
<1> QED BY <1>2, <1>3, <1>4, <1>5, <1>6, <1>7

(* updateHeader never writes past the end of stream zero, where write      *)
(* would take the mutex its caller holds: for every block size and every   *)
(* sequence of operations, the size it gave stream zero covers all it      *)
(* writes.                                                                 *)
THEOREM HeaderHasRoom == Spec => []HeaderFits
<1>1. Init => HeaderFits
  BY InitMore
<1>2. IndInv /\ IndInv' /\ HeaderFits /\ [Next]_vars => HeaderFits'
  BY HeaderFitsStep
<1> QED BY Invariance, <1>1, <1>2, PTL DEF Spec

(* As long as callers give createStreamWithId no negative id, the header   *)
(* of the memory and that of the store keep their place: the first stream, *)
(* from block zero on.                                                     *)
THEOREM ZeroStaysInPlace ==
  ASSUME GivenIds \subseteq Nat
  PROVE  Spec => []ZeroInPlace
<1>1. Init => ZeroInPlace
  BY InitMore
<1>2. IndInv /\ IndInv' /\ ZeroInPlace /\ [Next]_vars => ZeroInPlace'
  BY ZeroInPlaceStep
<1> QED BY Invariance, <1>1, <1>2, PTL DEF Spec

(* With the same callers, the header is the first stream and starts at     *)
(* block zero, where initialize() looks for it.                            *)
THEOREM HeaderStaysFirst ==
  ASSUME GivenIds \subseteq Nat
  PROVE  Spec => []HeaderIsStreamZero
<1>1. ZeroInPlace => HeaderIsStreamZero
  BY DEF ZeroInPlace, ZeroFirst, HeaderIsStreamZero
<1> QED BY ZeroStaysInPlace, <1>1, PTL

(* No operation changes the streams and leaves bHeaderChanged FALSE: when  *)
(* the flag is down, the store holds the header of the streams as they are *)
(* in memory, so sync() loses nothing by doing nothing.                    *)
THEOREM SyncSkipsNoChange ==
  ASSUME GivenIds \subseteq Nat
  PROVE  Spec => []CleanHeaderOnDisk
<1>1. Init => HeaderSaved
  BY InitMore
<1>2. IndInv /\ IndInv' /\ ZeroInPlace' /\ HeaderSaved /\ [Next]_vars
        => HeaderSaved'
  BY HeaderSavedStep
<1>3. HeaderSaved => CleanHeaderOnDisk
  BY DEF HeaderSaved
<1> QED BY Invariance, ZeroStaysInPlace, <1>1, <1>2, <1>3, PTL DEF Spec

(* As long as callers give createStreamWithId only ids that are free, the  *)
(* ids ascend, in memory and in the store: "last id plus one" is new and   *)
(* findStream finds the one stream with an id.                             *)
THEOREM IdsStayOrdered ==
  ASSUME ReuseIds = FALSE
  PROVE  Spec => []IdsAscend
<1>1. Init => IdsRise
  BY InitMore
<1>2. IndInv /\ IndInv' /\ IdsRise /\ [Next]_vars => IdsRise'
  BY IdsRiseStep
<1>3. IdsRise => IdsAscend
  BY DEF IdsRise, Rising, IdsAscend
<1> QED BY Invariance, <1>1, <1>2, <1>3, PTL DEF Spec

(* With the same callers, the count behind getNumUsedBlocks stays within   *)
(* one of the blocks the streams hold, however long the Myriad is used.    *)
THEOREM UsedCountHolds ==
  ASSUME ReuseIds = FALSE
  PROVE  Spec => []UsedCountDrift
<1>1. Init => UsedCountDrift
  BY InitMore
<1>2. IndInv /\ IndInv' /\ UsedCountDrift /\ [Next]_vars => UsedCountDrift'
  BY UsedCountStep
<1> QED BY Invariance, <1>1, <1>2, PTL DEF Spec

(* With the same callers, every block of the store is in a stream or on    *)
(* the free list: deleting, truncating and crashing never leak one.        *)
THEOREM BlocksNotLost ==
  ASSUME ReuseIds = FALSE
  PROVE  Spec => []NoLostBlocks
<1>1. Init => NoLostBlocks
  BY InitMore
<1>2. IndInv /\ IndInv' /\ NoLostBlocks /\ [Next]_vars => NoLostBlocks'
  BY NoLostBlocksStep
<1> QED BY Invariance, <1>1, <1>2, PTL DEF Spec
=============================================================================
