------------------------- MODULE MyriadStreamProofs --------------------------
(***************************************************************************)
(* Proofs about MyriadStream, for every block size and every set of        *)
(* streams, handles, blocks and bytes.                                     *)
(***************************************************************************)
EXTENDS MyriadStream, TLAPS

-----------------------------------------------------------------------------
(* Division with remainder. *)

(* Integer division by a positive number leaves a remainder below it. *)
LEMMA DivMod ==
  ASSUME NEW a \in Nat, NEW c \in Nat \ {0}
  PROVE  /\ a \div c \in Nat
         /\ a % c \in 0..(c - 1)
         /\ a = c * (a \div c) + (a % c)
  OBVIOUS

(* Multiplication by a number of bytes is monotonic. *)
LEMMA MulMono ==
  ASSUME NEW a \in Nat, NEW b \in Nat, NEW c \in Nat, a <= b
  PROVE  a * c <= b * c
  OBVIOUS

-----------------------------------------------------------------------------
(* Positions and blocks. *)

(* There is one quotient and one remainder. *)
LEMMA DivUnique ==
  ASSUME NEW a \in Nat, NEW c \in Nat \ {0}, NEW q \in Nat, NEW r \in Nat,
         r < c, a = c * q + r
  PROVE  a \div c = q /\ a % c = r
<1> DEFINE d == a \div c
           m == a % c
<1>1. d \in Nat /\ m \in 0..(c - 1) /\ a = c * d + m
  BY DivMod
<1> HIDE DEF d, m
<1>2. ~ (d < q)
  <2>1. SUFFICES ASSUME d + 1 <= q PROVE FALSE
    BY <1>1
  <2>2. (d + 1) * c <= q * c
    BY <2>1, <1>1, MulMono
  <2> QED BY <2>2, <1>1
<1>3. ~ (q < d)
  <2>1. SUFFICES ASSUME q + 1 <= d PROVE FALSE
    BY <1>1
  <2>2. (q + 1) * c <= d * c
    BY <2>1, <1>1, MulMono
  <2> QED BY <2>2, <1>1
<1>4. d = q
  BY <1>1, <1>2, <1>3
<1> QED BY <1>1, <1>4 DEF d, m

(* Positions inside the rest of a block are in that block. *)
LEMMA SameBlock ==
  ASSUME NEW p \in Nat, NEW o \in Nat, NEW n \in Nat, NEW c \in Nat \ {0},
         p <= o, o < p + n, n <= c - (p % c)
  PROVE  o \div c = p \div c /\ o % c = (p % c) + (o - p)
<1> DEFINE q == p \div c
           r == p % c
<1>1. q \in Nat /\ r \in 0..(c - 1) /\ p = c * q + r
  BY DivMod
<1> HIDE DEF q, r
<1>2. n <= c - r
  BY DEF r
<1>3. r + (o - p) \in Nat /\ r + (o - p) < c /\ o = c * q + (r + (o - p))
  BY <1>1, <1>2
<1>4. o \div c = q /\ o % c = r + (o - p)
  BY <1>1, <1>3, DivUnique
<1> QED BY <1>4 DEF q, r

(* A position below the end of some blocks is in one of them. *)
LEMMA DivBelow ==
  ASSUME NEW a \in Nat, NEW L \in Nat, NEW c \in Nat \ {0}, a < L * c
  PROVE  a \div c < L
<1> DEFINE d == a \div c
           m == a % c
<1>1. d \in Nat /\ m \in 0..(c - 1) /\ a = c * d + m
  BY DivMod
<1> HIDE DEF d, m
<1>2. SUFFICES ASSUME L <= d PROVE FALSE
  BY <1>1 DEF d
<1>3. L * c <= d * c
  BY <1>1, <1>2, MulMono
<1> QED BY <1>1, <1>3

(* What is left of a block behind a position ends where the block ends. *)
LEMMA BlockEnd ==
  ASSUME NEW p \in Nat, NEW n \in Nat, NEW L \in Nat, NEW c \in Nat \ {0},
         n <= c - (p % c), p \div c < L
  PROVE  p + n <= L * c
<1> DEFINE d == p \div c
           m == p % c
<1>1. d \in Nat /\ m \in 0..(c - 1) /\ p = c * d + m
  BY DivMod
<1>2. d < L /\ n <= c - m
  OBVIOUS
<1> HIDE DEF d, m
<1>3. (d + 1) * c <= L * c
  BY <1>1, <1>2, MulMono
<1> QED BY <1>1, <1>2, <1>3

(* The number of blocks that setSize asks for is enough. *)
LEMMA RoundedUp ==
  ASSUME NEW n \in Nat, NEW c \in Nat \ {0}
  PROVE  /\ (n + c - 1) \div c \in Nat
         /\ n <= ((n + c - 1) \div c) * c
<1> DEFINE a == n + c - 1
           d == a \div c
           m == a % c
<1>1. a \in Nat
  OBVIOUS
<1> HIDE DEF a
<1>2. d \in Nat /\ m \in 0..(c - 1) /\ a = c * d + m
  BY <1>1, DivMod
<1> HIDE DEF d, m
<1>3. n <= d * c
  BY <1>2 DEF a
<1> QED BY <1>2, <1>3 DEF a, d

(* The larger and the smaller of two numbers. *)
LEMMA MaxPair ==
  ASSUME NEW a \in Int, NEW b \in Int
  PROVE  Max({a, b}) = IF a >= b THEN a ELSE b
<1>1. \E x \in {a, b} : \A y \in {a, b} : x >= y
  OBVIOUS
<1> QED BY <1>1 DEF Max

LEMMA MinPair ==
  ASSUME NEW a \in Int, NEW b \in Int
  PROVE  Min({a, b}) = IF a <= b THEN a ELSE b
<1>1. \E x \in {a, b} : \A y \in {a, b} : x <= y
  OBVIOUS
<1> QED BY <1>1 DEF Min

-----------------------------------------------------------------------------
(* The types, and what they take. *)

(* A block that is registered is in the memory of the handle it is         *)
(* registered for.                                                         *)
RegisteredHold ==
  \A b \in Blocks : hActiveBlocks[b] # NONE =>
    /\ pCurBlock[hActiveBlocks[b]] # NONE
    /\ pCurBlock[hActiveBlocks[b]].iBlockIndex = b

(* A stream has blocks for all its bytes. *)
SizesHaveBlocks ==
  \A s \in Streams : iSize[s] <= Len(aBlocks[s]) * BlockSize

TypeInv == TypeOK /\ RegisteredHold /\ SizesHaveBlocks

(* A new Myriad has empty streams, and no handle has a block. *)
LEMMA InitTypeInv == Init => TypeInv
<1> SUFFICES ASSUME Init PROVE TypeInv
  OBVIOUS
<1>1. TypeOK
  BY DEF Init, TypeOK, Data
<1>2. RegisteredHold
  BY DEF Init, RegisteredHold
<1>3. SizesHaveBlocks
  <2>1. \A s \in Streams : iSize[s] = 0 /\ Len(aBlocks[s]) = 0
    BY DEF Init
  <2> QED BY <2>1, SizesAssumption DEF SizesHaveBlocks
<1> QED BY <1>1, <1>2, <1>3 DEF TypeInv

(* The block in memory, if there is one, is a block. *)
LEMMA BlockTyped ==
  ASSUME TypeOK, NEW h \in Handles, pCurBlock[h] # NONE
  PROVE  /\ pCurBlock[h] \in Block
         /\ pCurBlock[h].iBlockIndex \in Blocks
         /\ pCurBlock[h].pData \in Data
         /\ pCurBlock[h].bChanged \in BOOLEAN
<1>1. pCurBlock[h] \in Block
  BY DEF TypeOK
<1> QED BY <1>1 DEF Block

(* Writing a block back leaves a store. *)
LEMMA SyncBlockTyped ==
  ASSUME TypeOK, NEW h \in Handles
  PROVE  syncBlock(pCurBlock[h]) \in [Blocks -> Data]
<1>1. CASE pCurBlock[h] # NONE /\ pCurBlock[h].bChanged
  BY <1>1, BlockTyped DEF syncBlock, TypeOK
<1>2. CASE ~ (pCurBlock[h] # NONE /\ pCurBlock[h].bChanged)
  BY <1>2 DEF syncBlock, TypeOK
<1> QED BY <1>1, <1>2

(* The block a handle moves to is the one it wanted. *)
LEMMA CurrentTyped ==
  ASSUME TypeOK, NEW h \in Handles, NEW b \in Blocks
  PROVE  Current(h, b) \in Block /\ Current(h, b).iBlockIndex = b
<1>1. CASE pCurBlock[h] # NONE /\ pCurBlock[h].iBlockIndex = b
  BY <1>1, BlockTyped DEF Current
<1>2. CASE ~ (pCurBlock[h] # NONE /\ pCurBlock[h].iBlockIndex = b)
  <2>1. syncBlock(pCurBlock[h])[b] \in Data
    BY SyncBlockTyped
  <2>2. Current(h, b) = getBlock(syncBlock(pCurBlock[h]), b)
    BY <1>2 DEF Current
  <2> QED BY <2>1, <2>2 DEF getBlock, Block
<1> QED BY <1>1, <1>2

(* A handle that moves to a block and has it in memory is registered for   *)
(* it, and no longer for the one it had.                                   *)
LEMMA MoveTyped ==
  ASSUME TypeOK, RegisteredHold, NEW h \in Handles, NEW b \in Blocks,
         NEW q \in Block, q.iBlockIndex = b,
         MoveTo(h, b), pCurBlock' = [pCurBlock EXCEPT ![h] = q]
  PROVE  /\ store' \in [Blocks -> Data]
         /\ hActiveBlocks' \in [Blocks -> Handles \cup {NONE}]
         /\ pCurBlock' \in [Handles -> Block \cup {NONE}]
         /\ RegisteredHold'
<1>1. pCurBlock' \in [Handles -> Block \cup {NONE}] /\ pCurBlock'[h] = q
  BY DEF TypeOK
<1>2. q # NONE /\ h # NONE
  BY NoneAssumption
<1>3. CASE pCurBlock[h] # NONE /\ pCurBlock[h].iBlockIndex = b
  <2>1. UNCHANGED <<store, hActiveBlocks>>
    BY <1>3 DEF MoveTo
  <2>2. ASSUME NEW c \in Blocks, hActiveBlocks'[c] # NONE
        PROVE  /\ pCurBlock'[hActiveBlocks'[c]] # NONE
               /\ pCurBlock'[hActiveBlocks'[c]].iBlockIndex = c
    <3>1. /\ pCurBlock[hActiveBlocks[c]] # NONE
          /\ pCurBlock[hActiveBlocks[c]].iBlockIndex = c
          /\ hActiveBlocks[c] \in Handles
      BY <2>1, <2>2 DEF RegisteredHold, TypeOK
    <3>2. CASE hActiveBlocks[c] = h
      BY <3>1, <3>2, <2>1, <1>1, <1>2, <1>3
    <3>3. CASE hActiveBlocks[c] # h
      BY <3>1, <3>3, <2>1
    <3> QED BY <3>2, <3>3
  <2> QED BY <1>1, <2>1, <2>2 DEF RegisteredHold, TypeOK
<1>4. CASE ~ (pCurBlock[h] # NONE /\ pCurBlock[h].iBlockIndex = b)
  <2>1. /\ store' = syncBlock(pCurBlock[h])
        /\ hActiveBlocks' = [Unregistered(h) EXCEPT ![b] = h]
    BY <1>4 DEF MoveTo
  <2>2. Unregistered(h) \in [Blocks -> Handles \cup {NONE}]
    BY DEF Unregistered, TypeOK
  <2>3. ASSUME NEW c \in Blocks, hActiveBlocks'[c] # NONE
        PROVE  /\ pCurBlock'[hActiveBlocks'[c]] # NONE
               /\ pCurBlock'[hActiveBlocks'[c]].iBlockIndex = c
    <3>1. CASE c = b
      BY <3>1, <2>1, <2>2, <1>1, <1>2
    <3>2. CASE c # b
      <4>1. /\ hActiveBlocks'[c] = hActiveBlocks[c]
            /\ ~ (pCurBlock[h] # NONE /\ c = pCurBlock[h].iBlockIndex)
        BY <2>1, <2>2, <2>3, <3>2 DEF Unregistered
      <4>2. /\ pCurBlock[hActiveBlocks[c]] # NONE
            /\ pCurBlock[hActiveBlocks[c]].iBlockIndex = c
            /\ hActiveBlocks[c] \in Handles
        BY <4>1, <2>3 DEF RegisteredHold, TypeOK
      <4>3. hActiveBlocks[c] # h
        BY <4>1, <4>2
      <4> QED BY <4>1, <4>2, <4>3
    <3> QED BY <3>1, <3>2
  <2>4. hActiveBlocks' \in [Blocks -> Handles \cup {NONE}]
    BY <2>1, <2>2
  <2> QED BY <1>1, <2>1, <2>3, <2>4, SyncBlockTyped DEF RegisteredHold
<1> QED BY <1>3, <1>4

(* Opening and seeking touch no block. *)
LEMMA OpenTyped ==
  ASSUME TypeInv, NEW h \in Handles,
         \/ \E s \in Streams : openStream(h, s)
         \/ \E pos \in 0..MaxSize : setPos(h, pos)
  PROVE  TypeInv'
<1>1. UNCHANGED <<aBlocks, iSize, store, pCurBlock, hActiveBlocks, file>>
  BY DEF openStream, setPos
<1>2. on' \in [Handles -> Streams \cup {NONE}] /\ iPos' \in [Handles -> Nat]
  <2>1. \A s \in Streams : openStream(h, s) =>
          on' = [on EXCEPT ![h] = s] /\ iPos' = [iPos EXCEPT ![h] = 0]
    BY DEF openStream
  <2>2. \A pos \in 0..MaxSize : setPos(h, pos) =>
          on' = on /\ pos \in Nat /\ iPos' = [iPos EXCEPT ![h] = pos]
    BY SizesAssumption DEF setPos
  <2>3. on \in [Handles -> Streams \cup {NONE}] /\ iPos \in [Handles -> Nat]
    BY DEF TypeInv, TypeOK
  <2>4. ASSUME NEW s \in Streams, openStream(h, s)
        PROVE  on' \in [Handles -> Streams \cup {NONE}] /\ iPos' \in [Handles -> Nat]
    BY <2>1, <2>3, <2>4
  <2>5. ASSUME NEW pos \in 0..MaxSize, setPos(h, pos)
        PROVE  on' \in [Handles -> Streams \cup {NONE}] /\ iPos' \in [Handles -> Nat]
    BY <2>2, <2>3, <2>5
  <2> QED BY <2>4, <2>5
<1>3. TypeOK'
  BY <1>1, <1>2 DEF TypeInv, TypeOK
<1>4. RegisteredHold'
  BY <1>1 DEF TypeInv, RegisteredHold
<1>5. SizesHaveBlocks'
  BY <1>1 DEF TypeInv, SizesHaveBlocks
<1> QED BY <1>3, <1>4, <1>5 DEF TypeInv

(* A handle that is destroyed takes its block and the entry along. *)
LEMMA DestroyTyped ==
  ASSUME TypeInv, NEW h \in Handles, Destroy(h)
  PROVE  TypeInv'
<1> USE DEF TypeInv
<1>1. /\ store' = syncBlock(pCurBlock[h])
      /\ hActiveBlocks' = Unregistered(h)
      /\ pCurBlock' = [pCurBlock EXCEPT ![h] = NONE]
      /\ on' = [on EXCEPT ![h] = NONE] /\ iPos' = [iPos EXCEPT ![h] = 0]
      /\ UNCHANGED <<aBlocks, iSize, file>>
  BY DEF Destroy
<1>2. TypeOK'
  <2>1. Unregistered(h) \in [Blocks -> Handles \cup {NONE}]
    BY DEF Unregistered, TypeOK
  <2> QED BY <1>1, <2>1, SyncBlockTyped DEF TypeOK
<1>3. ASSUME NEW c \in Blocks, hActiveBlocks'[c] # NONE
      PROVE  /\ pCurBlock'[hActiveBlocks'[c]] # NONE
             /\ pCurBlock'[hActiveBlocks'[c]].iBlockIndex = c
  <2>1. /\ hActiveBlocks'[c] = hActiveBlocks[c]
        /\ ~ (pCurBlock[h] # NONE /\ c = pCurBlock[h].iBlockIndex)
    BY <1>1, <1>3 DEF Unregistered
  <2>2. /\ pCurBlock[hActiveBlocks[c]] # NONE
        /\ pCurBlock[hActiveBlocks[c]].iBlockIndex = c
        /\ hActiveBlocks[c] \in Handles
    BY <2>1, <1>3 DEF RegisteredHold, TypeOK
  <2>3. hActiveBlocks[c] # h
    BY <2>1, <2>2
  <2>4. pCurBlock'[hActiveBlocks[c]] = pCurBlock[hActiveBlocks[c]]
    BY <1>1, <2>2, <2>3 DEF TypeOK
  <2> QED BY <2>1, <2>2, <2>4
<1>4. RegisteredHold'
  BY <1>3 DEF RegisteredHold
<1>5. SizesHaveBlocks'
  BY <1>1 DEF SizesHaveBlocks
<1> QED BY <1>2, <1>4, <1>5

(* What a pass of read does: it moves the handle to the block of its       *)
(* position, which the stream has.                                         *)
LEMMA ReadEffect ==
  ASSUME TypeInv, NEW h \in Handles, NEW n \in 1..BlockSize, read(h, n)
  PROVE  \E i \in DOMAIN aBlocks[on[h]] :
           LET b == aBlocks[on[h]][i]
           IN  /\ on[h] \in Streams /\ b \in Blocks
               /\ pCurBlock' = [pCurBlock EXCEPT ![h] = Current(h, b)]
               /\ MoveTo(h, b)
               /\ iPos' = [iPos EXCEPT ![h] = iPos[h] + n]
               /\ iPos[h] + n <= iSize[on[h]]
               /\ UNCHANGED <<aBlocks, iSize, on, file>>
<1> DEFINE s == on[h]
           i == iPos[h] \div BlockSize + 1
           b == aBlocks[s][i]
<1>0. /\ s \in Streams /\ aBlocks[s] \in Seq(Blocks) /\ iSize[s] \in Nat
      /\ iPos[h] \in Nat /\ n \in Nat \ {0} /\ BlockSize \in Nat \ {0}
  BY SizesAssumption DEF read, TypeInv, TypeOK
<1>1. iPos[h] < Len(aBlocks[s]) * BlockSize
  <2>1. iSize[s] <= Len(aBlocks[s]) * BlockSize /\ iPos[h] + n <= iSize[s]
    BY <1>0 DEF read, TypeInv, SizesHaveBlocks
  <2>2. Len(aBlocks[s]) * BlockSize \in Nat
    BY <1>0
  <2> QED BY <1>0, <2>1, <2>2
<1>2. i - 1 < Len(aBlocks[s]) /\ i - 1 \in Nat
  <2>1. iPos[h] \div BlockSize \in Nat
    BY <1>0, DivMod
  <2>2. Len(aBlocks[s]) \in Nat
    BY <1>0
  <2>3. iPos[h] \div BlockSize < Len(aBlocks[s])
    BY <1>0, <1>1, <2>2, DivBelow
  <2> QED BY <2>1, <2>3
<1>3. i \in DOMAIN aBlocks[s] /\ b \in Blocks
  BY <1>0, <1>2
<1>4. /\ pCurBlock' = [pCurBlock EXCEPT ![h] = Current(h, b)]
      /\ MoveTo(h, b)
      /\ iPos' = [iPos EXCEPT ![h] = iPos[h] + n]
      /\ iPos[h] + n <= iSize[s]
      /\ UNCHANGED <<aBlocks, iSize, on, file>>
  BY DEF read
<1> HIDE DEF i
<1> QED BY <1>0, <1>3, <1>4

(* Reading keeps the types. *)
LEMMA ReadTyped ==
  ASSUME TypeInv, NEW h \in Handles, NEW n \in 1..BlockSize, read(h, n)
  PROVE  TypeInv'
<1> USE DEF TypeInv
<1>1. PICK i \in DOMAIN aBlocks[on[h]] :
        LET b == aBlocks[on[h]][i]
        IN  /\ on[h] \in Streams /\ b \in Blocks
            /\ pCurBlock' = [pCurBlock EXCEPT ![h] = Current(h, b)]
            /\ MoveTo(h, b)
            /\ iPos' = [iPos EXCEPT ![h] = iPos[h] + n]
            /\ iPos[h] + n <= iSize[on[h]]
            /\ UNCHANGED <<aBlocks, iSize, on, file>>
  BY ReadEffect
<1> DEFINE b == aBlocks[on[h]][i]
<1>2. Current(h, b) \in Block /\ Current(h, b).iBlockIndex = b
  BY <1>1, CurrentTyped
<1>3. /\ store' \in [Blocks -> Data]
      /\ hActiveBlocks' \in [Blocks -> Handles \cup {NONE}]
      /\ pCurBlock' \in [Handles -> Block \cup {NONE}]
      /\ RegisteredHold'
  BY <1>1, <1>2, MoveTyped
<1>4. iPos' \in [Handles -> Nat]
  BY <1>1, SizesAssumption DEF TypeOK
<1>5. TypeOK'
  BY <1>1, <1>3, <1>4 DEF TypeOK
<1>6. SizesHaveBlocks'
  BY <1>1 DEF SizesHaveBlocks
<1> QED BY <1>3, <1>5, <1>6

(* The block with the bytes of a write in it. *)
Written(h, b, n, v) ==
  [Current(h, b) EXCEPT !.bChanged = TRUE,
                        !.pData = Filled(@, iPos[h] % BlockSize, n, v)]

(* It is a block. *)
LEMMA WrittenTyped ==
  ASSUME TypeOK, NEW h \in Handles, NEW b \in Blocks, NEW n \in Nat,
         NEW v \in Bytes
  PROVE  /\ Written(h, b, n, v) \in Block
         /\ Written(h, b, n, v).iBlockIndex = b
         /\ Written(h, b, n, v).bChanged
         /\ Written(h, b, n, v).pData =
              Filled(Current(h, b).pData, iPos[h] % BlockSize, n, v)
<1>1. Current(h, b) \in Block /\ Current(h, b).iBlockIndex = b
  BY CurrentTyped
<1>2. Filled(Current(h, b).pData, iPos[h] % BlockSize, n, v) \in Data
  BY <1>1 DEF Block, Filled, Data
<1> DEFINE d == Filled(Current(h, b).pData, iPos[h] % BlockSize, n, v)
<1>3. Written(h, b, n, v) = [Current(h, b) EXCEPT !.bChanged = TRUE, !.pData = d]
  BY DEF Written
<1> HIDE DEF d
<1>4. [Current(h, b) EXCEPT !.bChanged = TRUE, !.pData = d] \in Block
  BY <1>1, <1>2 DEF Block, d
<1>5. /\ Written(h, b, n, v).iBlockIndex = b
      /\ Written(h, b, n, v).bChanged
      /\ Written(h, b, n, v).pData = d
  BY <1>1, <1>3 DEF Block
<1> QED BY <1>3, <1>4, <1>5 DEF d

(* What a pass of write does. *)
LEMMA WriteEffect ==
  ASSUME TypeInv, NEW h \in Handles, NEW n \in 1..BlockSize, NEW v \in Bytes,
         write(h, n, v)
  PROVE  \E b \in Blocks :
           /\ on[h] \in Streams
           /\ BlockForWrite(on[h], iPos[h], b)
           /\ MoveTo(h, b)
           /\ pCurBlock' = [pCurBlock EXCEPT ![h] = Written(h, b, n, v)]
<1>1. on[h] \in Streams
  BY DEF write, TypeInv, TypeOK
<1>2. PICK b \in Blocks :
        /\ BlockForWrite(on[h], iPos[h], b)
        /\ MoveTo(h, b)
        /\ pCurBlock' = [pCurBlock EXCEPT ![h] = Written(h, b, n, v)]
  BY DEF write, Written
<1> QED BY <1>1, <1>2

(* A file that was written to, and one of a new size. *)
LEMMA OverwrittenIs ==
  ASSUME NEW f \in Seq(Bytes \cup {ANY}), NEW pos \in Nat, NEW n \in Nat,
         NEW v \in Bytes
  PROVE  LET g == Overwritten(f, pos, n, v)
         IN  /\ g \in Seq(Bytes \cup {ANY})
             /\ Len(g) = IF Len(f) >= pos + n THEN Len(f) ELSE pos + n
             /\ \A k \in 1..Len(g) :
                  g[k] = IF k > pos /\ k <= pos + n THEN v
                         ELSE IF k <= Len(f) THEN f[k] ELSE ANY
<1> DEFINE m == Max({Len(f), pos + n})
           F(k) == IF k > pos /\ k <= pos + n THEN v
                   ELSE IF k <= Len(f) THEN f[k] ELSE ANY
           g == Overwritten(f, pos, n, v)
<1>1. m = IF Len(f) >= pos + n THEN Len(f) ELSE pos + n
  BY MaxPair
<1>2. m \in Nat
  BY <1>1
<1>3. g = [k \in 1..m |-> F(k)]
  BY DEF Overwritten
<1> HIDE DEF m, g
<1>4. \A k \in 1..m : F(k) \in Bytes \cup {ANY}
  BY <1>2
<1> HIDE DEF F
<1>5. g \in Seq(Bytes \cup {ANY}) /\ Len(g) = m /\ \A k \in 1..m : g[k] = F(k)
  BY <1>2, <1>3, <1>4
<1> QED BY <1>1, <1>5 DEF F, g

LEMMA ResizedIs ==
  ASSUME NEW f \in Seq(Bytes \cup {ANY}), NEW n \in Nat
  PROVE  /\ Resized(f, n) \in Seq(Bytes \cup {ANY})
         /\ Len(Resized(f, n)) = n
         /\ \A k \in 1..n :
              Resized(f, n)[k] = IF k <= Len(f) THEN f[k] ELSE ANY
<1> DEFINE F(k) == IF k <= Len(f) THEN f[k] ELSE ANY
<1>1. Resized(f, n) = [k \in 1..n |-> F(k)]
  BY DEF Resized
<1>2. \A k \in 1..n : F(k) \in Bytes \cup {ANY}
  OBVIOUS
<1> HIDE DEF F
<1>3. /\ Resized(f, n) \in Seq(Bytes \cup {ANY})
      /\ Len(Resized(f, n)) = n
      /\ \A k \in 1..n : Resized(f, n)[k] = F(k)
  BY <1>1, <1>2
<1> QED BY <1>3 DEF F

(* The stream has the block of the position, or it gets it as its last     *)
(* one.                                                                    *)
LEMMA BlockPlaced ==
  ASSUME TypeOK, NEW s \in Streams, NEW pos \in Nat, NEW b \in Blocks,
         BlockForWrite(s, pos, b)
  PROVE  /\ aBlocks' \in [Streams -> Seq(Blocks)]
         /\ \A t \in Streams \ {s} : aBlocks'[t] = aBlocks[t]
         /\ \/ /\ pos \div BlockSize < Len(aBlocks[s])
               /\ b = aBlocks[s][pos \div BlockSize + 1]
               /\ aBlocks' = aBlocks
            \/ /\ Len(aBlocks[s]) <= pos \div BlockSize
               /\ b \in FreeBlocks
               /\ aBlocks'[s] = Append(aBlocks[s], b)
               /\ Len(aBlocks'[s]) = Len(aBlocks[s]) + 1
<1>1. aBlocks \in [Streams -> Seq(Blocks)] /\ aBlocks[s] \in Seq(Blocks)
  BY DEF TypeOK
<1>2. CASE pos \div BlockSize < Len(aBlocks[s])
  BY <1>1, <1>2 DEF BlockForWrite
<1>3. CASE ~ (pos \div BlockSize < Len(aBlocks[s]))
  <2>1. /\ b \in FreeBlocks
        /\ aBlocks' = [aBlocks EXCEPT ![s] = Append(aBlocks[s], b)]
    BY <1>3 DEF BlockForWrite
  <2>2. /\ Append(aBlocks[s], b) \in Seq(Blocks)
        /\ Len(Append(aBlocks[s], b)) = Len(aBlocks[s]) + 1
    BY <1>1
  <2>3. pos \div BlockSize \in Nat
    BY DivMod, SizesAssumption
  <2>4. Len(aBlocks[s]) <= pos \div BlockSize
    BY <1>1, <1>3, <2>3
  <2> QED BY <1>1, <2>1, <2>2, <2>4
<1> QED BY <1>2, <1>3

(* A write leaves its stream with blocks for its bytes. *)
LEMMA WriteHasBlocks ==
  ASSUME TypeInv, NEW h \in Handles, NEW n \in 1..BlockSize, NEW v \in Bytes,
         write(h, n, v), NEW b \in Blocks, on[h] \in Streams,
         BlockForWrite(on[h], iPos[h], b)
  PROVE  iSize' \in [Streams -> Nat] /\ SizesHaveBlocks'
<1> USE DEF TypeInv
<1> DEFINE s == on[h]
           pos == iPos[h]
           z == IF pos < iSize[s] THEN iSize[s] ELSE iSize[s] + n
           L == Len(aBlocks[s])
<1>1. /\ s \in Streams /\ iSize \in [Streams -> Nat] /\ pos \in Nat
      /\ n \in Nat /\ BlockSize \in Nat \ {0} /\ n <= BlockSize /\ L \in Nat
  BY SizesAssumption DEF TypeOK
<1>2. iSize' = [iSize EXCEPT ![s] = z] /\ n <= BlockSize - (pos % BlockSize)
  BY DEF write
<1>3. z \in Nat
  BY <1>1
<1>4. iSize' \in [Streams -> Nat] /\ iSize'[s] = z
      /\ \A t \in Streams \ {s} : iSize'[t] = iSize[t]
  BY <1>1, <1>2, <1>3
<1>5. iSize[s] <= L * BlockSize
  BY DEF SizesHaveBlocks
<1>6. /\ aBlocks' \in [Streams -> Seq(Blocks)]
      /\ \A t \in Streams \ {s} : aBlocks'[t] = aBlocks[t]
      /\ \/ aBlocks' = aBlocks /\ pos \div BlockSize < L
         \/ L <= pos \div BlockSize /\ Len(aBlocks'[s]) = L + 1
  BY <1>1, BlockPlaced
<1>7. z <= Len(aBlocks'[s]) * BlockSize
  <2>1. CASE L <= pos \div BlockSize /\ Len(aBlocks'[s]) = L + 1
    <3>1. z <= iSize[s] + BlockSize
      BY <1>1
    <3>2. (L + 1) * BlockSize = L * BlockSize + BlockSize
      BY <1>1
    <3>3. L * BlockSize \in Nat /\ iSize[s] \in Nat /\ z \in Nat
      BY <1>1, <1>3
    <3> HIDE DEF z, L
    <3> QED BY <1>1, <1>5, <2>1, <3>1, <3>2, <3>3
  <2>2. CASE aBlocks' = aBlocks /\ pos \div BlockSize < L
    <3>1. CASE pos < iSize[s]
      BY <1>5, <2>2, <3>1
    <3>2. CASE ~ (pos < iSize[s])
      <4>2. pos + n <= L * BlockSize
        BY <1>1, <1>2, <2>2, BlockEnd
      <4>3. z <= pos + n /\ L * BlockSize \in Nat /\ z \in Nat /\ pos + n \in Nat
        BY <1>1, <3>2, <1>3
      <4> HIDE DEF z, L
      <4>4. z <= L * BlockSize
        BY <4>2, <4>3
      <4> QED BY <4>4, <2>2 DEF L
    <3> QED BY <3>1, <3>2
  <2> QED BY <1>6, <2>1, <2>2
<1> HIDE DEF z, L
<1>8. ASSUME NEW t \in Streams
      PROVE  iSize'[t] <= Len(aBlocks'[t]) * BlockSize
  <2>1. CASE t = s
    BY <2>1, <1>4, <1>7
  <2>2. CASE t # s
    BY <2>2, <1>4, <1>6 DEF SizesHaveBlocks
  <2> QED BY <2>1, <2>2
<1> QED BY <1>4, <1>8 DEF SizesHaveBlocks

(* Writing keeps the types. *)
LEMMA WriteTyped ==
  ASSUME TypeInv, NEW h \in Handles, NEW n \in 1..BlockSize, NEW v \in Bytes,
         write(h, n, v)
  PROVE  TypeInv'
<1> USE DEF TypeInv
<1>1. PICK b \in Blocks :
        /\ on[h] \in Streams
        /\ BlockForWrite(on[h], iPos[h], b)
        /\ MoveTo(h, b)
        /\ pCurBlock' = [pCurBlock EXCEPT ![h] = Written(h, b, n, v)]
  BY WriteEffect
<1>2. n \in Nat /\ iPos[h] \in Nat
  BY SizesAssumption DEF TypeOK
<1>3. /\ store' \in [Blocks -> Data]
      /\ hActiveBlocks' \in [Blocks -> Handles \cup {NONE}]
      /\ pCurBlock' \in [Handles -> Block \cup {NONE}]
      /\ RegisteredHold'
  <2>1. Written(h, b, n, v) \in Block /\ Written(h, b, n, v).iBlockIndex = b
    BY <1>2, WrittenTyped
  <2> QED BY <1>1, <2>1, MoveTyped
<1>4. iSize' \in [Streams -> Nat] /\ SizesHaveBlocks'
  BY <1>1, WriteHasBlocks
<1>5. aBlocks' \in [Streams -> Seq(Blocks)]
  BY <1>1, <1>2, BlockPlaced
<1>6. file' \in [Streams -> Seq(Bytes \cup {ANY})]
  <2>1. /\ file' = [file EXCEPT ![on[h]] = Overwritten(file[on[h]], iPos[h], n, v)]
        /\ file \in [Streams -> Seq(Bytes \cup {ANY})]
    BY DEF write, TypeOK
  <2>2. Overwritten(file[on[h]], iPos[h], n, v) \in Seq(Bytes \cup {ANY})
    BY <1>1, <1>2, <2>1, OverwrittenIs
  <2> QED BY <2>1, <2>2
<1>7. iPos' \in [Handles -> Nat] /\ on' \in [Handles -> Streams \cup {NONE}]
  BY <1>2 DEF write, TypeOK
<1>8. TypeOK'
  BY <1>3, <1>4, <1>5, <1>6, <1>7 DEF TypeOK
<1> QED BY <1>3, <1>4, <1>8

(* What setSize does to the blocks of its stream: it cuts off those behind *)
(* the new end, or adds some that no stream has.                           *)
CutsTo(h, n, m) ==
  LET a == aBlocks[on[h]]
  IN  /\ m <= Len(a) /\ n <= m * BlockSize /\ n < iSize[on[h]]
      /\ StaleCuts \/ ~ InMemory(h, Range(a) \ Range(SubSeq(a, 1, m)))
      /\ aBlocks' = [aBlocks EXCEPT ![on[h]] = SubSeq(a, 1, m)]

GrowsBy(h, n, k, new) ==
  LET a == aBlocks[on[h]]
  IN  /\ new \in [1..k -> FreeBlocks] /\ IsInjective(new)
      /\ n <= (Len(a) + k) * BlockSize /\ n > iSize[on[h]]
      /\ aBlocks' = [aBlocks EXCEPT ![on[h]] = a \o new]

LEMMA SetSizeEffect ==
  ASSUME TypeInv, NEW h \in Handles, NEW n \in 0..MaxSize, setSize(h, n)
  PROVE  /\ on[h] \in Streams /\ n \in Nat
         /\ \/ \E m \in Nat : CutsTo(h, n, m)
            \/ \E k \in Nat : \E new \in [1..k -> FreeBlocks] : GrowsBy(h, n, k, new)
         /\ iSize' = [iSize EXCEPT ![on[h]] = n]
         /\ \E z \in Nat : z <= n /\ iPos' = [iPos EXCEPT ![h] = z]
         /\ file' = [file EXCEPT ![on[h]] = Resized(file[on[h]], n)]
         /\ UNCHANGED <<store, on, pCurBlock, hActiveBlocks>>
<1> USE DEF TypeInv
<1> DEFINE s == on[h]
           a == aBlocks[s]
           have == Len(a)
           need == (n + BlockSize - 1) \div BlockSize
<1>1. /\ s \in Streams /\ n \in Nat /\ a \in Seq(Blocks) /\ have \in Nat
      /\ iSize[s] \in Nat /\ iPos[h] \in Nat /\ BlockSize \in Nat \ {0}
  BY SizesAssumption DEF setSize, TypeOK
<1>2. /\ iSize' = [iSize EXCEPT ![s] = n]
      /\ iPos' = [iPos EXCEPT ![h] = Clipped(iPos[h], n)]
      /\ file' = [file EXCEPT ![s] = Resized(file[s], n)]
      /\ UNCHANGED <<store, on, pCurBlock, hActiveBlocks>>
  BY DEF setSize
<1>3. Clipped(iPos[h], n) \in Nat /\ Clipped(iPos[h], n) <= n
  BY <1>1, MinPair DEF Clipped
<1>4. CASE /\ n < iSize[s]
           /\ LET kept == SubSeq(a, 1, Min({have, n \div BlockSize + 1}))
              IN  /\ StaleCuts \/ ~ InMemory(h, Range(a) \ Range(kept))
                  /\ aBlocks' = [aBlocks EXCEPT ![s] = kept]
  <2> DEFINE d == n \div BlockSize
             m == Min({have, d + 1})
  <2>1. d \in Nat /\ n % BlockSize \in 0..(BlockSize - 1)
        /\ n = BlockSize * d + (n % BlockSize)
    BY <1>1, DivMod
  <2>2. m = IF have <= d + 1 THEN have ELSE d + 1
    BY <1>1, <2>1, MinPair
  <2>3. n < (d + 1) * BlockSize
    <3> HIDE DEF d
    <3> QED BY <1>1, <2>1
  <2>4. n <= have * BlockSize
    <3>1. iSize[s] <= have * BlockSize
      BY <1>1 DEF SizesHaveBlocks
    <3>2. have * BlockSize \in Nat
      BY <1>1
    <3> QED BY <1>1, <1>4, <3>1, <3>2
  <2> HIDE DEF d, have, m
  <2>5. m \in Nat /\ m <= have /\ n <= m * BlockSize
    BY <1>1, <2>1, <2>2, <2>3, <2>4
  <2>6. /\ StaleCuts \/ ~ InMemory(h, Range(a) \ Range(SubSeq(a, 1, m)))
        /\ aBlocks' = [aBlocks EXCEPT ![s] = SubSeq(a, 1, m)]
    BY <1>4 DEF m, d, have
  <2>7. CutsTo(h, n, m)
    BY <1>4, <2>5, <2>6 DEF CutsTo, have
  <2> QED BY <1>1, <1>2, <1>3, <2>5, <2>7
<1>5. CASE /\ n > iSize[s]
           /\ \E new \in [1..Max({0, need - have}) -> FreeBlocks] :
                /\ IsInjective(new)
                /\ aBlocks' = [aBlocks EXCEPT ![s] = a \o new]
  <2> DEFINE k == Max({0, need - have})
  <2>1. need \in Nat /\ n <= need * BlockSize
    BY <1>1, RoundedUp
  <2> HIDE DEF need, have
  <2>2. k = IF 0 >= need - have THEN 0 ELSE need - have
    BY <1>1, <2>1, MaxPair
  <2> HIDE DEF k
  <2>3. k \in Nat /\ need <= have + k
    BY <1>1, <2>1, <2>2
  <2>4. n <= (have + k) * BlockSize
    <3>1. need * BlockSize <= (have + k) * BlockSize
      BY <1>1, <2>1, <2>3, MulMono
    <3>2. need * BlockSize \in Nat /\ (have + k) * BlockSize \in Nat
      BY <1>1, <2>1, <2>3
    <3> QED BY <1>1, <2>1, <3>1, <3>2
  <2>5. PICK new \in [1..k -> FreeBlocks] :
          /\ IsInjective(new)
          /\ aBlocks' = [aBlocks EXCEPT ![s] = a \o new]
    BY <1>5 DEF k
  <2>6. GrowsBy(h, n, k, new)
    BY <1>5, <2>4, <2>5 DEF GrowsBy, have
  <2> QED BY <1>1, <1>2, <1>3, <2>3, <2>6
<1> QED BY <1>4, <1>5 DEF setSize

(* A sequence with another one behind it. *)
LEMMA Concatenated ==
  ASSUME NEW X, NEW p \in Seq(X), NEW q \in Seq(X)
  PROVE  /\ p \o q \in Seq(X)
         /\ Len(p \o q) = Len(p) + Len(q)
         /\ \A i \in 1..(Len(p) + Len(q)) :
              (p \o q)[i] = IF i <= Len(p) THEN p[i] ELSE q[i - Len(p)]
  OBVIOUS

(* The block lists and sizes after setSize. *)
LEMMA SetSizeTyped ==
  ASSUME TypeInv, NEW h \in Handles, NEW n \in 0..MaxSize, setSize(h, n)
  PROVE  TypeInv'
<1> USE DEF TypeInv
<1> DEFINE s == on[h]
           a == aBlocks[s]
<1>1. /\ s \in Streams /\ n \in Nat
      /\ \/ \E m \in Nat : CutsTo(h, n, m)
         \/ \E k \in Nat : \E new \in [1..k -> FreeBlocks] : GrowsBy(h, n, k, new)
      /\ iSize' = [iSize EXCEPT ![s] = n]
      /\ \E z \in Nat : z <= n /\ iPos' = [iPos EXCEPT ![h] = z]
      /\ file' = [file EXCEPT ![s] = Resized(file[s], n)]
      /\ UNCHANGED <<store, on, pCurBlock, hActiveBlocks>>
  BY SetSizeEffect
<1>2. aBlocks \in [Streams -> Seq(Blocks)] /\ a \in Seq(Blocks)
  BY <1>1 DEF TypeOK
<1>3. \E c \in Seq(Blocks) : aBlocks' = [aBlocks EXCEPT ![s] = c] /\ n <= Len(c) * BlockSize
  <2>1. ASSUME NEW m \in Nat, CutsTo(h, n, m)
        PROVE  \E c \in Seq(Blocks) :
                 aBlocks' = [aBlocks EXCEPT ![s] = c] /\ n <= Len(c) * BlockSize
    <3>1. SubSeq(a, 1, m) \in Seq(Blocks) /\ Len(SubSeq(a, 1, m)) = m
      BY <1>2, <2>1 DEF CutsTo
    <3> QED BY <2>1, <3>1 DEF CutsTo
  <2>2. ASSUME NEW k \in Nat, NEW new \in [1..k -> FreeBlocks], GrowsBy(h, n, k, new)
        PROVE  \E c \in Seq(Blocks) :
                 aBlocks' = [aBlocks EXCEPT ![s] = c] /\ n <= Len(c) * BlockSize
    <3>1. new \in Seq(Blocks) /\ Len(new) = k
      BY DEF FreeBlocks
    <3>2. a \o new \in Seq(Blocks) /\ Len(a \o new) = Len(a) + k
      BY <1>2, <3>1, Concatenated
    <3> QED BY <2>2, <3>2 DEF GrowsBy
  <2> QED BY <1>1, <2>1, <2>2
<1>4. PICK c \in Seq(Blocks) :
        aBlocks' = [aBlocks EXCEPT ![s] = c] /\ n <= Len(c) * BlockSize
  BY <1>3
<1>5. /\ aBlocks' \in [Streams -> Seq(Blocks)] /\ aBlocks'[s] = c
      /\ \A t \in Streams \ {s} : aBlocks'[t] = aBlocks[t]
  BY <1>1, <1>2, <1>4
<1>6. /\ iSize' \in [Streams -> Nat] /\ iSize'[s] = n
      /\ \A t \in Streams \ {s} : iSize'[t] = iSize[t]
  BY <1>1 DEF TypeOK
<1>7. file' \in [Streams -> Seq(Bytes \cup {ANY})]
  <2>1. file \in [Streams -> Seq(Bytes \cup {ANY})]
    BY DEF TypeOK
  <2>2. Resized(file[s], n) \in Seq(Bytes \cup {ANY})
    BY <1>1, <2>1, ResizedIs
  <2> QED BY <1>1, <2>1, <2>2
<1>8. iPos' \in [Handles -> Nat]
  <2>1. PICK z \in Nat : iPos' = [iPos EXCEPT ![h] = z]
    BY <1>1
  <2> QED BY <2>1 DEF TypeOK
<1>9. SizesHaveBlocks'
  <2> SUFFICES ASSUME NEW t \in Streams
               PROVE  iSize'[t] <= Len(aBlocks'[t]) * BlockSize
    BY DEF SizesHaveBlocks
  <2>1. CASE t = s
    BY <2>1, <1>4, <1>5, <1>6
  <2>2. CASE t # s
    BY <2>2, <1>5, <1>6 DEF SizesHaveBlocks
  <2> QED BY <2>1, <2>2
<1>10. TypeOK'
  BY <1>1, <1>5, <1>6, <1>7, <1>8 DEF TypeOK
<1>11. RegisteredHold'
  BY <1>1 DEF RegisteredHold
<1> QED BY <1>9, <1>10, <1>11

(* A stream that is deleted and made again is empty. *)
LEMMA RecreateTyped ==
  ASSUME TypeInv, NEW s \in Streams, Recreate(s)
  PROVE  TypeInv'
<1> USE DEF TypeInv
<1>1. /\ aBlocks' = [aBlocks EXCEPT ![s] = << >>]
      /\ iSize' = [iSize EXCEPT ![s] = 0]
      /\ file' = [file EXCEPT ![s] = << >>]
      /\ UNCHANGED <<store, on, iPos, pCurBlock, hActiveBlocks>>
  BY DEF Recreate
<1>2. TypeOK'
  BY <1>1 DEF TypeOK
<1>3. RegisteredHold'
  BY <1>1 DEF RegisteredHold
<1>4. SizesHaveBlocks'
  <2> SUFFICES ASSUME NEW t \in Streams
               PROVE  iSize'[t] <= Len(aBlocks'[t]) * BlockSize
    BY DEF SizesHaveBlocks
  <2>1. CASE t = s
    <3>1. iSize'[t] = 0 /\ aBlocks'[t] = << >>
      BY <2>1, <1>1 DEF TypeOK
    <3> QED BY <3>1, SizesAssumption
  <2>2. CASE t # s
    <3>1. iSize'[t] = iSize[t] /\ aBlocks'[t] = aBlocks[t]
      BY <2>2, <1>1 DEF TypeOK
    <3> QED BY <3>1 DEF SizesHaveBlocks
  <2> QED BY <2>1, <2>2
<1> QED BY <1>2, <1>3, <1>4

(* sync writes blocks, and leaves those in memory as they are but for the  *)
(* mark of a change.                                                       *)
LEMMA SyncedTyped ==
  ASSUME TypeOK, RegisteredHold
  PROVE  Synced \in [Blocks -> Data]
<1>1. ASSUME NEW b \in Blocks, hActiveBlocks[b] # NONE
      PROVE  pCurBlock[hActiveBlocks[b]].pData \in Data
  <2>1. hActiveBlocks[b] \in Handles /\ pCurBlock[hActiveBlocks[b]] # NONE
    BY <1>1 DEF TypeOK, RegisteredHold
  <2> QED BY <2>1, BlockTyped
<1> QED BY <1>1 DEF Synced, TypeOK

(* The blocks in memory after a sync. *)
LEMMA SyncEffect ==
  ASSUME TypeInv, sync
  PROVE  /\ store' = Synced
         /\ pCurBlock' \in [Handles -> Block \cup {NONE}]
         /\ \A h \in Handles : pCurBlock[h] = NONE => pCurBlock'[h] = NONE
         /\ \A h \in Handles : pCurBlock[h] # NONE =>
              /\ pCurBlock'[h] # NONE
              /\ pCurBlock'[h].iBlockIndex = pCurBlock[h].iBlockIndex
              /\ pCurBlock'[h].pData = pCurBlock[h].pData
              /\ hActiveBlocks[pCurBlock[h].iBlockIndex] = h =>
                   ~ pCurBlock'[h].bChanged
         /\ UNCHANGED <<aBlocks, iSize, on, iPos, hActiveBlocks, file>>
<1> USE DEF TypeInv
<1>1. /\ store' = Synced
      /\ pCurBlock' = [h \in Handles |->
           IF Registered(h) THEN [pCurBlock[h] EXCEPT !.bChanged = FALSE]
                            ELSE pCurBlock[h]]
      /\ UNCHANGED <<aBlocks, iSize, on, iPos, hActiveBlocks, file>>
  BY DEF sync
<1>2. ASSUME NEW h \in Handles, pCurBlock[h] # NONE
      PROVE  /\ pCurBlock'[h] \in Block
             /\ pCurBlock'[h].iBlockIndex = pCurBlock[h].iBlockIndex
             /\ pCurBlock'[h].pData = pCurBlock[h].pData
             /\ hActiveBlocks[pCurBlock[h].iBlockIndex] = h =>
                  ~ pCurBlock'[h].bChanged
  <2>1. pCurBlock[h] \in Block
    BY <1>2, BlockTyped
  <2>2. CASE Registered(h)
    <3>1. pCurBlock'[h] = [pCurBlock[h] EXCEPT !.bChanged = FALSE]
      BY <1>1, <2>2
    <3> QED BY <2>1, <3>1 DEF Block
  <2>3. CASE ~ Registered(h)
    <3>1. pCurBlock'[h] = pCurBlock[h]
      BY <1>1, <2>3
    <3> QED BY <1>2, <2>1, <2>3, <3>1 DEF Registered
  <2> QED BY <2>2, <2>3
<1>3. ASSUME NEW h \in Handles, pCurBlock[h] = NONE
      PROVE  pCurBlock'[h] = NONE
  BY <1>1, <1>3 DEF Registered
<1>4. pCurBlock' \in [Handles -> Block \cup {NONE}]
  <2>1. \A h \in Handles : pCurBlock'[h] \in Block \cup {NONE}
    BY <1>2, <1>3
  <2> QED BY <1>1, <2>1
<1>5. NONE \notin Block
  BY NoneAssumption
<1> QED BY <1>1, <1>2, <1>3, <1>4, <1>5

LEMMA SyncTyped ==
  ASSUME TypeInv, sync
  PROVE  TypeInv'
<1> USE DEF TypeInv
<1>1. TypeOK'
  BY SyncEffect, SyncedTyped DEF TypeOK
<1>2. RegisteredHold'
  <2> SUFFICES ASSUME NEW b \in Blocks, hActiveBlocks'[b] # NONE
               PROVE  /\ pCurBlock'[hActiveBlocks'[b]] # NONE
                      /\ pCurBlock'[hActiveBlocks'[b]].iBlockIndex = b
    BY DEF RegisteredHold
  <2>1. hActiveBlocks' = hActiveBlocks
    BY SyncEffect
  <2>2. /\ hActiveBlocks[b] \in Handles
        /\ pCurBlock[hActiveBlocks[b]] # NONE
        /\ pCurBlock[hActiveBlocks[b]].iBlockIndex = b
    BY <2>1 DEF RegisteredHold, TypeOK
  <2> QED BY <2>1, <2>2, SyncEffect
<1>3. SizesHaveBlocks'
  BY SyncEffect DEF SizesHaveBlocks
<1> QED BY <1>1, <1>2, <1>3

(* Every step keeps the types and what they take. *)
LEMMA TypeInvStep ==
  ASSUME TypeInv, [Next]_vars
  PROVE  TypeInv'
<1>1. CASE Next
  <2>1. ASSUME NEW h \in Handles,
               \/ \E s \in Streams : openStream(h, s)
               \/ Destroy(h)
               \/ \E pos \in 0..MaxSize : setPos(h, pos)
               \/ \E n \in 1..BlockSize : read(h, n)
               \/ \E n \in 1..BlockSize, v \in Bytes : write(h, n, v)
               \/ \E n \in 0..MaxSize : setSize(h, n)
        PROVE  TypeInv'
    BY <2>1, OpenTyped, DestroyTyped, ReadTyped, WriteTyped, SetSizeTyped
  <2> QED BY <1>1, <2>1, RecreateTyped, SyncTyped DEF Next
<1>2. CASE UNCHANGED vars
  BY <1>2 DEF vars, TypeInv, TypeOK, RegisteredHold, SizesHaveBlocks
<1> QED BY <1>1, <1>2

(* The types hold, with blocks for all bytes of a stream, whatever callers *)
(* do: also when they write behind the end of a stream or cut off the      *)
(* block that a handle has in memory.                                      *)
LEMMA TypesInvariant == Spec => []TypeInv
<1>1. Init => TypeInv
  BY InitTypeInv
<1>2. TypeInv /\ [Next]_vars => TypeInv'
  BY TypeInvStep
<1> QED BY <1>1, <1>2, PTL DEF Spec

(* The variables stay in their types, and only blocks that exist are read, *)
(* written and registered, whatever callers do.                            *)
THEOREM TypeCorrect == Spec => []TypeOK
<1>1. TypeInv => TypeOK
  BY DEF TypeInv
<1> QED BY TypesInvariant, <1>1, PTL

-----------------------------------------------------------------------------
(* What a block holds: in the memory of its handle, or in the store. *)

(* A handle with a block in memory is registered for it. *)
HoldersRegistered ==
  \A h \in Handles : pCurBlock[h] # NONE =>
    hActiveBlocks[pCurBlock[h].iBlockIndex] = h

(* A block in memory that is not marked as changed is as in the store. *)
CleanAreStored ==
  \A h \in Handles : pCurBlock[h] # NONE /\ ~ pCurBlock[h].bChanged =>
    pCurBlock[h].pData = store[pCurBlock[h].iBlockIndex]

(* The same of any table, blocks in memory and store, and what a sync      *)
(* would leave in the store.                                               *)
Sound(act, cur, st) ==
  /\ \A b \in Blocks : act[b] # NONE =>
       act[b] \in Handles /\ cur[act[b]] # NONE /\ cur[act[b]].iBlockIndex = b
  /\ \A h \in Handles : cur[h] # NONE =>
       cur[h].iBlockIndex \in Blocks /\ act[cur[h].iBlockIndex] = h
  /\ \A h \in Handles : cur[h] # NONE /\ ~ cur[h].bChanged =>
       cur[h].pData = st[cur[h].iBlockIndex]

SyncedOf(act, cur, st) ==
  [b \in Blocks |-> IF act[b] # NONE /\ cur[act[b]].bChanged THEN cur[act[b]].pData
                                                             ELSE st[b]]

(* They are what the invariants say of the variables. *)
LEMMA SoundNow ==
  ASSUME TypeInv, HoldersRegistered, CleanAreStored
  PROVE  Sound(hActiveBlocks, pCurBlock, store)
<1>1. \A b \in Blocks : hActiveBlocks[b] # NONE => hActiveBlocks[b] \in Handles
  BY DEF TypeInv, TypeOK
<1>2. \A h \in Handles : pCurBlock[h] # NONE => pCurBlock[h].iBlockIndex \in Blocks
  BY BlockTyped DEF TypeInv
<1> QED BY <1>1, <1>2 DEF Sound, TypeInv, RegisteredHold, HoldersRegistered, CleanAreStored

(* A sync leaves the bytes of a block that a handle has in memory, and     *)
(* those of the store else.                                                *)
LEMMA SyncedIs ==
  ASSUME NEW act, NEW cur, NEW st, Sound(act, cur, st)
  PROVE  /\ \A h \in Handles : cur[h] # NONE =>
              SyncedOf(act, cur, st)[cur[h].iBlockIndex] = cur[h].pData
         /\ \A b \in Blocks :
              (\A h \in Handles : cur[h] # NONE => cur[h].iBlockIndex # b)
                => SyncedOf(act, cur, st)[b] = st[b]
<1>0. NONE \notin Handles
  BY NoneAssumption
<1>1. ASSUME NEW h \in Handles, cur[h] # NONE
      PROVE  SyncedOf(act, cur, st)[cur[h].iBlockIndex] = cur[h].pData
  <2> DEFINE b == cur[h].iBlockIndex
  <2>1. b \in Blocks /\ act[b] = h
    BY <1>1 DEF Sound
  <2>2. cur[h].bChanged \/ cur[h].pData = st[b]
    BY <1>1 DEF Sound
  <2> QED BY <1>0, <2>1, <2>2 DEF SyncedOf
<1>2. ASSUME NEW b \in Blocks,
             \A h \in Handles : cur[h] # NONE => cur[h].iBlockIndex # b
      PROVE  SyncedOf(act, cur, st)[b] = st[b]
  <2>1. act[b] = NONE
    BY <1>2 DEF Sound
  <2> QED BY <2>1 DEF SyncedOf
<1> QED BY <1>1, <1>2

(* Two states in which the same blocks hold the same, one that a handle    *)
(* moves to or leaves apart.                                               *)
LEMMA SyncedUnprimed == Synced = SyncedOf(hActiveBlocks, pCurBlock, store)
  BY DEF Synced, SyncedOf

LEMMA SyncedPrimed == Synced' = SyncedOf(hActiveBlocks', pCurBlock', store')
  BY DEF Synced, SyncedOf

(* The store after the block of a handle is written back. *)
LEMMA SyncBlockIs ==
  ASSUME TypeInv, HoldersRegistered, CleanAreStored, NEW h \in Handles
  PROVE  \A c \in Blocks :
           syncBlock(pCurBlock[h])[c] =
             IF pCurBlock[h] # NONE /\ pCurBlock[h].iBlockIndex = c
             THEN pCurBlock[h].pData ELSE store[c]
<1>1. store \in [Blocks -> Data]
  BY DEF TypeInv, TypeOK
<1>2. CASE pCurBlock[h] # NONE /\ pCurBlock[h].bChanged
  BY <1>1, <1>2 DEF syncBlock
<1>3. CASE ~ (pCurBlock[h] # NONE /\ pCurBlock[h].bChanged)
  BY <1>3 DEF syncBlock, CleanAreStored
<1> QED BY <1>2, <1>3

(* Moving a handle to a block nobody else has, and changing the bytes of   *)
(* that block in memory, changes what that block holds and no other.       *)
LEMMA MoveKeeps ==
  ASSUME TypeInv, HoldersRegistered, CleanAreStored,
         NEW h \in Handles, NEW b \in Blocks,
         \A g \in Handles \ {h} : pCurBlock[g] # NONE => pCurBlock[g].iBlockIndex # b,
         NEW q \in Block, q.iBlockIndex = b, q.bChanged \/ q = Current(h, b),
         MoveTo(h, b), pCurBlock' = [pCurBlock EXCEPT ![h] = q]
  PROVE  /\ HoldersRegistered' /\ CleanAreStored'
         /\ Synced[b] = Current(h, b).pData
         /\ Synced'[b] = q.pData
         /\ \A c \in Blocks \ {b} : Synced'[c] = Synced[c]
<1> DEFINE had == pCurBlock[h] # NONE /\ pCurBlock[h].iBlockIndex = b
<1>0. h # NONE /\ q # NONE
  BY NoneAssumption
<1>1. /\ pCurBlock'[h] = q
      /\ \A g \in Handles \ {h} : pCurBlock'[g] = pCurBlock[g]
  BY DEF TypeInv, TypeOK
<1>2. Sound(hActiveBlocks, pCurBlock, store)
  BY SoundNow
<1>3. /\ \A c \in Blocks : hActiveBlocks'[c] # NONE =>
           /\ pCurBlock'[hActiveBlocks'[c]] # NONE
           /\ pCurBlock'[hActiveBlocks'[c]].iBlockIndex = c
           /\ hActiveBlocks'[c] \in Handles
      /\ hActiveBlocks \in [Blocks -> Handles \cup {NONE}]
      /\ store \in [Blocks -> Data]
  <2>1. hActiveBlocks' \in [Blocks -> Handles \cup {NONE}] /\ RegisteredHold'
    BY MoveTyped DEF TypeInv
  <2> QED BY <2>1 DEF RegisteredHold, TypeInv, TypeOK
<1>4. /\ had => hActiveBlocks' = hActiveBlocks /\ store' = store
      /\ ~ had => /\ \A c \in Blocks : store'[c] = syncBlock(pCurBlock[h])[c]
                  /\ hActiveBlocks'[b] = h
                  /\ \A c \in Blocks \ {b} : hActiveBlocks'[c] =
                       IF pCurBlock[h] # NONE /\ c = pCurBlock[h].iBlockIndex
                       THEN NONE ELSE hActiveBlocks[c]
  BY <1>3 DEF MoveTo, Unregistered
<1>5. Current(h, b).pData = IF had THEN pCurBlock[h].pData ELSE store[b]
  <2>1. CASE had
    BY <2>1 DEF Current
  <2>2. CASE ~ had
    <3>1. Current(h, b).pData = syncBlock(pCurBlock[h])[b]
      BY <2>2 DEF Current, getBlock
    <3> QED BY <2>2, <3>1, SyncBlockIs
  <2> QED BY <2>1, <2>2
<1>6. \A c \in Blocks \ {b} :
        store'[c] = IF ~ had /\ pCurBlock[h] # NONE /\ pCurBlock[h].iBlockIndex = c
                    THEN pCurBlock[h].pData ELSE store[c]
  BY <1>4, SyncBlockIs
<1>7. had \/ store'[b] = store[b]
  BY <1>4, SyncBlockIs
<1>8. \A g \in Handles \ {h} : pCurBlock[g] # NONE =>
        /\ pCurBlock[g].iBlockIndex \in Blocks \ {b}
        /\ hActiveBlocks[pCurBlock[g].iBlockIndex] = g
        /\ ~ (pCurBlock[h] # NONE /\ pCurBlock[h].iBlockIndex = pCurBlock[g].iBlockIndex)
  BY <1>2 DEF Sound
<1>9. Sound(hActiveBlocks', pCurBlock', store')
  <2>1. ASSUME NEW g \in Handles, pCurBlock'[g] # NONE
        PROVE  /\ pCurBlock'[g].iBlockIndex \in Blocks
               /\ hActiveBlocks'[pCurBlock'[g].iBlockIndex] = g
    <3>1. CASE g = h
      <4>1. had => hActiveBlocks'[b] = h
        BY <1>2, <1>4 DEF Sound
      <4> QED BY <3>1, <4>1, <1>1, <1>4
    <3>2. CASE g # h
      BY <2>1, <3>2, <1>1, <1>4, <1>8
    <3> QED BY <3>1, <3>2
  <2>2. ASSUME NEW g \in Handles, pCurBlock'[g] # NONE, ~ pCurBlock'[g].bChanged
        PROVE  pCurBlock'[g].pData = store'[pCurBlock'[g].iBlockIndex]
    <3>1. CASE g = h
      <4>1. q = Current(h, b) /\ ~ q.bChanged
        BY <2>2, <3>1, <1>1
      <4>2. CASE had
        <5>1. q = pCurBlock[h]
          BY <4>1, <4>2 DEF Current
        <5>2. pCurBlock[h].pData = store[pCurBlock[h].iBlockIndex]
          BY <5>1, <4>1, <4>2, <1>2 DEF Sound
        <5>3. store' = store /\ pCurBlock'[g] = pCurBlock[h]
          BY <5>1, <3>1, <4>2, <1>1, <1>4
        <5> QED BY <5>2, <5>3
      <4>3. CASE ~ had
        BY <3>1, <4>1, <4>3, <1>1, <1>5, <1>7
      <4> QED BY <4>2, <4>3
    <3>2. CASE g # h
      <4>1. /\ pCurBlock[g] # NONE /\ ~ pCurBlock[g].bChanged
            /\ pCurBlock'[g] = pCurBlock[g] /\ g \in Handles \ {h}
        BY <2>2, <3>2, <1>1
      <4>2. pCurBlock[g].pData = store[pCurBlock[g].iBlockIndex]
        BY <4>1, <1>2 DEF Sound
      <4>3. store'[pCurBlock[g].iBlockIndex] = store[pCurBlock[g].iBlockIndex]
        BY <4>1, <1>6, <1>8
      <4> QED BY <4>1, <4>2, <4>3
    <3> QED BY <3>1, <3>2
  <2> QED BY <1>3, <2>1, <2>2 DEF Sound
<1>9a. /\ \A g \in Handles : pCurBlock'[g] # NONE =>
            Synced'[pCurBlock'[g].iBlockIndex] = pCurBlock'[g].pData
       /\ \A c \in Blocks :
            (\A g \in Handles : pCurBlock'[g] # NONE => pCurBlock'[g].iBlockIndex # c)
              => Synced'[c] = store'[c]
  <2> DEFINE act == hActiveBlocks'
             cur == pCurBlock'
             st == store'
  <2>1. Sound(act, cur, st)
    BY <1>9
  <2>2. Synced' = SyncedOf(act, cur, st)
    BY SyncedPrimed
  <2> HIDE DEF act, cur, st
  <2>3. /\ \A g \in Handles : cur[g] # NONE =>
             SyncedOf(act, cur, st)[cur[g].iBlockIndex] = cur[g].pData
        /\ \A c \in Blocks :
             (\A g \in Handles : cur[g] # NONE => cur[g].iBlockIndex # c)
               => SyncedOf(act, cur, st)[c] = st[c]
    BY <2>1, SyncedIs
  <2> QED BY <2>2, <2>3 DEF act, cur, st
<1>10. HoldersRegistered' /\ CleanAreStored'
  BY <1>9 DEF Sound, HoldersRegistered, CleanAreStored
<1>11. Synced[b] = Current(h, b).pData
  <2>1. CASE had
    BY <2>1, <1>2, <1>5, SyncedIs, SyncedUnprimed
  <2>2. CASE ~ had
    <3>1. \A g \in Handles : pCurBlock[g] # NONE => pCurBlock[g].iBlockIndex # b
      BY <2>2
    <3> QED BY <2>2, <3>1, <1>2, <1>5, SyncedIs, SyncedUnprimed
  <2> QED BY <2>1, <2>2
<1>12. Synced'[b] = q.pData
  BY <1>0, <1>1, <1>9a
<1>13. ASSUME NEW c \in Blocks \ {b} PROVE Synced'[c] = Synced[c]
  <2>1. CASE \E g \in Handles \ {h} : pCurBlock[g] # NONE /\ pCurBlock[g].iBlockIndex = c
    <3>1. PICK g \in Handles \ {h} : pCurBlock[g] # NONE /\ pCurBlock[g].iBlockIndex = c
      BY <2>1
    <3>2. Synced[c] = pCurBlock[g].pData
      BY <3>1, <1>2, SyncedIs, SyncedUnprimed
    <3>3. Synced'[c] = pCurBlock'[g].pData
      BY <3>1, <1>1, <1>9a
    <3> QED BY <3>2, <3>3, <1>1
  <2>2. CASE ~ \E g \in Handles \ {h} : pCurBlock[g] # NONE /\ pCurBlock[g].iBlockIndex = c
    <3>1. \A g \in Handles : pCurBlock'[g] # NONE => pCurBlock'[g].iBlockIndex # c
      BY <2>2, <1>1
    <3>2. Synced'[c] = store'[c]
      BY <3>1, <1>9a
    <3>3. CASE pCurBlock[h] # NONE /\ pCurBlock[h].iBlockIndex = c
      <4>1. Synced[c] = pCurBlock[h].pData
        BY <3>3, <1>2, SyncedIs, SyncedUnprimed
      <4> QED BY <3>2, <3>3, <4>1, <1>6
    <3>4. CASE ~ (pCurBlock[h] # NONE /\ pCurBlock[h].iBlockIndex = c)
      <4>1. \A g \in Handles : pCurBlock[g] # NONE => pCurBlock[g].iBlockIndex # c
        BY <2>2, <3>4
      <4>2. Synced[c] = store[c]
        BY <4>1, <1>2, SyncedIs, SyncedUnprimed
      <4> QED BY <3>2, <3>4, <4>2, <1>6
    <3> QED BY <3>3, <3>4
  <2> QED BY <2>1, <2>2
<1> QED BY <1>10, <1>11, <1>12, <1>13

(* A handle that gives up its block leaves what every block holds.         *)
LEMMA DropKeeps ==
  ASSUME TypeInv, HoldersRegistered, CleanAreStored, NEW h \in Handles, Destroy(h)
  PROVE  /\ HoldersRegistered' /\ CleanAreStored'
         /\ \A c \in Blocks : Synced'[c] = Synced[c]
<1>1. /\ pCurBlock' = [pCurBlock EXCEPT ![h] = NONE]
      /\ store' = syncBlock(pCurBlock[h])
      /\ hActiveBlocks' = Unregistered(h)
  BY DEF Destroy
<1>2. /\ pCurBlock'[h] = NONE
      /\ \A g \in Handles \ {h} : pCurBlock'[g] = pCurBlock[g]
  BY <1>1 DEF TypeInv, TypeOK
<1>3. Sound(hActiveBlocks, pCurBlock, store)
  BY SoundNow
<1>4. \A c \in Blocks :
        /\ store'[c] = IF pCurBlock[h] # NONE /\ pCurBlock[h].iBlockIndex = c
                       THEN pCurBlock[h].pData ELSE store[c]
        /\ hActiveBlocks'[c] = IF pCurBlock[h] # NONE /\ c = pCurBlock[h].iBlockIndex
                               THEN NONE ELSE hActiveBlocks[c]
  BY <1>1, SyncBlockIs DEF Unregistered
<1>5. \A g \in Handles \ {h} : pCurBlock[g] # NONE =>
        /\ pCurBlock[g].iBlockIndex \in Blocks
        /\ hActiveBlocks[pCurBlock[g].iBlockIndex] = g
        /\ ~ (pCurBlock[h] # NONE /\ pCurBlock[h].iBlockIndex = pCurBlock[g].iBlockIndex)
  BY <1>3 DEF Sound
<1>6. HoldersRegistered'
  <2> SUFFICES ASSUME NEW g \in Handles, pCurBlock'[g] # NONE
               PROVE  hActiveBlocks'[pCurBlock'[g].iBlockIndex] = g
    BY DEF HoldersRegistered
  <2>1. g \in Handles \ {h} /\ pCurBlock'[g] = pCurBlock[g] /\ pCurBlock[g] # NONE
    BY <1>2
  <2>2. hActiveBlocks'[pCurBlock[g].iBlockIndex] = hActiveBlocks[pCurBlock[g].iBlockIndex]
    BY <2>1, <1>4, <1>5
  <2> QED BY <2>1, <2>2, <1>5
<1>7. CleanAreStored'
  <2> SUFFICES ASSUME NEW g \in Handles, pCurBlock'[g] # NONE, ~ pCurBlock'[g].bChanged
               PROVE  pCurBlock'[g].pData = store'[pCurBlock'[g].iBlockIndex]
    BY DEF CleanAreStored
  <2>1. /\ g \in Handles \ {h} /\ pCurBlock'[g] = pCurBlock[g] /\ pCurBlock[g] # NONE
        /\ ~ pCurBlock[g].bChanged
    BY <1>2
  <2>2. store'[pCurBlock[g].iBlockIndex] = store[pCurBlock[g].iBlockIndex]
    BY <2>1, <1>4, <1>5
  <2>3. pCurBlock[g].pData = store[pCurBlock[g].iBlockIndex]
    BY <2>1 DEF CleanAreStored
  <2> QED BY <2>1, <2>2, <2>3
<1>8. ASSUME NEW c \in Blocks PROVE Synced'[c] = Synced[c]
  <2>1. /\ Synced'[c] = IF hActiveBlocks'[c] # NONE /\ pCurBlock'[hActiveBlocks'[c]].bChanged
                        THEN pCurBlock'[hActiveBlocks'[c]].pData ELSE store'[c]
        /\ Synced[c] = IF hActiveBlocks[c] # NONE /\ pCurBlock[hActiveBlocks[c]].bChanged
                       THEN pCurBlock[hActiveBlocks[c]].pData ELSE store[c]
    BY DEF Synced
  <2>2. CASE pCurBlock[h] # NONE /\ pCurBlock[h].iBlockIndex = c
    <3>1. Synced'[c] = pCurBlock[h].pData
      BY <2>1, <2>2, <1>4
    <3>2. Synced[c] = pCurBlock[h].pData
      BY <2>2, <1>3, SyncedIs, SyncedUnprimed
    <3> QED BY <3>1, <3>2
  <2>3. CASE ~ (pCurBlock[h] # NONE /\ pCurBlock[h].iBlockIndex = c)
    <3>1. store'[c] = store[c] /\ hActiveBlocks'[c] = hActiveBlocks[c]
      BY <2>3, <1>4
    <3>2. hActiveBlocks[c] # NONE => hActiveBlocks[c] \in Handles \ {h}
      BY <2>3, <1>3 DEF Sound
    <3>3. hActiveBlocks[c] # NONE => pCurBlock'[hActiveBlocks[c]] = pCurBlock[hActiveBlocks[c]]
      BY <3>2, <1>2
    <3> QED BY <2>1, <3>1, <3>3
  <2> QED BY <2>2, <2>3
<1> QED BY <1>6, <1>7, <1>8

(* A sync leaves what every block holds, in the store for good.            *)
LEMMA SyncKeeps ==
  ASSUME TypeInv, HoldersRegistered, CleanAreStored, sync
  PROVE  /\ HoldersRegistered' /\ CleanAreStored'
         /\ \A c \in Blocks : Synced'[c] = Synced[c]
<1>1. Sound(hActiveBlocks, pCurBlock, store)
  BY SoundNow
<1>2. store' = Synced /\ hActiveBlocks' = hActiveBlocks
  BY SyncEffect
<1>3. \A h \in Handles : pCurBlock'[h] # NONE =>
        /\ pCurBlock[h] # NONE
        /\ pCurBlock[h].iBlockIndex \in Blocks
        /\ hActiveBlocks[pCurBlock[h].iBlockIndex] = h
        /\ pCurBlock'[h].iBlockIndex = pCurBlock[h].iBlockIndex
        /\ pCurBlock'[h].pData = pCurBlock[h].pData
        /\ ~ pCurBlock'[h].bChanged
        /\ Synced[pCurBlock[h].iBlockIndex] = pCurBlock[h].pData
  <2> SUFFICES ASSUME NEW h \in Handles, pCurBlock'[h] # NONE
               PROVE  /\ pCurBlock[h] # NONE
                      /\ pCurBlock[h].iBlockIndex \in Blocks
                      /\ hActiveBlocks[pCurBlock[h].iBlockIndex] = h
                      /\ pCurBlock'[h].iBlockIndex = pCurBlock[h].iBlockIndex
                      /\ pCurBlock'[h].pData = pCurBlock[h].pData
                      /\ ~ pCurBlock'[h].bChanged
                      /\ Synced[pCurBlock[h].iBlockIndex] = pCurBlock[h].pData
    OBVIOUS
  <2>1. pCurBlock[h] # NONE
    BY SyncEffect
  <2>2. /\ pCurBlock[h].iBlockIndex \in Blocks
        /\ hActiveBlocks[pCurBlock[h].iBlockIndex] = h
    BY <2>1, <1>1 DEF Sound
  <2>3. Synced[pCurBlock[h].iBlockIndex] = pCurBlock[h].pData
    BY <2>1, <1>1, SyncedIs, SyncedUnprimed
  <2> QED BY <2>1, <2>2, <2>3, SyncEffect
<1>4. HoldersRegistered' /\ CleanAreStored'
  BY <1>2, <1>3 DEF HoldersRegistered, CleanAreStored
<1>5. ASSUME NEW c \in Blocks PROVE Synced'[c] = Synced[c]
  <2>1. Synced'[c] = IF hActiveBlocks'[c] # NONE /\ pCurBlock'[hActiveBlocks'[c]].bChanged
                     THEN pCurBlock'[hActiveBlocks'[c]].pData ELSE store'[c]
    BY DEF Synced
  <2>2. hActiveBlocks[c] # NONE =>
          hActiveBlocks[c] \in Handles /\ pCurBlock[hActiveBlocks[c]] # NONE
    BY <1>1 DEF Sound
  <2>3. hActiveBlocks[c] # NONE => ~ pCurBlock'[hActiveBlocks[c]].bChanged
    BY <2>2, <1>3, SyncEffect
  <2> QED BY <2>1, <2>3, <1>2
<1> QED BY <1>4, <1>5

-----------------------------------------------------------------------------
(* Which blocks belong to whom. *)

(* No block is in two streams, or twice in one. *)
BlocksApart ==
  \A s, t \in Streams :
    \A i \in 1..Len(aBlocks[s]), j \in 1..Len(aBlocks[t]) :
      aBlocks[s][i] = aBlocks[t][j] => s = t /\ i = j

(* No stream has two handles. *)
HandlesApart ==
  \A g, h \in Handles : on[g] # NONE /\ on[g] = on[h] => g = h

(* The block a handle has in memory is one of its stream. *)
HeldAreOwn ==
  \A h \in Handles : pCurBlock[h] # NONE =>
    /\ on[h] # NONE
    /\ \E i \in 1..Len(aBlocks[on[h]]) :
         aBlocks[on[h]][i] = pCurBlock[h].iBlockIndex

BlockInv ==
  /\ BlocksApart /\ HandlesApart /\ HeldAreOwn
  /\ HoldersRegistered /\ CleanAreStored

(* So it is in the beginning. *)
LEMMA InitBlockInv == Init => BlockInv
  BY DEF Init, BlockInv, BlocksApart, HandlesApart, HeldAreOwn, HoldersRegistered,
         CleanAreStored

(* A free block is in no stream. *)
LEMMA FreeInNone ==
  ASSUME NEW b \in FreeBlocks
  PROVE  b \in Blocks /\ \A s \in Streams : \A i \in DOMAIN aBlocks[s] : aBlocks[s][i] # b
  BY DEF FreeBlocks, Range

(* Nobody else has a block of a stream, or a free one, in memory. *)
LEMMA SoleHolder ==
  ASSUME TypeInv, BlockInv, NEW h \in Handles, on[h] \in Streams, NEW b \in Blocks,
         \/ \E i \in DOMAIN aBlocks[on[h]] : aBlocks[on[h]][i] = b
         \/ b \in FreeBlocks
  PROVE  \A g \in Handles \ {h} : pCurBlock[g] # NONE => pCurBlock[g].iBlockIndex # b
<1> SUFFICES ASSUME NEW g \in Handles \ {h}, pCurBlock[g] # NONE,
                    pCurBlock[g].iBlockIndex = b
             PROVE  FALSE
  OBVIOUS
<1>1. PICK j \in 1..Len(aBlocks[on[g]]) : aBlocks[on[g]][j] = b
  BY DEF BlockInv, HeldAreOwn
<1>2. on[g] \in Streams /\ on[g] # on[h]
  BY DEF BlockInv, HeldAreOwn, HandlesApart, TypeInv, TypeOK
<1>3. /\ aBlocks[on[g]] \in Seq(Blocks) /\ aBlocks[on[h]] \in Seq(Blocks)
      /\ j \in DOMAIN aBlocks[on[g]]
  BY <1>2 DEF TypeInv, TypeOK
<1>4. CASE b \in FreeBlocks
  BY <1>1, <1>2, <1>3, <1>4, FreeInNone
<1>5. CASE \E i \in DOMAIN aBlocks[on[h]] : aBlocks[on[h]][i] = b
  <2>1. PICK i \in DOMAIN aBlocks[on[h]] : aBlocks[on[h]][i] = b
    BY <1>5
  <2>2. i \in 1..Len(aBlocks[on[h]])
    BY <1>3
  <2> QED BY <1>1, <1>2, <2>1, <2>2 DEF BlockInv, BlocksApart
<1> QED BY <1>4, <1>5

(* Lists that are cut, or get free blocks behind their end, stay apart. *)
LEMMA GrownApart ==
  ASSUME TypeOK, TypeOK', BlocksApart, NEW s \in Streams,
         \A t \in Streams : \A i \in 1..Len(aBlocks'[t]) :
           \/ i \in 1..Len(aBlocks[t]) /\ aBlocks'[t][i] = aBlocks[t][i]
           \/ t = s /\ i > Len(aBlocks[s]) /\ aBlocks'[t][i] \in FreeBlocks,
         \A i, j \in 1..Len(aBlocks'[s]) :
           i > Len(aBlocks[s]) /\ j > Len(aBlocks[s]) /\ aBlocks'[s][i] = aBlocks'[s][j]
             => i = j
  PROVE  BlocksApart'
<1> SUFFICES ASSUME NEW t \in Streams, NEW u \in Streams,
                    NEW i \in 1..Len(aBlocks'[t]), NEW j \in 1..Len(aBlocks'[u]),
                    aBlocks'[t][i] = aBlocks'[u][j]
             PROVE  t = u /\ i = j
  BY DEF BlocksApart
<1>1. \A x \in Streams : DOMAIN aBlocks[x] = 1..Len(aBlocks[x])
  BY DEF TypeOK
<1>2. CASE /\ i \in 1..Len(aBlocks[t]) /\ aBlocks'[t][i] = aBlocks[t][i]
           /\ j \in 1..Len(aBlocks[u]) /\ aBlocks'[u][j] = aBlocks[u][j]
  <2>1. aBlocks[t][i] = aBlocks[u][j]
    BY <1>2
  <2> QED BY <1>2, <2>1 DEF BlocksApart
<1>3. CASE /\ i \in 1..Len(aBlocks[t]) /\ aBlocks'[t][i] = aBlocks[t][i]
           /\ u = s /\ j > Len(aBlocks[s]) /\ aBlocks'[u][j] \in FreeBlocks
  BY <1>1, <1>3, FreeInNone
<1>4. CASE /\ t = s /\ i > Len(aBlocks[s]) /\ aBlocks'[t][i] \in FreeBlocks
           /\ j \in 1..Len(aBlocks[u]) /\ aBlocks'[u][j] = aBlocks[u][j]
  BY <1>1, <1>4, FreeInNone
<1>5. CASE /\ t = s /\ i > Len(aBlocks[s])
           /\ u = s /\ j > Len(aBlocks[s])
  BY <1>5
<1> QED BY <1>2, <1>3, <1>4, <1>5

(* Opening, seeking and destroying a handle keep the blocks apart. *)
LEMMA OpenBlocks ==
  ASSUME TypeInv, BlockInv, NEW h \in Handles,
         \/ \E s \in Streams : openStream(h, s)
         \/ \E pos \in 0..MaxSize : setPos(h, pos)
  PROVE  BlockInv' /\ \A c \in Blocks : Synced'[c] = Synced[c]
<1> USE DEF BlockInv
<1>1. UNCHANGED <<aBlocks, store, pCurBlock, hActiveBlocks>>
  BY DEF openStream, setPos
<1>2. Synced' = Synced
  BY <1>1 DEF Synced
<1>3. BlocksApart' /\ HoldersRegistered' /\ CleanAreStored'
  <2>1. BlocksApart'
    BY <1>1 DEF BlocksApart
  <2>2. HoldersRegistered'
    BY <1>1 DEF HoldersRegistered
  <2>3. CleanAreStored'
    BY <1>1 DEF CleanAreStored
  <2> QED BY <2>1, <2>2, <2>3
<1>4. ASSUME NEW s \in Streams, openStream(h, s)
      PROVE  HandlesApart' /\ HeldAreOwn'
  <2>1. /\ on[h] = NONE /\ on' = [on EXCEPT ![h] = s]
        /\ \A g \in Handles : on[g] # s
    BY <1>4 DEF openStream
  <2>2. on'[h] = s /\ \A g \in Handles \ {h} : on'[g] = on[g]
    BY <2>1 DEF TypeInv, TypeOK
  <2>3. HandlesApart'
    BY <2>1, <2>2 DEF HandlesApart
  <2>4. HeldAreOwn'
    <3> SUFFICES ASSUME NEW g \in Handles, pCurBlock'[g] # NONE
                 PROVE  /\ on'[g] # NONE
                        /\ \E i \in 1..Len(aBlocks'[on'[g]]) :
                             aBlocks'[on'[g]][i] = pCurBlock'[g].iBlockIndex
      BY DEF HeldAreOwn
    <3>1. pCurBlock[g] # NONE /\ aBlocks' = aBlocks /\ pCurBlock' = pCurBlock
      BY <1>1
    <3>2. on'[g] = on[g]
      BY <3>1, <2>1, <2>2 DEF HeldAreOwn
    <3> QED BY <3>1, <3>2 DEF HeldAreOwn
  <2> QED BY <2>3, <2>4
<1>5. ASSUME NEW pos \in 0..MaxSize, setPos(h, pos)
      PROVE  HandlesApart' /\ HeldAreOwn'
  <2>1. on' = on
    BY <1>5 DEF setPos
  <2>2. HandlesApart'
    BY <2>1 DEF HandlesApart
  <2>3. HeldAreOwn'
    BY <1>1, <2>1 DEF HeldAreOwn
  <2> QED BY <2>2, <2>3
<1> QED BY <1>2, <1>3, <1>4, <1>5

LEMMA DestroyBlocks ==
  ASSUME TypeInv, BlockInv, NEW h \in Handles, Destroy(h)
  PROVE  BlockInv' /\ \A c \in Blocks : Synced'[c] = Synced[c]
<1> USE DEF BlockInv
<1>1. /\ HoldersRegistered' /\ CleanAreStored'
      /\ \A c \in Blocks : Synced'[c] = Synced[c]
  BY DropKeeps
<1>2. /\ pCurBlock' = [pCurBlock EXCEPT ![h] = NONE]
      /\ on' = [on EXCEPT ![h] = NONE] /\ aBlocks' = aBlocks
  BY DEF Destroy
<1>3. /\ pCurBlock'[h] = NONE /\ on'[h] = NONE
      /\ \A g \in Handles \ {h} : pCurBlock'[g] = pCurBlock[g] /\ on'[g] = on[g]
  BY <1>2 DEF TypeInv, TypeOK
<1>4. BlocksApart'
  BY <1>2 DEF BlocksApart
<1>5. HandlesApart'
  BY <1>3 DEF HandlesApart
<1>6. HeldAreOwn'
  <2> SUFFICES ASSUME NEW g \in Handles, pCurBlock'[g] # NONE
               PROVE  /\ on'[g] # NONE
                      /\ \E i \in 1..Len(aBlocks'[on'[g]]) :
                           aBlocks'[on'[g]][i] = pCurBlock'[g].iBlockIndex
    BY DEF HeldAreOwn
  <2>1. pCurBlock[g] # NONE /\ pCurBlock'[g] = pCurBlock[g] /\ on'[g] = on[g]
    BY <1>3
  <2> QED BY <2>1, <1>2 DEF HeldAreOwn
<1> QED BY <1>1, <1>4, <1>5, <1>6

(* A handle that moves inside its stream keeps everything else apart. *)
LEMMA MovedOwn ==
  ASSUME TypeInv, BlockInv, NEW h \in Handles, on[h] \in Streams, on' = on,
         NEW q, pCurBlock' = [pCurBlock EXCEPT ![h] = q],
         \E i \in 1..Len(aBlocks'[on[h]]) : aBlocks'[on[h]][i] = q.iBlockIndex,
         \A t \in Streams : \A i \in 1..Len(aBlocks[t]) :
           i \in 1..Len(aBlocks'[t]) /\ aBlocks'[t][i] = aBlocks[t][i]
  PROVE  HandlesApart' /\ HeldAreOwn'
<1> USE DEF BlockInv
<1>1. HandlesApart'
  BY DEF HandlesApart
<1>2. HeldAreOwn'
  <2> SUFFICES ASSUME NEW g \in Handles, pCurBlock'[g] # NONE
               PROVE  /\ on[g] # NONE
                      /\ \E i \in 1..Len(aBlocks'[on[g]]) :
                           aBlocks'[on[g]][i] = pCurBlock'[g].iBlockIndex
    BY DEF HeldAreOwn
  <2>1. CASE g = h
    <3>1. pCurBlock'[h] = q /\ on[h] # NONE
      BY NoneAssumption DEF TypeInv, TypeOK
    <3> QED BY <2>1, <3>1
  <2>2. CASE g # h
    <3>1. pCurBlock'[g] = pCurBlock[g] /\ pCurBlock[g] # NONE
      BY <2>2 DEF TypeInv, TypeOK
    <3>2. PICK i \in 1..Len(aBlocks[on[g]]) : aBlocks[on[g]][i] = pCurBlock[g].iBlockIndex
      BY <3>1 DEF HeldAreOwn
    <3>3. on[g] \in Streams /\ on[g] # NONE
      BY <3>1 DEF HeldAreOwn, TypeInv, TypeOK
    <3> QED BY <3>1, <3>2, <3>3
  <2> QED BY <2>1, <2>2
<1> QED BY <1>1, <1>2

(* Reading changes no block. *)
LEMMA ReadBlocks ==
  ASSUME TypeInv, BlockInv, NEW h \in Handles, NEW n \in 1..BlockSize, read(h, n)
  PROVE  BlockInv' /\ \A c \in Blocks : Synced'[c] = Synced[c]
<1>1. PICK i \in DOMAIN aBlocks[on[h]] :
        LET b == aBlocks[on[h]][i]
        IN  /\ on[h] \in Streams /\ b \in Blocks
            /\ pCurBlock' = [pCurBlock EXCEPT ![h] = Current(h, b)]
            /\ MoveTo(h, b)
            /\ iPos' = [iPos EXCEPT ![h] = iPos[h] + n]
            /\ iPos[h] + n <= iSize[on[h]]
            /\ UNCHANGED <<aBlocks, iSize, on, file>>
  BY ReadEffect
<1> DEFINE b == aBlocks[on[h]][i]
           q == Current(h, b)
<1>2. q \in Block /\ q.iBlockIndex = b /\ b \in Blocks
  BY <1>1, CurrentTyped DEF TypeInv
<1>3. \A g \in Handles \ {h} : pCurBlock[g] # NONE => pCurBlock[g].iBlockIndex # b
  BY <1>1, SoleHolder
<1>4. MoveTo(h, b) /\ pCurBlock' = [pCurBlock EXCEPT ![h] = q] /\ on[h] \in Streams
      /\ aBlocks' = aBlocks /\ on' = on
  BY <1>1
<1>5. i \in 1..Len(aBlocks[on[h]]) /\ aBlocks[on[h]][i] = q.iBlockIndex
  BY <1>1, <1>2 DEF TypeInv, TypeOK
<1> HIDE DEF b, q
<1>6. /\ HoldersRegistered' /\ CleanAreStored'
      /\ Synced[b] = Current(h, b).pData
      /\ Synced'[b] = q.pData
      /\ \A c \in Blocks \ {b} : Synced'[c] = Synced[c]
  <2>1. q = Current(h, b)
    BY DEF q
  <2> QED BY <2>1, <1>2, <1>3, <1>4, MoveKeeps DEF BlockInv
<1>7. \A c \in Blocks : Synced'[c] = Synced[c]
  BY <1>6 DEF q
<1>8. HandlesApart' /\ HeldAreOwn'
  BY <1>4, <1>5, MovedOwn
<1>9. BlocksApart'
  BY <1>4 DEF BlockInv, BlocksApart
<1> QED BY <1>6, <1>7, <1>8, <1>9 DEF BlockInv

(* Writing changes the bytes written in the block of the position, which   *)
(* the stream had or gets from the free ones.                              *)
LEMMA WriteBlocks ==
  ASSUME TypeInv, BlockInv, NEW h \in Handles, NEW n \in 1..BlockSize,
         NEW v \in Bytes, write(h, n, v)
  PROVE  /\ BlockInv'
         /\ \E b \in Blocks :
              /\ on[h] \in Streams
              /\ BlockForWrite(on[h], iPos[h], b)
              /\ Synced'[b] = Filled(Synced[b], iPos[h] % BlockSize, n, v)
              /\ \A c \in Blocks \ {b} : Synced'[c] = Synced[c]
<1>1. PICK b \in Blocks :
        /\ on[h] \in Streams
        /\ BlockForWrite(on[h], iPos[h], b)
        /\ MoveTo(h, b)
        /\ pCurBlock' = [pCurBlock EXCEPT ![h] = Written(h, b, n, v)]
  BY WriteEffect
<1> DEFINE q == Written(h, b, n, v)
           s == on[h]
           pos == iPos[h]
<1>2. n \in Nat /\ pos \in Nat /\ on' = on
  BY SizesAssumption DEF TypeInv, TypeOK, write
<1>3. /\ q \in Block /\ q.iBlockIndex = b /\ q.bChanged
      /\ q.pData = Filled(Current(h, b).pData, pos % BlockSize, n, v)
  BY <1>2, WrittenTyped DEF TypeInv
<1>4. /\ \A t \in Streams \ {s} : aBlocks'[t] = aBlocks[t]
      /\ \/ /\ pos \div BlockSize < Len(aBlocks[s])
            /\ b = aBlocks[s][pos \div BlockSize + 1]
            /\ aBlocks' = aBlocks
         \/ /\ b \in FreeBlocks
            /\ aBlocks'[s] = Append(aBlocks[s], b)
            /\ Len(aBlocks'[s]) = Len(aBlocks[s]) + 1
  BY <1>1, <1>2, BlockPlaced DEF TypeInv
<1>5. /\ aBlocks[s] \in Seq(Blocks) /\ pos \div BlockSize \in Nat
      /\ \A t \in Streams : aBlocks[t] \in Seq(Blocks)
  BY <1>1, <1>2, DivMod, SizesAssumption DEF TypeInv, TypeOK
<1>6. \/ \E i \in DOMAIN aBlocks[s] : aBlocks[s][i] = b
      \/ b \in FreeBlocks
  <2>1. CASE /\ pos \div BlockSize < Len(aBlocks[s])
             /\ b = aBlocks[s][pos \div BlockSize + 1]
    <3>1. pos \div BlockSize + 1 \in DOMAIN aBlocks[s]
      BY <1>5, <2>1
    <3> QED BY <2>1, <3>1
  <2> QED BY <1>4, <2>1
<1>7. \A g \in Handles \ {h} : pCurBlock[g] # NONE => pCurBlock[g].iBlockIndex # b
  BY <1>1, <1>6, SoleHolder
<1>8. MoveTo(h, b) /\ pCurBlock' = [pCurBlock EXCEPT ![h] = q] /\ s \in Streams
  BY <1>1
<1>9. \A t \in Streams : \A i \in 1..Len(aBlocks[t]) :
        i \in 1..Len(aBlocks'[t]) /\ aBlocks'[t][i] = aBlocks[t][i]
  <2> SUFFICES ASSUME NEW t \in Streams, NEW i \in 1..Len(aBlocks[t])
               PROVE  i \in 1..Len(aBlocks'[t]) /\ aBlocks'[t][i] = aBlocks[t][i]
    OBVIOUS
  <2>1. CASE aBlocks'[t] = aBlocks[t]
    BY <2>1
  <2>2. CASE t = s /\ aBlocks'[s] = Append(aBlocks[s], b)
    BY <2>2, <1>5
  <2> QED BY <1>4, <2>1, <2>2
<1>10. \E i \in 1..Len(aBlocks'[s]) : aBlocks'[s][i] = q.iBlockIndex
  <2>1. CASE b \in FreeBlocks /\ aBlocks'[s] = Append(aBlocks[s], b)
    <3>1. aBlocks'[s][Len(aBlocks[s]) + 1] = b
          /\ Len(aBlocks[s]) + 1 \in 1..Len(aBlocks'[s])
      BY <2>1, <1>5
    <3> QED BY <3>1, <1>3
  <2>2. CASE /\ pos \div BlockSize < Len(aBlocks[s])
             /\ b = aBlocks[s][pos \div BlockSize + 1]
             /\ aBlocks' = aBlocks
    <3>1. pos \div BlockSize + 1 \in 1..Len(aBlocks'[s])
      BY <2>2, <1>5
    <3> QED BY <2>2, <3>1, <1>3
  <2> QED BY <1>4, <2>1, <2>2
<1> HIDE DEF q
<1>11. HandlesApart' /\ HeldAreOwn'
  BY <1>2, <1>8, <1>9, <1>10, MovedOwn
<1>12. /\ HoldersRegistered' /\ CleanAreStored'
       /\ Synced[b] = Current(h, b).pData
       /\ Synced'[b] = q.pData
       /\ \A c \in Blocks \ {b} : Synced'[c] = Synced[c]
  BY <1>3, <1>7, <1>8, MoveKeeps DEF BlockInv
<1>13. BlocksApart'
  <2>1. CASE aBlocks' = aBlocks
    BY <2>1 DEF BlockInv, BlocksApart
  <2>2. CASE b \in FreeBlocks /\ aBlocks'[s] = Append(aBlocks[s], b)
    <3>1. /\ Len(aBlocks'[s]) = Len(aBlocks[s]) + 1
          /\ aBlocks'[s][Len(aBlocks[s]) + 1] = b
          /\ \A i \in 1..Len(aBlocks[s]) : aBlocks'[s][i] = aBlocks[s][i]
          /\ Len(aBlocks[s]) \in Nat
      BY <2>2, <1>5
    <3>2. \A t \in Streams : \A i \in 1..Len(aBlocks'[t]) :
            \/ i \in 1..Len(aBlocks[t]) /\ aBlocks'[t][i] = aBlocks[t][i]
            \/ t = s /\ i > Len(aBlocks[s]) /\ aBlocks'[t][i] \in FreeBlocks
      <4> SUFFICES ASSUME NEW t \in Streams, NEW i \in 1..Len(aBlocks'[t])
                   PROVE  \/ i \in 1..Len(aBlocks[t]) /\ aBlocks'[t][i] = aBlocks[t][i]
                          \/ t = s /\ i > Len(aBlocks[s]) /\ aBlocks'[t][i] \in FreeBlocks
        OBVIOUS
      <4>1. CASE t # s
        BY <4>1, <1>4
      <4>2. CASE t = s /\ i <= Len(aBlocks[s])
        BY <4>2, <3>1
      <4>3. CASE t = s /\ i > Len(aBlocks[s])
        <5>1. i = Len(aBlocks[s]) + 1
          BY <4>3, <3>1
        <5> QED BY <4>3, <5>1, <3>1, <2>2
      <4> QED BY <4>1, <4>2, <4>3, <3>1
    <3>3. \A i, j \in 1..Len(aBlocks'[s]) :
            i > Len(aBlocks[s]) /\ j > Len(aBlocks[s]) /\ aBlocks'[s][i] = aBlocks'[s][j]
              => i = j
      BY <3>1
    <3>4. TypeOK' /\ TypeOK
      BY WriteTyped DEF TypeInv
    <3> QED BY <1>8, <3>2, <3>3, <3>4, GrownApart DEF BlockInv
  <2> QED BY <1>4, <2>1, <2>2
<1>14. Synced'[b] = Filled(Synced[b], pos % BlockSize, n, v)
  BY <1>3, <1>12
<1> QED BY <1>1, <1>11, <1>12, <1>13, <1>14 DEF BlockInv

(* The blocks of a stream that setSize changes: what is left of the list   *)
(* is as it was, and what is added was free.                               *)
LEMMA SetSizeLists ==
  ASSUME TypeInv, NEW h \in Handles, NEW n \in 0..MaxSize, setSize(h, n)
  PROVE  /\ \A t \in Streams : \A i \in 1..Len(aBlocks'[t]) :
              \/ i \in 1..Len(aBlocks[t]) /\ aBlocks'[t][i] = aBlocks[t][i]
              \/ t = on[h] /\ i > Len(aBlocks[on[h]]) /\ aBlocks'[t][i] \in FreeBlocks
         /\ \A i, j \in 1..Len(aBlocks'[on[h]]) :
              i > Len(aBlocks[on[h]]) /\ j > Len(aBlocks[on[h]])
                => (aBlocks'[on[h]][i] = aBlocks'[on[h]][j] => i = j)
         /\ \A t \in Streams \ {on[h]} : aBlocks'[t] = aBlocks[t]
<1> DEFINE s == on[h]
           a == aBlocks[s]
<1>1. /\ s \in Streams /\ n \in Nat
      /\ \/ \E m \in Nat : CutsTo(h, n, m)
         \/ \E k \in Nat : \E new \in [1..k -> FreeBlocks] : GrowsBy(h, n, k, new)
  BY SetSizeEffect
<1>2. aBlocks \in [Streams -> Seq(Blocks)] /\ a \in Seq(Blocks) /\ Len(a) \in Nat
  BY <1>1 DEF TypeInv, TypeOK
<1>3. ASSUME NEW m \in Nat, CutsTo(h, n, m)
      PROVE  /\ \A t \in Streams \ {s} : aBlocks'[t] = aBlocks[t]
             /\ Len(aBlocks'[s]) = m /\ m <= Len(a)
             /\ \A i \in 1..m : aBlocks'[s][i] = a[i]
  <2>1. aBlocks' = [aBlocks EXCEPT ![s] = SubSeq(a, 1, m)] /\ m <= Len(a)
    BY <1>3 DEF CutsTo
  <2>2. aBlocks'[s] = SubSeq(a, 1, m) /\ \A t \in Streams \ {s} : aBlocks'[t] = aBlocks[t]
    BY <1>1, <1>2, <2>1
  <2>3. Len(SubSeq(a, 1, m)) = m /\ \A i \in 1..m : SubSeq(a, 1, m)[i] = a[i]
    BY <1>2, <2>1
  <2> QED BY <2>1, <2>2, <2>3
<1>4. ASSUME NEW k \in Nat, NEW new \in [1..k -> FreeBlocks], GrowsBy(h, n, k, new)
      PROVE  /\ \A t \in Streams \ {s} : aBlocks'[t] = aBlocks[t]
             /\ Len(aBlocks'[s]) = Len(a) + k
             /\ \A i \in 1..(Len(a) + k) :
                  aBlocks'[s][i] = IF i <= Len(a) THEN a[i] ELSE new[i - Len(a)]
             /\ \A x, y \in 1..k : new[x] = new[y] => x = y
  <2>1. aBlocks' = [aBlocks EXCEPT ![s] = a \o new] /\ IsInjective(new)
    BY <1>4 DEF GrowsBy
  <2>2. new \in Seq(Blocks) /\ Len(new) = k
    BY DEF FreeBlocks
  <2>3. aBlocks'[s] = a \o new /\ \A t \in Streams \ {s} : aBlocks'[t] = aBlocks[t]
    BY <1>1, <1>2, <2>1
  <2>4. /\ Len(a \o new) = Len(a) + Len(new)
        /\ \A i \in 1..(Len(a) + Len(new)) :
             (a \o new)[i] = IF i <= Len(a) THEN a[i] ELSE new[i - Len(a)]
    BY <1>2, <2>2, Concatenated
  <2>5. \A x, y \in 1..k : new[x] = new[y] => x = y
    BY <2>1 DEF IsInjective
  <2> HIDE DEF a
  <2> QED BY <2>2, <2>3, <2>4, <2>5
<1> HIDE DEF s, a
<1>5. ASSUME NEW m \in Nat, CutsTo(h, n, m)
      PROVE  /\ \A t \in Streams : \A i \in 1..Len(aBlocks'[t]) :
                  i \in 1..Len(aBlocks[t]) /\ aBlocks'[t][i] = aBlocks[t][i]
             /\ \A i \in 1..Len(aBlocks'[s]) : i <= Len(a)
  <2>1. /\ \A t \in Streams \ {s} : aBlocks'[t] = aBlocks[t]
        /\ Len(aBlocks'[s]) = m /\ m <= Len(a)
        /\ \A i \in 1..m : aBlocks'[s][i] = a[i]
    BY <1>3, <1>5
  <2>2. \A i \in 1..m : i \in 1..Len(a) /\ i <= Len(a)
    BY <2>1, <1>2
  <2>3. ASSUME NEW t \in Streams, NEW i \in 1..Len(aBlocks'[t])
        PROVE  i \in 1..Len(aBlocks[t]) /\ aBlocks'[t][i] = aBlocks[t][i]
    <3>1. CASE t # s
      BY <3>1, <2>1
    <3>2. CASE t = s
      BY <3>2, <2>1, <2>2 DEF a
    <3> QED BY <3>1, <3>2
  <2> QED BY <2>1, <2>2, <2>3
<1>6. ASSUME NEW k \in Nat, NEW new \in [1..k -> FreeBlocks], GrowsBy(h, n, k, new)
      PROVE  /\ \A t \in Streams : \A i \in 1..Len(aBlocks'[t]) :
                  \/ i \in 1..Len(aBlocks[t]) /\ aBlocks'[t][i] = aBlocks[t][i]
                  \/ t = s /\ i > Len(a) /\ aBlocks'[t][i] \in FreeBlocks
             /\ \A i, j \in 1..Len(aBlocks'[s]) :
                  i > Len(a) /\ j > Len(a) /\ aBlocks'[s][i] = aBlocks'[s][j] => i = j
  <2>1. /\ \A t \in Streams \ {s} : aBlocks'[t] = aBlocks[t]
        /\ Len(aBlocks'[s]) = Len(a) + k
        /\ \A i \in 1..(Len(a) + k) :
             aBlocks'[s][i] = IF i <= Len(a) THEN a[i] ELSE new[i - Len(a)]
        /\ \A x, y \in 1..k : new[x] = new[y] => x = y
    BY <1>4, <1>6
  <2>2. ASSUME NEW t \in Streams, NEW i \in 1..Len(aBlocks'[t])
        PROVE  \/ i \in 1..Len(aBlocks[t]) /\ aBlocks'[t][i] = aBlocks[t][i]
               \/ t = s /\ i > Len(a) /\ aBlocks'[t][i] \in FreeBlocks
    <3>1. CASE t # s
      BY <3>1, <2>1
    <3>2. CASE t = s /\ i <= Len(a)
      BY <3>2, <2>1, <1>2 DEF a
    <3>3. CASE t = s /\ i > Len(a)
      <4>1. i - Len(a) \in 1..k /\ aBlocks'[s][i] = new[i - Len(a)]
        BY <3>3, <2>1, <1>2
      <4> QED BY <3>3, <4>1
    <3> QED BY <3>1, <3>2, <3>3, <1>2
  <2>3. ASSUME NEW i \in 1..Len(aBlocks'[s]), NEW j \in 1..Len(aBlocks'[s]),
               i > Len(a), j > Len(a), aBlocks'[s][i] = aBlocks'[s][j]
        PROVE  i = j
    <3>1. /\ i - Len(a) \in 1..k /\ aBlocks'[s][i] = new[i - Len(a)]
          /\ j - Len(a) \in 1..k /\ aBlocks'[s][j] = new[j - Len(a)]
      BY <2>1, <2>3, <1>2
    <3>2. i - Len(a) = j - Len(a)
      BY <2>1, <2>3, <3>1
    <3> QED BY <3>2, <1>2
  <2> QED BY <2>2, <2>3
<1>7. \A t \in Streams \ {s} : aBlocks'[t] = aBlocks[t]
  BY <1>1, <1>3, <1>4 DEF s
<1>8. CASE \E m \in Nat : CutsTo(h, n, m)
  <2>1. PICK m \in Nat : CutsTo(h, n, m)
    BY <1>8
  <2>2. /\ \A t \in Streams : \A i \in 1..Len(aBlocks'[t]) :
             i \in 1..Len(aBlocks[t]) /\ aBlocks'[t][i] = aBlocks[t][i]
        /\ \A i \in 1..Len(aBlocks'[s]) : i <= Len(a)
    BY <2>1, <1>5
  <2>3. \A i \in 1..Len(aBlocks'[s]) : ~ (i > Len(a))
    BY <2>2, <1>2
  <2> QED BY <2>2, <2>3, <1>7 DEF s, a
<1>9. CASE \E k \in Nat : \E new \in [1..k -> FreeBlocks] : GrowsBy(h, n, k, new)
  BY <1>6, <1>7, <1>9 DEF s, a
<1> QED BY <1>1, <1>8, <1>9 DEF s

(* As long as callers do not cut off the block a handle has in memory,     *)
(* setSize keeps the blocks apart and what each of them holds.             *)
LEMMA SetSizeBlocks ==
  ASSUME StaleCuts = FALSE, TypeInv, BlockInv, NEW h \in Handles,
         NEW n \in 0..MaxSize, setSize(h, n)
  PROVE  BlockInv' /\ \A c \in Blocks : Synced'[c] = Synced[c]
<1> USE DEF BlockInv
<1>1. /\ on[h] \in Streams
      /\ \/ \E m \in Nat : CutsTo(h, n, m)
         \/ \E k \in Nat : \E new \in [1..k -> FreeBlocks] : GrowsBy(h, n, k, new)
      /\ UNCHANGED <<store, on, pCurBlock, hActiveBlocks>>
  BY SetSizeEffect
<1>2. Synced' = Synced
  BY <1>1 DEF Synced
<1>3. HandlesApart'
  BY <1>1 DEF HandlesApart
<1>4. HoldersRegistered'
  BY <1>1 DEF HoldersRegistered
<1>5. CleanAreStored'
  BY <1>1 DEF CleanAreStored
<1>6. BlocksApart'
  <2>1. TypeOK' /\ TypeOK
    BY SetSizeTyped DEF TypeInv
  <2> QED BY <1>1, <2>1, SetSizeLists, GrownApart
<1>7. HeldAreOwn'
  <2> SUFFICES ASSUME NEW g \in Handles, pCurBlock'[g] # NONE
               PROVE  /\ on'[g] # NONE
                      /\ \E i \in 1..Len(aBlocks'[on'[g]]) :
                           aBlocks'[on'[g]][i] = pCurBlock'[g].iBlockIndex
    BY DEF HeldAreOwn
  <2>1. pCurBlock' = pCurBlock /\ on' = on /\ pCurBlock[g] # NONE
    BY <1>1
  <2>2. /\ on[g] \in Streams /\ on[g] # NONE
        /\ \E i \in 1..Len(aBlocks[on[g]]) : aBlocks[on[g]][i] = pCurBlock[g].iBlockIndex
    BY <2>1 DEF HeldAreOwn, TypeInv, TypeOK
  <2>3. PICK i \in 1..Len(aBlocks[on[g]]) : aBlocks[on[g]][i] = pCurBlock[g].iBlockIndex
    BY <2>2
  <2>4. CASE g # h
    <3>1. on[g] # on[h]
      BY <2>2, <2>4 DEF HandlesApart
    <3>2. aBlocks'[on[g]] = aBlocks[on[g]]
      BY <3>1, <2>2, SetSizeLists
    <3> QED BY <2>1, <2>2, <3>2
  <2>5. CASE g = h /\ \E m \in Nat : CutsTo(h, n, m)
    <3>1. PICK m \in Nat : CutsTo(h, n, m)
      BY <2>5
    <3> DEFINE a == aBlocks[on[h]]
               kept == SubSeq(a, 1, m)
    <3>2. /\ ~ InMemory(h, Range(a) \ Range(kept))
          /\ aBlocks' = [aBlocks EXCEPT ![on[h]] = kept]
      BY <3>1 DEF CutsTo
    <3>3. aBlocks'[on[h]] = kept /\ a \in Seq(Blocks) /\ DOMAIN a = 1..Len(a)
      BY <3>2, <1>1 DEF TypeInv, TypeOK
    <3>4. kept \in Seq(Blocks) /\ DOMAIN kept = 1..Len(kept)
      BY <3>1, <3>3 DEF CutsTo
    <3>5. pCurBlock[h].iBlockIndex \in Range(a)
      BY <2>3, <2>5, <3>3 DEF Range
    <3>6. pCurBlock[h].iBlockIndex \in Range(kept)
      BY <3>2, <3>5, <2>1, <2>5 DEF InMemory
    <3>7. \E x \in 1..Len(kept) : kept[x] = pCurBlock[h].iBlockIndex
      BY <3>4, <3>6 DEF Range
    <3> QED BY <2>1, <2>2, <2>5, <3>3, <3>7
  <2>6. CASE g = h /\ \E k \in Nat : \E new \in [1..k -> FreeBlocks] : GrowsBy(h, n, k, new)
    <3>1. PICK k \in Nat : \E new \in [1..k -> FreeBlocks] : GrowsBy(h, n, k, new)
      BY <2>6
    <3>2. PICK new \in [1..k -> FreeBlocks] : GrowsBy(h, n, k, new)
      BY <3>1
    <3> DEFINE a == aBlocks[on[h]]
    <3>3. a \in Seq(Blocks) /\ new \in Seq(Blocks) /\ aBlocks'[on[h]] = a \o new
      BY <3>2, <1>1 DEF GrowsBy, TypeInv, TypeOK, FreeBlocks
    <3>4. i \in 1..Len(a \o new) /\ (a \o new)[i] = a[i]
      <4>1. i \in 1..Len(a)
        BY <2>6
      <4> HIDE DEF a
      <4>2. /\ Len(a \o new) = Len(a) + Len(new)
            /\ \A x \in 1..(Len(a) + Len(new)) :
                 (a \o new)[x] = IF x <= Len(a) THEN a[x] ELSE new[x - Len(a)]
        BY <3>3, Concatenated
      <4>3. Len(a) \in Nat /\ Len(new) \in Nat
        BY <3>3
      <4> QED BY <4>1, <4>2, <4>3
    <3>5. a[i] = pCurBlock[h].iBlockIndex
      BY <2>3, <2>6
    <3> HIDE DEF a
    <3> QED BY <2>1, <2>2, <2>6, <3>3, <3>4, <3>5
  <2> QED BY <1>1, <2>4, <2>5, <2>6
<1> QED BY <1>2, <1>3, <1>4, <1>5, <1>6, <1>7

(* A stream that is made again had no handle. *)
LEMMA RecreateBlocks ==
  ASSUME TypeInv, BlockInv, NEW s \in Streams, Recreate(s)
  PROVE  BlockInv' /\ \A c \in Blocks : Synced'[c] = Synced[c]
<1> USE DEF BlockInv
<1>1. /\ \A g \in Handles : on[g] # s
      /\ aBlocks' = [aBlocks EXCEPT ![s] = << >>]
      /\ UNCHANGED <<store, on, pCurBlock, hActiveBlocks>>
  BY DEF Recreate
<1>2. aBlocks'[s] = << >> /\ \A t \in Streams \ {s} : aBlocks'[t] = aBlocks[t]
  BY <1>1 DEF TypeInv, TypeOK
<1>3. Synced' = Synced
  BY <1>1 DEF Synced
<1>4. HandlesApart'
  BY <1>1 DEF HandlesApart
<1>5. HoldersRegistered'
  BY <1>1 DEF HoldersRegistered
<1>6. CleanAreStored'
  BY <1>1 DEF CleanAreStored
<1>7. BlocksApart'
  <2>1. \A t \in Streams : \A i \in 1..Len(aBlocks'[t]) :
          i \in 1..Len(aBlocks[t]) /\ aBlocks'[t][i] = aBlocks[t][i] /\ t # s
    BY <1>2
  <2> QED BY <2>1 DEF BlocksApart
<1>8. HeldAreOwn'
  <2> SUFFICES ASSUME NEW g \in Handles, pCurBlock'[g] # NONE
               PROVE  /\ on'[g] # NONE
                      /\ \E i \in 1..Len(aBlocks'[on'[g]]) :
                           aBlocks'[on'[g]][i] = pCurBlock'[g].iBlockIndex
    BY DEF HeldAreOwn
  <2>1. pCurBlock' = pCurBlock /\ on' = on /\ pCurBlock[g] # NONE
    BY <1>1
  <2>2. on[g] \in Streams \ {s} /\ on[g] # NONE
    BY <2>1, <1>1 DEF HeldAreOwn, TypeInv, TypeOK
  <2>3. aBlocks'[on[g]] = aBlocks[on[g]]
    BY <2>2, <1>2
  <2> QED BY <2>1, <2>2, <2>3 DEF HeldAreOwn
<1> QED BY <1>3, <1>4, <1>5, <1>6, <1>7, <1>8

LEMMA SyncBlocks ==
  ASSUME TypeInv, BlockInv, sync
  PROVE  BlockInv' /\ \A c \in Blocks : Synced'[c] = Synced[c]
<1> USE DEF BlockInv
<1>1. /\ HoldersRegistered' /\ CleanAreStored'
      /\ \A c \in Blocks : Synced'[c] = Synced[c]
  BY SyncKeeps
<1>2. aBlocks' = aBlocks /\ on' = on
  BY SyncEffect
<1>3. BlocksApart' /\ HandlesApart'
  BY <1>2 DEF BlocksApart, HandlesApart
<1>4. HeldAreOwn'
  <2> SUFFICES ASSUME NEW g \in Handles, pCurBlock'[g] # NONE
               PROVE  /\ on'[g] # NONE
                      /\ \E i \in 1..Len(aBlocks'[on'[g]]) :
                           aBlocks'[on'[g]][i] = pCurBlock'[g].iBlockIndex
    BY DEF HeldAreOwn
  <2>1. pCurBlock[g] # NONE /\ pCurBlock'[g].iBlockIndex = pCurBlock[g].iBlockIndex
    BY SyncEffect
  <2> QED BY <2>1, <1>2 DEF HeldAreOwn
<1> QED BY <1>1, <1>3, <1>4

(* Every step of careful callers keeps the blocks apart. *)
LEMMA BlockInvStep ==
  ASSUME StaleCuts = FALSE, TypeInv, BlockInv, [Next]_vars
  PROVE  BlockInv'
<1>1. CASE Next
  <2>1. ASSUME NEW h \in Handles,
               \/ \E s \in Streams : openStream(h, s)
               \/ Destroy(h)
               \/ \E pos \in 0..MaxSize : setPos(h, pos)
               \/ \E n \in 1..BlockSize : read(h, n)
               \/ \E n \in 1..BlockSize, v \in Bytes : write(h, n, v)
               \/ \E n \in 0..MaxSize : setSize(h, n)
        PROVE  BlockInv'
    BY <2>1, OpenBlocks, DestroyBlocks, ReadBlocks, WriteBlocks, SetSizeBlocks
  <2> QED BY <1>1, <2>1, RecreateBlocks, SyncBlocks DEF Next
<1>2. CASE UNCHANGED vars
  BY <1>2 DEF vars, BlockInv, BlocksApart, HandlesApart, HeldAreOwn, HoldersRegistered,
              CleanAreStored
<1> QED BY <1>1, <1>2

(* As long as callers do not cut off the block that a handle has in        *)
(* memory, every block is in one stream at most, a stream has one handle,  *)
(* and a handle has a block of its own stream in memory.                   *)
LEMMA BlocksInvariant ==
  ASSUME StaleCuts = FALSE
  PROVE  Spec => [](TypeInv /\ BlockInv)
<1>1. Init => TypeInv /\ BlockInv
  BY InitTypeInv, InitBlockInv
<1>2. TypeInv /\ BlockInv /\ [Next]_vars => TypeInv' /\ BlockInv'
  BY TypeInvStep, BlockInvStep
<1> QED BY <1>1, <1>2, PTL DEF Spec

(* hActiveBlocks lists the blocks that handles have in memory and no       *)
(* other: getBlock and releaseBlock keep it in step with pCurBlock.        *)
THEOREM RegistryMatches ==
  ASSUME StaleCuts = FALSE
  PROVE  Spec => []ActiveBlocksMatch
<1>1. TypeInv /\ BlockInv => ActiveBlocksMatch
  <2> SUFFICES ASSUME TypeInv, BlockInv, NEW b \in Blocks
               PROVE  LET holders == {h \in Handles : /\ pCurBlock[h] # NONE
                                                      /\ pCurBlock[h].iBlockIndex = b}
                      IN  hActiveBlocks[b] = IF holders = {} THEN NONE
                                             ELSE CHOOSE h \in holders : TRUE
    BY DEF ActiveBlocksMatch
  <2> DEFINE holders == {h \in Handles : /\ pCurBlock[h] # NONE
                                         /\ pCurBlock[h].iBlockIndex = b}
  <2>1. \A h \in holders : hActiveBlocks[b] = h
    BY DEF BlockInv, HoldersRegistered
  <2>2. hActiveBlocks[b] # NONE => hActiveBlocks[b] \in holders
    BY DEF TypeInv, TypeOK, RegisteredHold
  <2>3. CASE holders = {}
    BY <2>2, <2>3
  <2>4. CASE holders # {}
    <3>1. (CHOOSE h \in holders : TRUE) \in holders
      BY <2>4
    <3> QED BY <2>1, <2>4, <3>1
  <2> QED BY <2>3, <2>4
<1> QED BY <1>1, BlocksInvariant, PTL

-----------------------------------------------------------------------------
(* The bytes of a stream. *)

(* No handle is behind the end of its stream. *)
PositionsInside ==
  \A h \in Handles : on[h] # NONE => iPos[h] <= iSize[on[h]]

(* The size a stream is stored with is that of what it should hold. *)
SizesMatch == \A s \in Streams : iSize[s] = Len(file[s])

BytesInv == PositionsInside /\ SizesMatch /\ SyncReachesStore

(* An offset inside a stream is an offset in one of its blocks. *)
LEMMA OffsetPlaced ==
  ASSUME NEW L \in Seq(Blocks), NEW z \in Nat, z <= Len(L) * BlockSize,
         NEW o \in 0..(z - 1)
  PROVE  /\ o \in Nat /\ o < z
         /\ o \div BlockSize \in Nat /\ o \div BlockSize + 1 \in 1..Len(L)
         /\ L[o \div BlockSize + 1] \in Blocks
         /\ o % BlockSize \in Offsets
<1>1. o \in Nat /\ o < z /\ Len(L) \in Nat /\ BlockSize \in Nat \ {0}
  BY SizesAssumption
<1>2. o \div BlockSize \in Nat /\ o % BlockSize \in 0..(BlockSize - 1)
  BY <1>1, DivMod
<1>3. o < Len(L) * BlockSize
  <2>1. Len(L) * BlockSize \in Nat
    BY <1>1
  <2> HIDE DEF Offsets
  <2> QED BY <1>1, <2>1
<1>4. o \div BlockSize < Len(L)
  BY <1>1, <1>3, DivBelow
<1> DEFINE d == o \div BlockSize
<1> HIDE DEF d
<1>5. d + 1 \in 1..Len(L) /\ L[d + 1] \in Blocks
  <2>1. d \in Nat /\ d < Len(L)
    BY <1>2, <1>4 DEF d
  <2> QED BY <1>1, <2>1
<1> QED BY <1>1, <1>2, <1>5 DEF d, Offsets

(* The bytes are as they should be when the lists, the files and what the  *)
(* blocks hold are the same, or when they are for each stream.             *)
LEMMA StoredKept ==
  ASSUME TypeInv, BytesInv, NEW s \in Streams,
         aBlocks'[s] = aBlocks[s], file'[s] = file[s],
         \A i \in 1..Len(aBlocks[s]) : Synced'[aBlocks[s][i]] = Synced[aBlocks[s][i]],
         NEW o \in 0..(Len(file'[s]) - 1)
  PROVE  file'[s][o + 1] \in
           {ANY, Synced'[aBlocks'[s][o \div BlockSize + 1]][o % BlockSize]}
<1>1. o \in 0..(Len(file[s]) - 1) /\ o \in 0..(iSize[s] - 1)
  BY DEF BytesInv, SizesMatch
<1>2. /\ aBlocks[s] \in Seq(Blocks) /\ iSize[s] \in Nat
      /\ iSize[s] <= Len(aBlocks[s]) * BlockSize
  BY DEF TypeInv, TypeOK, SizesHaveBlocks
<1>3. o \div BlockSize + 1 \in 1..Len(aBlocks[s])
  BY <1>1, <1>2, OffsetPlaced
<1>4. file[s][o + 1] \in
        {ANY, Synced[aBlocks[s][o \div BlockSize + 1]][o % BlockSize]}
  BY <1>1 DEF BytesInv, SyncReachesStore
<1> QED BY <1>3, <1>4

LEMMA AllStoredKept ==
  ASSUME TypeInv, BytesInv, aBlocks' = aBlocks, file' = file, iSize' = iSize,
         \A c \in Blocks : Synced'[c] = Synced[c]
  PROVE  SizesMatch' /\ SyncReachesStore'
<1>1. SizesMatch'
  BY DEF BytesInv, SizesMatch
<1>2. ASSUME NEW s \in Streams, NEW o \in 0..(Len(file'[s]) - 1)
      PROVE  file'[s][o + 1] \in
               {ANY, Synced'[aBlocks'[s][o \div BlockSize + 1]][o % BlockSize]}
  <2>1. \A i \in 1..Len(aBlocks[s]) : aBlocks[s][i] \in Blocks
    BY DEF TypeInv, TypeOK
  <2> QED BY <2>1, StoredKept
<1> QED BY <1>1, <1>2 DEF SyncReachesStore

(* New streams are empty. *)
LEMMA InitBytesInv == Init => BytesInv
<1> SUFFICES ASSUME Init PROVE BytesInv
  OBVIOUS
<1>1. \A s \in Streams : file[s] = << >> /\ iSize[s] = 0 /\ Len(file[s]) = 0
  BY DEF Init
<1>2. SyncReachesStore
  <2>1. \A s \in Streams : 0..(Len(file[s]) - 1) = {}
    BY <1>1
  <2> QED BY <2>1 DEF SyncReachesStore
<1>3. PositionsInside
  BY DEF Init, PositionsInside
<1> QED BY <1>1, <1>2, <1>3 DEF BytesInv, SizesMatch

(* Opening a handle and moving it inside the stream. *)
LEMMA OpenBytes ==
  ASSUME Gaps = FALSE, TypeInv, BlockInv, BytesInv, NEW h \in Handles,
         \/ \E s \in Streams : openStream(h, s)
         \/ \E pos \in 0..MaxSize : setPos(h, pos)
  PROVE  BytesInv'
<1>1. UNCHANGED <<aBlocks, file, iSize>> /\ \A c \in Blocks : Synced'[c] = Synced[c]
  BY OpenBlocks DEF openStream, setPos
<1>2. SizesMatch' /\ SyncReachesStore'
  BY <1>1, AllStoredKept
<1>3. ASSUME NEW s \in Streams, openStream(h, s)
      PROVE  PositionsInside'
  <2>1. on'[h] = s /\ iPos'[h] = 0 /\ iSize'[s] \in Nat
        /\ \A g \in Handles \ {h} : on'[g] = on[g] /\ iPos'[g] = iPos[g]
    BY <1>1, <1>3 DEF openStream, TypeInv, TypeOK
  <2> QED BY <1>1, <2>1 DEF PositionsInside, BytesInv
<1>4. ASSUME NEW pos \in 0..MaxSize, setPos(h, pos)
      PROVE  PositionsInside'
  <2>1. on' = on /\ iPos' = [iPos EXCEPT ![h] = pos] /\ pos <= iSize[on[h]]
    BY <1>4 DEF setPos
  <2>2. iPos'[h] = pos /\ \A g \in Handles \ {h} : iPos'[g] = iPos[g]
    BY <2>1 DEF TypeInv, TypeOK
  <2> QED BY <1>1, <2>1, <2>2 DEF PositionsInside, BytesInv
<1> QED BY <1>2, <1>3, <1>4 DEF BytesInv

LEMMA DestroyBytes ==
  ASSUME TypeInv, BlockInv, BytesInv, NEW h \in Handles, Destroy(h)
  PROVE  BytesInv'
<1>1. /\ UNCHANGED <<aBlocks, file, iSize>> /\ \A c \in Blocks : Synced'[c] = Synced[c]
      /\ on' = [on EXCEPT ![h] = NONE] /\ iPos' = [iPos EXCEPT ![h] = 0]
  BY DestroyBlocks DEF Destroy
<1>2. SizesMatch' /\ SyncReachesStore'
  BY <1>1, AllStoredKept
<1>3. on'[h] = NONE /\ \A g \in Handles \ {h} : on'[g] = on[g] /\ iPos'[g] = iPos[g]
  BY <1>1 DEF TypeInv, TypeOK
<1>4. PositionsInside'
  BY <1>1, <1>3 DEF PositionsInside, BytesInv
<1> QED BY <1>2, <1>4 DEF BytesInv

LEMMA ReadBytes ==
  ASSUME TypeInv, BlockInv, BytesInv, NEW h \in Handles, NEW n \in 1..BlockSize,
         read(h, n)
  PROVE  BytesInv'
<1>1. /\ UNCHANGED <<aBlocks, file, iSize, on>> /\ \A c \in Blocks : Synced'[c] = Synced[c]
      /\ iPos' = [iPos EXCEPT ![h] = iPos[h] + n] /\ iPos[h] + n <= iSize[on[h]]
  BY ReadBlocks DEF read
<1>2. SizesMatch' /\ SyncReachesStore'
  BY <1>1, AllStoredKept
<1>3. iPos'[h] = iPos[h] + n /\ \A g \in Handles \ {h} : iPos'[g] = iPos[g]
  BY <1>1 DEF TypeInv, TypeOK
<1>4. PositionsInside'
  BY <1>1, <1>3 DEF PositionsInside, BytesInv
<1> QED BY <1>2, <1>4 DEF BytesInv

LEMMA SyncBytes ==
  ASSUME TypeInv, BlockInv, BytesInv, sync
  PROVE  BytesInv'
<1>1. /\ UNCHANGED <<aBlocks, file, iSize, on, iPos>>
      /\ \A c \in Blocks : Synced'[c] = Synced[c]
  BY SyncBlocks DEF sync
<1>2. SizesMatch' /\ SyncReachesStore'
  BY <1>1, AllStoredKept
<1>3. PositionsInside'
  BY <1>1 DEF PositionsInside, BytesInv
<1> QED BY <1>2, <1>3 DEF BytesInv

(* A stream that is made again is empty, and the others are as they were. *)
LEMMA RecreateBytes ==
  ASSUME TypeInv, BlockInv, BytesInv, NEW s \in Streams, Recreate(s)
  PROVE  BytesInv'
<1>1. /\ \A h \in Handles : on[h] # s
      /\ aBlocks' = [aBlocks EXCEPT ![s] = << >>]
      /\ iSize' = [iSize EXCEPT ![s] = 0] /\ file' = [file EXCEPT ![s] = << >>]
      /\ on' = on /\ iPos' = iPos /\ \A c \in Blocks : Synced'[c] = Synced[c]
  BY RecreateBlocks DEF Recreate
<1>2. /\ iSize'[s] = 0 /\ file'[s] = << >>
      /\ \A t \in Streams \ {s} : /\ aBlocks'[t] = aBlocks[t] /\ iSize'[t] = iSize[t]
                                  /\ file'[t] = file[t]
  BY <1>1 DEF TypeInv, TypeOK
<1>3. Len(file'[s]) = 0
  BY <1>2
<1>4. SizesMatch'
  BY <1>2, <1>3 DEF SizesMatch, BytesInv
<1>5. PositionsInside'
  <2>1. \A h \in Handles : on[h] # NONE => on[h] \in Streams \ {s}
    BY <1>1 DEF TypeInv, TypeOK
  <2> QED BY <1>1, <1>2, <2>1 DEF PositionsInside, BytesInv
<1>6. ASSUME NEW t \in Streams, NEW o \in 0..(Len(file'[t]) - 1)
      PROVE  file'[t][o + 1] \in
               {ANY, Synced'[aBlocks'[t][o \div BlockSize + 1]][o % BlockSize]}
  <2>1. t # s
    BY <1>3
  <2>2. \A i \in 1..Len(aBlocks[t]) : aBlocks[t][i] \in Blocks
    BY DEF TypeInv, TypeOK
  <2> QED BY <1>1, <1>2, <2>1, <2>2, StoredKept
<1> QED BY <1>4, <1>5, <1>6 DEF BytesInv, SyncReachesStore

(* A new size keeps the bytes that are left. *)
LEMMA SetSizeBytes ==
  ASSUME StaleCuts = FALSE, TypeInv, BlockInv, BytesInv, NEW h \in Handles,
         NEW n \in 0..MaxSize, setSize(h, n)
  PROVE  BytesInv'
<1> DEFINE s == on[h]
<1>1. /\ s \in Streams /\ n \in Nat
      /\ iSize' = [iSize EXCEPT ![s] = n]
      /\ file' = [file EXCEPT ![s] = Resized(file[s], n)]
      /\ on' = on
  BY SetSizeEffect
<1>2. PICK z \in Nat : z <= n /\ iPos' = [iPos EXCEPT ![h] = z]
  BY SetSizeEffect
<1>3. \A c \in Blocks : Synced'[c] = Synced[c]
  BY SetSizeBlocks
<1>4. /\ \A t \in Streams : \A i \in 1..Len(aBlocks'[t]) :
           \/ i \in 1..Len(aBlocks[t]) /\ aBlocks'[t][i] = aBlocks[t][i]
           \/ t = s /\ i > Len(aBlocks[s]) /\ aBlocks'[t][i] \in FreeBlocks
      /\ \A t \in Streams \ {s} : aBlocks'[t] = aBlocks[t]
  BY SetSizeLists
<1>5. TypeInv'
  BY SetSizeTyped
<1>6. /\ file[s] \in Seq(Bytes \cup {ANY}) /\ iSize[s] = Len(file[s])
      /\ aBlocks[s] \in Seq(Blocks) /\ iSize[s] <= Len(aBlocks[s]) * BlockSize
      /\ iSize[s] \in Nat
  BY <1>1 DEF TypeInv, TypeOK, SizesHaveBlocks, BytesInv, SizesMatch
<1>7. /\ iSize'[s] = n /\ file'[s] = Resized(file[s], n)
      /\ \A t \in Streams \ {s} : iSize'[t] = iSize[t] /\ file'[t] = file[t]
  BY <1>1 DEF TypeInv, TypeOK
<1>8. /\ Len(file'[s]) = n
      /\ \A k \in 1..n : file'[s][k] = IF k <= Len(file[s]) THEN file[s][k] ELSE ANY
  <2> DEFINE f == file[s]
             g == file'[s]
  <2>1. f \in Seq(Bytes \cup {ANY}) /\ n \in Nat /\ g = Resized(f, n)
    BY <1>1, <1>6, <1>7
  <2> HIDE DEF f, g
  <2>2. Len(g) = n /\ \A k \in 1..n : g[k] = IF k <= Len(f) THEN f[k] ELSE ANY
    BY <2>1, ResizedIs
  <2> QED BY <2>2 DEF f, g
<1>9. /\ aBlocks'[s] \in Seq(Blocks) /\ n <= Len(aBlocks'[s]) * BlockSize
  BY <1>1, <1>5, <1>7 DEF TypeInv, TypeOK, SizesHaveBlocks
<1> HIDE DEF s
<1>10. SizesMatch'
  BY <1>7, <1>8 DEF BytesInv, SizesMatch
<1>11. PositionsInside'
  <2>1. iPos'[h] = z /\ \A g \in Handles \ {h} : iPos'[g] = iPos[g]
    BY <1>2 DEF TypeInv, TypeOK
  <2>2. \A g \in Handles \ {h} : on[g] # NONE => on[g] \in Streams \ {s}
    BY <1>1 DEF TypeInv, TypeOK, BlockInv, HandlesApart, s
  <2> QED BY <1>1, <1>2, <1>7, <2>1, <2>2 DEF PositionsInside, BytesInv, s
<1>12. ASSUME NEW o \in 0..(Len(file'[s]) - 1)
       PROVE  file'[s][o + 1] \in
                {ANY, Synced'[aBlocks'[s][o \div BlockSize + 1]][o % BlockSize]}
  <2>1. CASE o < Len(file[s])
    <3>1. o \in 0..(n - 1) /\ o \in 0..(Len(file[s]) - 1) /\ o \in 0..(iSize[s] - 1)
      BY <1>1, <1>6, <1>8, <2>1
    <3>2. o \div BlockSize + 1 \in 1..Len(aBlocks[s])
      BY <3>1, <1>6, OffsetPlaced
    <3>3. o \div BlockSize + 1 \in 1..Len(aBlocks'[s])
      BY <3>1, <1>1, <1>9, OffsetPlaced
    <3>4. aBlocks'[s][o \div BlockSize + 1] = aBlocks[s][o \div BlockSize + 1]
      <4> DEFINE i == o \div BlockSize + 1
      <4>1. i \in 1..Len(aBlocks[s]) /\ i \in 1..Len(aBlocks'[s])
        BY <3>2, <3>3
      <4> HIDE DEF i
      <4>2. Len(aBlocks[s]) \in Nat
        BY <1>6
      <4>3. ~ (i > Len(aBlocks[s]))
        BY <4>1, <4>2
      <4>4. aBlocks'[s][i] = aBlocks[s][i]
        BY <1>1, <1>4, <4>1, <4>3
      <4> QED BY <4>4 DEF i
    <3>5. aBlocks[s][o \div BlockSize + 1] \in Blocks
      BY <3>1, <1>6, OffsetPlaced
    <3>6. file'[s][o + 1] = file[s][o + 1]
      BY <3>1, <1>1, <1>6, <1>8
    <3>7. file[s][o + 1] \in
            {ANY, Synced[aBlocks[s][o \div BlockSize + 1]][o % BlockSize]}
      BY <3>1, <1>1 DEF BytesInv, SyncReachesStore
    <3> QED BY <1>3, <3>4, <3>5, <3>6, <3>7
  <2>2. CASE ~ (o < Len(file[s]))
    <3>1. o + 1 \in 1..n /\ ~ (o + 1 <= Len(file[s]))
      BY <1>1, <1>6, <1>8, <2>2
    <3> QED BY <3>1, <1>8
  <2> QED BY <2>1, <2>2
<1>13. ASSUME NEW t \in Streams \ {s}, NEW o \in 0..(Len(file'[t]) - 1)
       PROVE  file'[t][o + 1] \in
                {ANY, Synced'[aBlocks'[t][o \div BlockSize + 1]][o % BlockSize]}
  <2>1. \A i \in 1..Len(aBlocks[t]) : aBlocks[t][i] \in Blocks
    BY DEF TypeInv, TypeOK
  <2> QED BY <1>3, <1>4, <1>7, <2>1, StoredKept
<1>14. SyncReachesStore'
  BY <1>12, <1>13 DEF SyncReachesStore
<1> QED BY <1>10, <1>11, <1>14 DEF BytesInv

(* Sizes and positions after a pass of write, inside the stream or at its  *)
(* end.                                                                    *)
LEMMA WriteSizes ==
  ASSUME TypeInv, BlockInv, BytesInv, NEW h \in Handles, NEW n \in 1..BlockSize,
         NEW v \in Bytes, write(h, n, v)
  PROVE  /\ PositionsInside' /\ SizesMatch'
         /\ \A t \in Streams \ {on[h]} : file'[t] = file[t]
         /\ Len(file'[on[h]]) \in Nat /\ Len(file'[on[h]]) = iSize'[on[h]]
         /\ \A o \in 0..(Len(file'[on[h]]) - 1) :
              file'[on[h]][o + 1] =
                IF iPos[h] <= o /\ o < iPos[h] + n THEN v ELSE file[on[h]][o + 1]
         /\ \A o \in 0..(Len(file'[on[h]]) - 1) :
              ~ (iPos[h] <= o /\ o < iPos[h] + n) => o < Len(file[on[h]])
<1> DEFINE s == on[h]
           pos == iPos[h]
           z == IF pos < iSize[s] THEN iSize[s] ELSE iSize[s] + n
<1>1. /\ s \in Streams /\ s # NONE /\ n \in Nat \ {0} /\ on' = on
      /\ iSize' = [iSize EXCEPT ![s] = z]
      /\ iPos' = [iPos EXCEPT ![h] = pos + n]
      /\ file' = [file EXCEPT ![s] = Overwritten(file[s], pos, n, v)]
      /\ pos < iSize[s] => n <= iSize[s] - pos
  BY SizesAssumption DEF write, TypeInv, TypeOK
<1>2. /\ file[s] \in Seq(Bytes \cup {ANY}) /\ iSize[s] = Len(file[s])
      /\ iSize[s] \in Nat /\ pos \in Nat /\ pos <= iSize[s] /\ Len(file[s]) \in Nat
  BY <1>1 DEF TypeInv, TypeOK, BytesInv, SizesMatch, PositionsInside
<1>3. /\ iSize'[s] = z /\ file'[s] = Overwritten(file[s], pos, n, v)
      /\ iPos'[h] = pos + n
      /\ \A t \in Streams \ {s} : iSize'[t] = iSize[t] /\ file'[t] = file[t]
      /\ \A g \in Handles \ {h} : iPos'[g] = iPos[g]
  BY <1>1 DEF TypeInv, TypeOK
<1>4. /\ Len(file'[s]) = IF Len(file[s]) >= pos + n THEN Len(file[s]) ELSE pos + n
      /\ \A k \in 1..Len(file'[s]) :
           file'[s][k] = IF k > pos /\ k <= pos + n THEN v
                         ELSE IF k <= Len(file[s]) THEN file[s][k] ELSE ANY
  <2> DEFINE f == file[s]
             g == file'[s]
  <2>1. /\ f \in Seq(Bytes \cup {ANY}) /\ n \in Nat /\ pos \in Nat /\ v \in Bytes
        /\ g = Overwritten(f, pos, n, v)
    BY <1>1, <1>2, <1>3
  <2> HIDE DEF f, g, pos
  <2>2. /\ Len(g) = IF Len(f) >= pos + n THEN Len(f) ELSE pos + n
        /\ \A k \in 1..Len(g) :
             g[k] = IF k > pos /\ k <= pos + n THEN v
                    ELSE IF k <= Len(f) THEN f[k] ELSE ANY
    BY <2>1, OverwrittenIs
  <2> QED BY <2>2 DEF f, g, pos
<1>5. z \in Nat /\ Len(file'[s]) = z /\ pos + n <= z
  BY <1>1, <1>2, <1>4
<1>6. \A o \in 0..(z - 1) : ~ (pos <= o /\ o < pos + n) => o < Len(file[s])
  BY <1>1, <1>2
<1> HIDE DEF s, pos, z
<1>7. SizesMatch'
  BY <1>3, <1>5 DEF SizesMatch, BytesInv
<1>8. PositionsInside'
  <2>1. \A g \in Handles \ {h} : on[g] # NONE => on[g] \in Streams \ {s}
    BY <1>1 DEF TypeInv, TypeOK, BlockInv, HandlesApart, s
  <2>2. ASSUME NEW g \in Handles, on[g] # NONE
        PROVE  iPos'[g] <= iSize'[on[g]]
    <3>1. CASE g = h
      BY <3>1, <1>3, <1>5 DEF s
    <3>2. CASE g # h
      BY <2>1, <2>2, <3>2, <1>3 DEF PositionsInside, BytesInv
    <3> QED BY <3>1, <3>2
  <2> QED BY <1>1, <2>2 DEF PositionsInside
<1>9. ASSUME NEW o \in 0..(z - 1)
      PROVE  file'[s][o + 1] = IF pos <= o /\ o < pos + n THEN v ELSE file[s][o + 1]
  <2>1. o \in Nat /\ o + 1 \in 1..z
    BY <1>5
  <2>2. file'[s][o + 1] = IF o + 1 > pos /\ o + 1 <= pos + n THEN v
                          ELSE IF o + 1 <= Len(file[s]) THEN file[s][o + 1] ELSE ANY
    BY <1>4, <1>5, <2>1
  <2>3. (o + 1 > pos /\ o + 1 <= pos + n) <=> (pos <= o /\ o < pos + n)
    BY <1>1, <1>2, <2>1
  <2>4. (o < Len(file[s])) <=> (o + 1 <= Len(file[s]))
    BY <1>2, <2>1
  <2> QED BY <1>6, <2>2, <2>3, <2>4
<1> QED BY <1>3, <1>5, <1>6, <1>7, <1>8, <1>9 DEF s, pos

(* A pass of write leaves the bytes written in their block, and all others *)
(* where they were.                                                        *)
LEMMA WriteBytes ==
  ASSUME TypeInv, BlockInv, BytesInv, NEW h \in Handles, NEW n \in 1..BlockSize,
         NEW v \in Bytes, write(h, n, v)
  PROVE  BytesInv'
<1> DEFINE s == on[h]
           pos == iPos[h]
           p == pos \div BlockSize
           r == pos % BlockSize
<1>1. PICK b \in Blocks :
        /\ s \in Streams
        /\ BlockForWrite(s, pos, b)
        /\ Synced'[b] = Filled(Synced[b], r, n, v)
        /\ \A c \in Blocks \ {b} : Synced'[c] = Synced[c]
  BY WriteBlocks
<1>2. TypeInv' /\ BlockInv'
  BY WriteTyped, WriteBlocks
<1>3. /\ PositionsInside' /\ SizesMatch'
      /\ \A t \in Streams \ {s} : file'[t] = file[t]
      /\ Len(file'[s]) \in Nat /\ Len(file'[s]) = iSize'[s]
      /\ \A o \in 0..(Len(file'[s]) - 1) :
           file'[s][o + 1] = IF pos <= o /\ o < pos + n THEN v ELSE file[s][o + 1]
      /\ \A o \in 0..(Len(file'[s]) - 1) :
           ~ (pos <= o /\ o < pos + n) => o < Len(file[s])
  BY WriteSizes
<1>4. /\ pos \in Nat /\ n \in Nat \ {0} /\ BlockSize \in Nat \ {0}
      /\ n <= BlockSize - r
  BY SizesAssumption DEF TypeInv, TypeOK, write
<1>5. p \in Nat /\ r \in 0..(BlockSize - 1) /\ pos = BlockSize * p + r
  BY <1>4, DivMod
<1>6. /\ \A t \in Streams \ {s} : aBlocks'[t] = aBlocks[t]
      /\ \/ p < Len(aBlocks[s]) /\ b = aBlocks[s][p + 1] /\ aBlocks' = aBlocks
         \/ /\ Len(aBlocks[s]) <= p /\ b \in FreeBlocks
            /\ aBlocks'[s] = Append(aBlocks[s], b)
            /\ Len(aBlocks'[s]) = Len(aBlocks[s]) + 1
  BY <1>1, <1>4, BlockPlaced DEF TypeInv
<1>7. /\ aBlocks[s] \in Seq(Blocks) /\ aBlocks'[s] \in Seq(Blocks)
      /\ iSize[s] \in Nat /\ iSize'[s] \in Nat
      /\ iSize[s] = Len(file[s])
      /\ iSize[s] <= Len(aBlocks[s]) * BlockSize
      /\ iSize'[s] <= Len(aBlocks'[s]) * BlockSize
  BY <1>1, <1>2 DEF TypeInv, TypeOK, SizesHaveBlocks, BytesInv, SizesMatch
<1> HIDE DEF s, pos
<1>8. ASSUME NEW o \in 0..(Len(file'[s]) - 1), pos <= o, o < pos + n
      PROVE  file'[s][o + 1] = Synced'[aBlocks'[s][o \div BlockSize + 1]][o % BlockSize]
  <2>1. o \in Nat
    OBVIOUS
  <2>2. o \div BlockSize = p /\ o % BlockSize = r + (o - pos)
    BY <1>4, <1>8, <2>1, SameBlock
  <2>3. o \in 0..(iSize'[s] - 1)
    BY <1>3
  <2>4. o \div BlockSize + 1 \in 1..Len(aBlocks'[s]) /\ o % BlockSize \in Offsets
    BY <1>7, <2>3, OffsetPlaced
  <2>5. aBlocks'[s][p + 1] = b
    <3>1. CASE p < Len(aBlocks[s]) /\ b = aBlocks[s][p + 1] /\ aBlocks' = aBlocks
      BY <3>1
    <3>2. CASE /\ Len(aBlocks[s]) <= p
               /\ aBlocks'[s] = Append(aBlocks[s], b)
               /\ Len(aBlocks'[s]) = Len(aBlocks[s]) + 1
      <4> HIDE DEF p
      <4>1. p + 1 \in 1..Len(aBlocks'[s]) /\ Len(aBlocks[s]) \in Nat
        BY <2>2, <2>4, <1>7
      <4>2. p = Len(aBlocks[s])
        BY <4>1, <3>2, <1>5
      <4> QED BY <4>2, <3>2, <1>7
    <3> QED BY <1>6, <3>1, <3>2
  <2>6. Synced'[b][o % BlockSize] = v
    <3> DEFINE m == o % BlockSize
    <3>1. m \in Offsets /\ m = r + (o - pos)
      BY <2>2, <2>4
    <3> HIDE DEF m, r
    <3>2. m >= r /\ m < r + n
      BY <3>1, <1>4, <1>5, <1>8, <2>1
    <3>3. Filled(Synced[b], r, n, v)[m] = v
      BY <3>1, <3>2 DEF Filled
    <3> QED BY <3>3, <1>1 DEF m
  <2>7. file'[s][o + 1] = v
    BY <1>3, <1>8
  <2> QED BY <2>2, <2>5, <2>6, <2>7
<1>9. ASSUME NEW o \in 0..(Len(file'[s]) - 1), ~ (pos <= o /\ o < pos + n)
      PROVE  file'[s][o + 1] \in
               {ANY, Synced'[aBlocks'[s][o \div BlockSize + 1]][o % BlockSize]}
  <2> DEFINE d == o \div BlockSize
             m == o % BlockSize
             c == aBlocks[s][d + 1]
  <2>1. o \in Nat /\ o < Len(file[s]) /\ file'[s][o + 1] = file[s][o + 1]
    BY <1>3, <1>9
  <2>2. o \in 0..(Len(file[s]) - 1) /\ o \in 0..(iSize[s] - 1) /\ o \in 0..(iSize'[s] - 1)
    BY <2>1, <1>3, <1>7
  <2>3. file[s][o + 1] \in {ANY, Synced[c][m]}
    BY <1>1, <2>2 DEF BytesInv, SyncReachesStore
  <2>4. d \in Nat /\ d + 1 \in 1..Len(aBlocks[s]) /\ c \in Blocks /\ m \in Offsets
    BY <1>7, <2>2, OffsetPlaced
  <2>5. d + 1 \in 1..Len(aBlocks'[s])
    BY <1>7, <2>2, OffsetPlaced
  <2>6. aBlocks'[s][d + 1] = c
    <3>1. CASE aBlocks' = aBlocks
      BY <3>1
    <3>2. CASE aBlocks'[s] = Append(aBlocks[s], b)
      <4> HIDE DEF d
      <4>1. Append(aBlocks[s], b)[d + 1] = aBlocks[s][d + 1]
        BY <2>4, <1>7
      <4> QED BY <4>1, <3>2
    <3> QED BY <1>6, <3>1, <3>2
  <2>7. o = BlockSize * d + m
    BY <2>1, <1>4, DivMod
  <2>8. Synced'[c][m] = Synced[c][m]
    <3>1. CASE c # b
      BY <3>1, <1>1, <2>4
    <3>2. CASE c = b
      <4>1. CASE p < Len(aBlocks[s]) /\ b = aBlocks[s][p + 1]
        <5> HIDE DEF d, p
        <5>1. p + 1 \in 1..Len(aBlocks[s]) /\ aBlocks[s][p + 1] = aBlocks[s][d + 1]
          BY <4>1, <3>2, <1>5, <1>7
        <5>2. p + 1 = d + 1
          BY <5>1, <2>4, <1>1 DEF BlockInv, BlocksApart
        <5>3. d = p
          BY <5>2, <2>4, <1>5
        <5> HIDE DEF m, r
        <5>4. o - pos = m - r /\ m \in Nat /\ r \in Nat
          <6>1. BlockSize * d = BlockSize * p /\ BlockSize * p \in Nat
            BY <5>3, <1>4, <1>5
          <6> QED BY <6>1, <2>4, <2>7, <1>5 DEF Offsets
        <5>5. ~ (m >= r /\ m < r + n)
          BY <5>4, <1>9, <1>4, <2>1
        <5>6. Filled(Synced[b], r, n, v)[m] = Synced[b][m]
          BY <5>5, <2>4 DEF Filled
        <5> QED BY <5>6, <3>2, <1>1
      <4>2. CASE b \in FreeBlocks
        <5>1. d + 1 \in DOMAIN aBlocks[s]
          BY <2>4, <1>7
        <5> QED BY <3>2, <4>2, <5>1, <1>1, FreeInNone
      <4> QED BY <1>6, <4>1, <4>2
    <3> QED BY <3>1, <3>2
  <2> QED BY <2>1, <2>3, <2>6, <2>8
<1>10. ASSUME NEW t \in Streams \ {s}, NEW o \in 0..(Len(file'[t]) - 1)
       PROVE  file'[t][o + 1] \in
                {ANY, Synced'[aBlocks'[t][o \div BlockSize + 1]][o % BlockSize]}
  <2>1. ASSUME NEW i \in 1..Len(aBlocks[t])
        PROVE  Synced'[aBlocks[t][i]] = Synced[aBlocks[t][i]]
    <3>1. aBlocks[t][i] \in Blocks /\ i \in DOMAIN aBlocks[t]
      BY DEF TypeInv, TypeOK
    <3>2. aBlocks[t][i] # b
      <4>1. CASE b \in FreeBlocks
        BY <3>1, <4>1, FreeInNone
      <4>2. CASE p < Len(aBlocks[s]) /\ b = aBlocks[s][p + 1]
        <5> HIDE DEF p
        <5>1. p + 1 \in 1..Len(aBlocks[s])
          BY <4>2, <1>5, <1>7
        <5> QED BY <4>2, <5>1, <1>1 DEF BlockInv, BlocksApart
      <4> QED BY <1>6, <4>1, <4>2
    <3> QED BY <3>1, <3>2, <1>1
  <2> QED BY <1>3, <1>6, <2>1, StoredKept
<1>11. SyncReachesStore'
  <2> SUFFICES ASSUME NEW t \in Streams, NEW o \in 0..(Len(file'[t]) - 1)
               PROVE  file'[t][o + 1] \in
                        {ANY, Synced'[aBlocks'[t][o \div BlockSize + 1]][o % BlockSize]}
    BY DEF SyncReachesStore
  <2>1. CASE t = s
    BY <2>1, <1>8, <1>9
  <2>2. CASE t # s
    BY <2>2, <1>10
  <2> QED BY <2>1, <2>2
<1> QED BY <1>3, <1>11 DEF BytesInv

(* Every step of careful callers keeps the bytes. *)
LEMMA BytesInvStep ==
  ASSUME StaleCuts = FALSE, Gaps = FALSE, TypeInv, BlockInv, BytesInv, [Next]_vars
  PROVE  BytesInv'
<1>1. CASE Next
  <2>1. ASSUME NEW h \in Handles,
               \/ \E s \in Streams : openStream(h, s)
               \/ Destroy(h)
               \/ \E pos \in 0..MaxSize : setPos(h, pos)
               \/ \E n \in 1..BlockSize : read(h, n)
               \/ \E n \in 1..BlockSize, v \in Bytes : write(h, n, v)
               \/ \E n \in 0..MaxSize : setSize(h, n)
        PROVE  BytesInv'
    BY <2>1, OpenBytes, DestroyBytes, ReadBytes, WriteBytes, SetSizeBytes
  <2> QED BY <1>1, <2>1, RecreateBytes, SyncBytes DEF Next
<1>2. CASE UNCHANGED vars
  <2>1. UNCHANGED <<aBlocks, file, iSize, on, iPos, hActiveBlocks, pCurBlock, store>>
    BY <1>2 DEF vars
  <2>2. Synced' = Synced
    BY <2>1 DEF Synced
  <2>3. SizesMatch' /\ SyncReachesStore'
    BY <2>1, <2>2, AllStoredKept
  <2>4. PositionsInside'
    BY <2>1 DEF BytesInv, PositionsInside
  <2> QED BY <2>3, <2>4 DEF BytesInv
<1> QED BY <1>1, <1>2

LEMMA BytesInvariant ==
  ASSUME StaleCuts = FALSE, Gaps = FALSE
  PROVE  Spec => [](TypeInv /\ BlockInv /\ BytesInv)
<1>1. Init => TypeInv /\ BlockInv /\ BytesInv
  BY InitTypeInv, InitBlockInv, InitBytesInv
<1>2. TypeInv /\ BlockInv /\ BytesInv /\ [Next]_vars
        => TypeInv' /\ BlockInv' /\ BytesInv'
  BY TypeInvStep, BlockInvStep, BytesInvStep
<1> QED BY <1>1, <1>2, PTL DEF Spec

(* Myriad::sync at any time leaves in the store every byte that was        *)
(* written: it finds each changed block in hActiveBlocks, and no older     *)
(* copy of it in its stead.  Callers must not seek behind the end (the     *)
(* size then grows by less than the position) nor cut off the block that a *)
(* handle has in memory (another stream may get it while it is there).     *)
THEOREM SyncIsComplete ==
  ASSUME StaleCuts = FALSE, Gaps = FALSE
  PROVE  Spec => []SyncReachesStore
<1>1. BytesInv => SyncReachesStore
  BY DEF BytesInv
<1> QED BY <1>1, BytesInvariant, PTL

(* Every stream reads back what was written to it, byte for byte, through  *)
(* moves between blocks, syncs, destroyed handles and blocks used again.   *)
THEOREM StreamsReadBack ==
  ASSUME StaleCuts = FALSE, Gaps = FALSE
  PROVE  Spec => []ReadsBack
<1>1. ASSUME TypeInv, BlockInv, BytesInv, NEW s \in Streams,
             NEW o \in 0..(Len(file[s]) - 1)
      PROVE  ByteAt(s, o) = Synced[aBlocks[s][o \div BlockSize + 1]][o % BlockSize]
  <2> DEFINE i == o \div BlockSize + 1
             b == aBlocks[s][i]
             m == o % BlockSize
             cached == {h \in Handles : /\ on[h] = s /\ pCurBlock[h] # NONE
                                        /\ pCurBlock[h].iBlockIndex = b}
  <2>1. i \in 1..Len(aBlocks[s]) /\ b \in Blocks
    <3>1. o \in 0..(iSize[s] - 1)
      BY <1>1 DEF BytesInv, SizesMatch
    <3>2. /\ aBlocks[s] \in Seq(Blocks) /\ iSize[s] \in Nat
          /\ iSize[s] <= Len(aBlocks[s]) * BlockSize
      BY <1>1 DEF TypeInv, TypeOK, SizesHaveBlocks
    <3> QED BY <3>1, <3>2, OffsetPlaced
  <2>2. /\ \A h \in Handles : pCurBlock[h] # NONE =>
             Synced[pCurBlock[h].iBlockIndex] = pCurBlock[h].pData
        /\ (\A h \in Handles : pCurBlock[h] # NONE => pCurBlock[h].iBlockIndex # b)
             => Synced[b] = store[b]
    <3>1. Sound(hActiveBlocks, pCurBlock, store)
      BY <1>1, SoundNow DEF BlockInv
    <3> QED BY <3>1, <2>1, SyncedIs, SyncedUnprimed
  <2>3. ByteAt(s, o) = IF cached = {} THEN store[b][m]
                       ELSE pCurBlock[CHOOSE h \in cached : TRUE].pData[m]
    BY DEF ByteAt
  <2> HIDE DEF i, m
  <2>4. \A h \in Handles : pCurBlock[h] # NONE /\ pCurBlock[h].iBlockIndex = b => on[h] = s
    <3> SUFFICES ASSUME NEW h \in Handles, pCurBlock[h] # NONE,
                        pCurBlock[h].iBlockIndex = b
                 PROVE  on[h] = s
      OBVIOUS
    <3>1. on[h] \in Streams
      BY <1>1 DEF BlockInv, HeldAreOwn, TypeInv, TypeOK
    <3>2. PICK j \in 1..Len(aBlocks[on[h]]) : aBlocks[on[h]][j] = aBlocks[s][i]
      BY <1>1 DEF BlockInv, HeldAreOwn
    <3> QED BY <3>1, <3>2, <2>1, <1>1 DEF BlockInv, BlocksApart
  <2>5. CASE cached = {}
    <3>1. \A h \in Handles : pCurBlock[h] # NONE => pCurBlock[h].iBlockIndex # b
      BY <2>4, <2>5
    <3> QED BY <3>1, <2>2, <2>3, <2>5 DEF i, m
  <2>6. CASE cached # {}
    <3>1. (CHOOSE h \in cached : TRUE) \in cached
      BY <2>6
    <3>2. PICK h \in cached : h = CHOOSE x \in cached : TRUE
      BY <3>1
    <3>3. ByteAt(s, o) = pCurBlock[h].pData[m]
      BY <2>3, <2>6, <3>2
    <3>4. Synced[b] = pCurBlock[h].pData
      BY <2>2, <3>2
    <3> QED BY <3>3, <3>4 DEF i, m
  <2> QED BY <2>5, <2>6
<1>2. TypeInv /\ BlockInv /\ BytesInv => ReadsBack
  <2> SUFFICES ASSUME TypeInv, BlockInv, BytesInv PROVE ReadsBack
    OBVIOUS
  <2>1. \A s \in Streams : iSize[s] = Len(file[s])
    BY DEF BytesInv, SizesMatch
  <2>2. ASSUME NEW s \in Streams, NEW o \in 0..(Len(file[s]) - 1)
        PROVE  file[s][o + 1] \in {ANY, ByteAt(s, o)}
    BY <1>1 DEF BytesInv, SyncReachesStore
  <2> QED BY <2>1, <2>2 DEF ReadsBack
<1> QED BY <1>2, BytesInvariant, PTL
=============================================================================
