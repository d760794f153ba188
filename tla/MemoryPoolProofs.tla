--------------------------- MODULE MemoryPoolProofs ---------------------------
(***************************************************************************)
(* Proofs about MemoryPool, for any size of the pool, any requests and any *)
(* number of blocks and chunks.                                            *)
(***************************************************************************)
EXTENDS MemoryPool, SequenceTheorems, NatLemmas

BlockRecord == [last : Nat, end : Nat, failed : Nat]

(* The inductive invariant.  Each block has given out what lies below last, *)
(* and rounding up does not pass an end that is aligned.                    *)
EndInv(bs, b) ==
  /\ bs[b].last >= Start(b) /\ bs[b].end >= Start(b)
  /\ bs[b].end % Alignment = 0 => bs[b].last <= bs[b].end

BlockInv ==
  /\ blocks[1].end = Start(1) + PoolSize
  /\ \A b \in 1 .. Len(blocks) : EndInv(blocks, b)

PieceInv ==
  \A r \in pieces : r.from < r.to /\ r.to <= blocks[r.block].last

IInv == TypeOK /\ BlockInv /\ PieceInv /\ PiecesApart /\ HeapOwned /\ LargeListBounded

-----------------------------------------------------------------------------
(***************************************************************************)
(* The helpers of the pool.                                                *)
(***************************************************************************)
LEMMA Constants ==
  /\ PoolSize \in Nat \ {0, 1} /\ Sizes \subseteq Nat \ {0}
  /\ Probes \in Nat /\ Null \notin Chunks /\ MaxFromPool \in Nat \ {0, 1}
  /\ Limit \in Nat \ {0} /\ Limit <= PoolSize
BY MemoryPoolAssumption DEF Limit

(* mp_align_ptr goes up, by less than the alignment. *)
LEMMA AlignUp ==
  ASSUME NEW n \in Nat
  PROVE  Align(n) \in Nat /\ Align(n) >= n /\ Align(n) <= n + 3 /\ Align(n) % 4 = 0
<1> DEFINE q == (n + 3) \div 4
           r == (n + 3) % 4
<1>1. n + 3 = q * 4 + r /\ r \in 0 .. 3 /\ q \in Nat
  BY Division
<1>2. Align(n) = n + 3 - r
  BY DEF Align, Alignment
<1> HIDE DEF q, r
<1>3. Align(n) = q * 4
  BY <1>1, <1>2
<1>4. (q * 4) % 4 = 0
  BY <1>1, MultipleMod
<1> QED
  BY <1>1, <1>2, <1>3, <1>4

LEMMA AlignBelow ==
  ASSUME NEW n \in Nat, NEW e \in Nat, n <= e, e % 4 = 0
  PROVE  Align(n) <= e
<1> DEFINE up == Align(n)
           q  == up \div 4
           k  == e \div 4
<1>1. up \in Nat /\ up <= n + 3 /\ up % 4 = 0
  BY AlignUp
<1> HIDE DEF up
<1>2. up = q * 4 + 0 /\ q \in Nat
  BY <1>1, Division
<1>3. e = k * 4 + 0 /\ k \in Nat
  BY Division
<1> HIDE DEF q, k
<1>4. q * 4 <= k * 4 + 3
  BY <1>1, <1>2, <1>3
<1>5. q <= k
  BY <1>2, <1>3, <1>4
<1> QED
  BY <1>2, <1>3, <1>5 DEF up

(* The space behind the node of a new block is aligned. *)
LEMMA AlignNode == Align(SmallNode) = SmallNode
BY DEF Align, SmallNode, Alignment

LEMMA StartType ==
  /\ Start(1) = 7
  /\ \A b \in Nat : Start(b) \in Nat /\ (b # 1 => Start(b) = 4)
BY DEF Start, Header, PoolNode, SmallNode

LEMMA BlockType ==
  ASSUME TypeOK, NEW b \in 1 .. Len(blocks)
  PROVE  blocks[b].last \in Nat /\ blocks[b].end \in Nat /\ blocks[b].failed \in Nat
<1>1. blocks[b] \in BlockRecord
  BY ElementOfSeq DEF TypeOK, BlockRecord
<1> QED
  BY <1>1 DEF BlockRecord

LEMMA FromType ==
  ASSUME TypeOK, NEW b \in 1 .. Len(blocks), NEW aligned \in BOOLEAN
  PROVE  From(b, aligned) \in Nat /\ From(b, aligned) >= blocks[b].last
<1>1. blocks[b].last \in Nat
  BY BlockType
<1>2. Align(blocks[b].last) \in Nat /\ Align(blocks[b].last) >= blocks[b].last
  BY <1>1, AlignUp
<1> QED
  BY <1>1, <1>2 DEF From

(* The block that is found, and what a piece cut off it is. *)
LEMMA Found ==
  ASSUME TypeOK, BlockInv, NEW size \in Nat \ {0}, NEW aligned \in BOOLEAN,
         Candidates(size, aligned) # {}
  PROVE  LET b == Min(Candidates(size, aligned)) IN
           /\ b \in 1 .. Len(blocks)
           /\ blocks[b].end % Alignment = 0 => From(b, aligned) + size <= blocks[b].end
<1> DEFINE b == Min(Candidates(size, aligned))
<1>1. Len(blocks) \in Nat /\ current \in 1 .. Len(blocks)
  BY LenProperties DEF TypeOK
<1>2. Candidates(size, aligned) \in SUBSET Nat
  BY <1>1 DEF Candidates
<1>3. b \in Candidates(size, aligned)
  BY <1>2, MinProperty
<1> HIDE DEF b
<1>4. b \in 1 .. Len(blocks) /\ Fits(b, size, aligned)
  BY <1>1, <1>3 DEF Candidates
<1>5. From(b, aligned) \in Nat /\ blocks[b].end \in Nat
  BY <1>4, FromType, BlockType
<1>6. ASSUME blocks[b].end % Alignment = 0
      PROVE  From(b, aligned) + size <= blocks[b].end
  <2>1. blocks[b].last \in Nat /\ blocks[b].last <= blocks[b].end
    BY <1>4, <1>6, BlockType DEF BlockInv, EndInv
  <2>2. Align(blocks[b].last) <= blocks[b].end
    BY <1>5, <1>6, <2>1, AlignBelow DEF Alignment
  <2>3. From(b, aligned) <= blocks[b].end
    BY <2>1, <2>2 DEF From
  <2> QED
    BY <1>4, <1>5, <2>3 DEF Fits
<1> QED
  BY <1>4, <1>6 DEF b

-----------------------------------------------------------------------------
(***************************************************************************)
(* Cutting a piece off a block, or off a new one.                          *)
(***************************************************************************)
(* What one more piece r of block b needs to keep the pieces in order.     *)
Fresh(r) ==
  /\ r \in [block : 1 .. Len(blocks'), from : Nat, to : Nat, known : BOOLEAN]
  /\ Start(r.block) <= r.from /\ r.from < r.to
  /\ blocks'[r.block].end % Alignment = 0 => r.to <= blocks'[r.block].end
  /\ r.to <= blocks'[r.block].last
  /\ \A s \in pieces : s.block = r.block => s.to <= r.from

(* The blocks as far as the pieces depend on them. *)
Grown ==
  /\ Len(blocks) <= Len(blocks')
  /\ blocks' \in Seq(BlockRecord)
  /\ \A b \in 1 .. Len(blocks) : /\ blocks'[b].end = blocks[b].end
                                 /\ blocks'[b].last >= blocks[b].last
  /\ \A b \in 1 .. Len(blocks') : EndInv(blocks', b)

LEMMA OneMore ==
  ASSUME TypeOK, BlockInv, PieceInv, PiecesApart, Grown,
         NEW r, Fresh(r), pieces' = pieces \cup {r}
  PROVE  /\ pieces' \subseteq [block : 1 .. Len(blocks'), from : Nat, to : Nat, known : BOOLEAN]
         /\ BlockInv' /\ PieceInv' /\ PiecesApart'
<1>1. Len(blocks) \in Nat /\ Len(blocks') \in Nat /\ 1 \in 1 .. Len(blocks)
  BY LenProperties DEF TypeOK, Grown
<1>2. \A s \in pieces : /\ s.block \in 1 .. Len(blocks) /\ s.from \in Nat /\ s.to \in Nat
                        /\ s \in [block : 1 .. Len(blocks'), from : Nat, to : Nat, known : BOOLEAN]
  <2>1. pieces \subseteq [block : 1 .. Len(blocks), from : Nat, to : Nat, known : BOOLEAN]
    BY DEF TypeOK
  <2>2. 1 .. Len(blocks) \subseteq 1 .. Len(blocks')
    BY <1>1 DEF Grown
  <2> QED
    BY <2>1, <2>2
<1>3. pieces' \subseteq [block : 1 .. Len(blocks'), from : Nat, to : Nat, known : BOOLEAN]
  BY <1>2 DEF Fresh
<1>4. BlockInv'
  BY <1>1, StartType DEF BlockInv, Grown, EndInv
<1>5. \A b \in 1 .. Len(blocks) : blocks[b].last \in Nat /\ blocks'[b].last \in Nat
  <2>1. \A b \in 1 .. Len(blocks) : b \in 1 .. Len(blocks')
    BY <1>1 DEF Grown
  <2>2. \A b \in 1 .. Len(blocks') : blocks'[b] \in BlockRecord
    BY ElementOfSeq DEF Grown
  <2> QED
    BY <2>1, <2>2, BlockType DEF BlockRecord
<1>6. PieceInv'
  <2> SUFFICES ASSUME NEW s \in pieces' PROVE s.from < s.to /\ s.to <= blocks'[s.block].last
    BY DEF PieceInv
  <2>1. CASE s = r
    BY <2>1 DEF Fresh
  <2>2. CASE s \in pieces
    <3>1. s.to <= blocks[s.block].last /\ s.from < s.to
      BY <2>2 DEF PieceInv
    <3>2. blocks[s.block].last <= blocks'[s.block].last
      BY <1>2, <2>2 DEF Grown
    <3> QED
      BY <1>2, <1>5, <2>2, <3>1, <3>2
  <2> QED
    BY <2>1, <2>2
<1>7. PiecesApart'
  <2>1. ASSUME NEW s \in pieces'
        PROVE  /\ s.from >= Start(s.block)
               /\ blocks'[s.block].end % Alignment = 0 => s.to <= blocks'[s.block].end
    <3>1. CASE s = r
      BY <3>1, StartType, <1>1 DEF Fresh
    <3>2. CASE s \in pieces
      BY <1>2, <3>2 DEF PiecesApart, Grown
    <3> QED
      BY <2>1, <3>1, <3>2
  <2>2. ASSUME NEW s \in pieces', NEW w \in pieces', s # w, s.block = w.block
        PROVE  s.to <= w.from \/ w.to <= s.from
    <3>1. CASE s = r
      BY <2>2, <3>1 DEF Fresh
    <3>2. CASE w = r
      BY <2>2, <3>2 DEF Fresh
    <3>3. CASE s \in pieces /\ w \in pieces
      BY <2>2, <3>3 DEF PiecesApart
    <3> QED
      BY <3>1, <3>2, <3>3
  <2> QED
    BY <2>1, <2>2 DEF PiecesApart
<1> QED
  BY <1>3, <1>4, <1>6, <1>7

LEMMA TakeIsFresh ==
  ASSUME TypeOK, BlockInv, PieceInv, NEW size \in Nat \ {0}, NEW aligned \in BOOLEAN,
         TakeSpace(size, aligned)
  PROVE  /\ Len(blocks') = Len(blocks) /\ Grown
         /\ \E r : Fresh(r) /\ pieces' = pieces \cup {r}
<1> DEFINE b == Min(Candidates(size, aligned))
           m == From(b, aligned)
           r == Piece(b, m, size, TRUE)
<1>1. /\ b \in 1 .. Len(blocks)
      /\ blocks[b].end % Alignment = 0 => m + size <= blocks[b].end
  BY Found DEF TakeSpace
<1>2. blocks' = [blocks EXCEPT ![b].last = m + size] /\ pieces' = pieces \cup {r}
  BY DEF TakeSpace
<1> HIDE DEF b
<1>3. m \in Nat /\ m >= blocks[b].last
  BY <1>1, FromType
<1> HIDE DEF m
<1>4. blocks \in Seq(BlockRecord) /\ Len(blocks) \in Nat
  BY LenProperties DEF TypeOK, BlockRecord
<1>5. blocks[b] \in BlockRecord
  BY <1>1, <1>4, ElementOfSeq
<1>6. [blocks[b] EXCEPT !.last = m + size] \in BlockRecord
  BY <1>3, <1>5 DEF BlockRecord
<1>7. blocks' = [blocks EXCEPT ![b] = [blocks[b] EXCEPT !.last = m + size]]
  BY <1>2
<1>8. /\ blocks' \in Seq(BlockRecord) /\ Len(blocks') = Len(blocks)
      /\ \A i \in 1 .. Len(blocks) :
            blocks'[i] = IF i = b THEN [blocks[b] EXCEPT !.last = m + size] ELSE blocks[i]
  BY <1>1, <1>4, <1>6, <1>7, ExceptSeq
<1>9. blocks'[b].last = m + size /\ blocks'[b].end = blocks[b].end
  BY <1>1, <1>5, <1>8 DEF BlockRecord
<1>10. \A i \in 1 .. Len(blocks) : /\ blocks[i].last \in Nat /\ blocks[i].last >= Start(i)
                                   /\ EndInv(blocks, i)
  BY BlockType DEF BlockInv, EndInv
<1>11. Start(b) \in Nat /\ \A i \in 1 .. Len(blocks) : Start(i) \in Nat
  BY <1>1, <1>4, StartType
<1>12. ASSUME NEW i \in 1 .. Len(blocks)
       PROVE  /\ blocks'[i].end = blocks[i].end
              /\ blocks'[i].last >= blocks[i].last
              /\ EndInv(blocks', i)
  <2>1. CASE i = b
    BY <1>1, <1>3, <1>9, <1>10, <1>11, <2>1 DEF EndInv
  <2>2. CASE i # b
    BY <1>8, <1>10, <2>2 DEF EndInv
  <2> QED
    BY <2>1, <2>2
<1>13. Grown
  BY <1>4, <1>8, <1>12 DEF Grown
<1>14. Fresh(r)
  <2>0. r = [block |-> b, from |-> m, to |-> m + size, known |-> TRUE] /\ m + size \in Nat
    BY <1>3 DEF Piece
  <2> HIDE DEF r
  <2>1. /\ r = [block |-> b, from |-> m, to |-> m + size, known |-> TRUE] /\ m + size \in Nat
        /\ r.block = b /\ r.from = m /\ r.to = m + size
    BY <2>0
  <2>2. r \in [block : 1 .. Len(blocks'), from : Nat, to : Nat, known : BOOLEAN]
    BY <1>1, <1>3, <1>8, <2>1
  <2>3. Start(b) <= m /\ m < m + size
    BY <1>1, <1>3, <1>10, <1>11
  <2>4. blocks'[b].end % Alignment = 0 => m + size <= blocks'[b].end
    BY <1>1, <1>9
  <2>5. ASSUME NEW s \in pieces, s.block = b
        PROVE  s.to <= m
    <3>1. s.to <= blocks[b].last /\ s.to \in Nat
      BY <2>5 DEF PieceInv, TypeOK
    <3> QED
      BY <1>1, <1>3, <1>10, <3>1
  <2> QED
    BY <1>3, <1>9, <2>1, <2>2, <2>3, <2>4, <2>5 DEF Fresh
<1> QED
  BY <1>2, <1>8, <1>13, <1>14

(* The first piece of a new block lies behind its node and within the block, *)
(* since no small request is larger than the pool.                           *)
LEMMA NewIsFresh ==
  ASSUME TypeOK, BlockInv, PieceInv, NEW size \in Nat \ {0}, size <= Limit, NewBlock(size)
  PROVE  /\ Len(blocks') = Len(blocks) + 1 /\ Grown /\ current' \in 1 .. Len(blocks')
         /\ \E r : Fresh(r) /\ pieces' = pieces \cup {r}
<1> DEFINE old == [b \in 1 .. Len(blocks) |->
                     IF b \in Behind THEN [blocks[b] EXCEPT !.failed = @ + 1] ELSE blocks[b]]
           new == [last |-> 4 + size, end |-> BlockSize, failed |-> 0]
           r   == [block |-> Len(blocks) + 1, from |-> 4, to |-> 4 + size, known |-> FALSE]
<1>1. Len(blocks) \in Nat /\ Len(blocks) >= 1 /\ current \in 1 .. Len(blocks)
  BY LenProperties DEF TypeOK
<1>2. blocks' = Append(old, new) /\ pieces' = pieces \cup {r}
  BY AlignNode DEF NewBlock, Piece, SmallNode
<1>3. BlockSize = PoolSize + 4 /\ BlockSize \in Nat /\ 4 + size <= BlockSize
  <2>1. blocks[1].end = 7 + PoolSize
    BY StartType DEF BlockInv
  <2> QED
    BY <2>1, Constants DEF BlockSize, Header, PoolNode
<1>4. new \in BlockRecord /\ new.last = 4 + size /\ new.end = BlockSize
  BY <1>3 DEF BlockRecord
<1>5. ASSUME NEW b \in 1 .. Len(blocks)
      PROVE  old[b] \in BlockRecord /\ old[b].last = blocks[b].last /\ old[b].end = blocks[b].end
  <2>1. blocks[b] \in BlockRecord
    BY ElementOfSeq DEF TypeOK, BlockRecord
  <2>2. /\ [blocks[b] EXCEPT !.failed = @ + 1] \in BlockRecord
        /\ [blocks[b] EXCEPT !.failed = @ + 1].last = blocks[b].last
        /\ [blocks[b] EXCEPT !.failed = @ + 1].end = blocks[b].end
    BY <2>1 DEF BlockRecord
  <2> QED
    BY <2>1, <2>2
<1>6. old \in Seq(BlockRecord) /\ Len(old) = Len(blocks)
  <2>1. old \in [1 .. Len(blocks) -> BlockRecord]
    BY <1>5
  <2> QED
    BY <1>1, <2>1
<1> HIDE DEF old, new
<1>7. /\ blocks' \in Seq(BlockRecord) /\ Len(blocks') = Len(blocks) + 1
      /\ \A b \in 1 .. Len(blocks) : blocks'[b] = old[b]
      /\ blocks'[Len(blocks) + 1] = new
  BY <1>1, <1>2, <1>4, <1>6, AppendProperties
<1>8. \A b \in 1 .. Len(blocks) : /\ blocks'[b].end = blocks[b].end
                                  /\ blocks'[b].last = blocks[b].last
                                  /\ blocks[b].last \in Nat
                                  /\ EndInv(blocks', b)
  BY <1>5, <1>7, BlockType DEF BlockInv, EndInv
<1>9. EndInv(blocks', Len(blocks) + 1) /\ Start(Len(blocks) + 1) = 4
  BY <1>1, <1>3, <1>4, <1>7, StartType DEF EndInv
<1>10. Grown
  <2>1. \A b \in 1 .. Len(blocks') : b \in 1 .. Len(blocks) \/ b = Len(blocks) + 1
    BY <1>1, <1>7
  <2>2. \A b \in 1 .. Len(blocks') : EndInv(blocks', b)
    BY <1>8, <1>9, <2>1
  <2>3. \A b \in 1 .. Len(blocks) : blocks'[b].end = blocks[b].end /\ blocks'[b].last >= blocks[b].last
    BY <1>8
  <2> QED
    BY <1>1, <1>7, <2>2, <2>3 DEF Grown
<1>11. Fresh(r)
  <2>1. r \in [block : 1 .. Len(blocks'), from : Nat, to : Nat, known : BOOLEAN]
    BY <1>1, <1>7
  <2>2. \A w \in pieces : w.block # Len(blocks) + 1
    BY <1>1 DEF TypeOK
  <2> QED
    BY <1>3, <1>4, <1>7, <1>9, <2>1, <2>2 DEF Fresh
<1>12. current' \in 1 .. Len(blocks')
  <2>1. CASE Worn = {}
    BY <1>1, <1>7, <2>1 DEF NewBlock
  <2>2. CASE Worn # {}
    <3>1. Worn \in SUBSET (0 .. Len(blocks))
      BY <1>1 DEF Worn, Behind
    <3>2. Max(Worn) \in Worn
      BY <1>1, <2>2, <3>1, MaxProperty
    <3>3. Max(Worn) \in current .. Len(blocks) - 1
      BY <3>2 DEF Worn, Behind
    <3>4. current' = Max(Worn) + 1
      BY <2>2 DEF NewBlock
    <3> QED
      BY <1>1, <1>7, <3>3, <3>4
  <2> QED
    BY <2>1, <2>2
<1> QED
  BY <1>2, <1>7, <1>10, <1>11, <1>12

-----------------------------------------------------------------------------
(***************************************************************************)
(* The large list.                                                         *)
(***************************************************************************)
LEMMA LargeType ==
  ASSUME TypeOK
  PROVE  /\ Len(large) \in Nat /\ DOMAIN large = 1 .. Len(large)
         /\ \A k \in 1 .. Len(large) : large[k] \in Chunks \cup {Null}
         /\ Allocs \subseteq Chunks
<1>1. /\ Len(large) \in Nat /\ DOMAIN large = 1 .. Len(large)
      /\ \A k \in 1 .. Len(large) : large[k] \in Chunks \cup {Null}
  BY LenProperties, ElementOfSeq DEF TypeOK
<1> QED
  BY <1>1 DEF Allocs

(* The list in front of which a node is put. *)
LEMMA Pushed ==
  ASSUME TypeOK, NEW c \in Chunks
  PROVE  /\ <<c>> \o large \in Seq(Chunks \cup {Null})
         /\ Len(<<c>> \o large) = Len(large) + 1
         /\ (<<c>> \o large)[1] = c
         /\ \A k \in 1 .. Len(large) : (<<c>> \o large)[k + 1] = large[k]
<1>1. large \in Seq(Chunks \cup {Null}) /\ Len(large) \in Nat
  BY LenProperties DEF TypeOK
<1>2. <<c>> \in Seq(Chunks \cup {Null}) /\ Len(<<c>>) = 1 /\ <<c>>[1] = c
  OBVIOUS
<1>3. /\ <<c>> \o large \in Seq(Chunks \cup {Null})
      /\ Len(<<c>> \o large) = 1 + Len(large)
      /\ \A i \in 1 .. 1 + Len(large) :
            (<<c>> \o large)[i] = IF i <= 1 THEN <<c>>[i] ELSE large[i - 1]
  BY <1>1, <1>2, ConcatProperties
<1>4. (<<c>> \o large)[1] = c
  BY <1>1, <1>2, <1>3
<1>5. ASSUME NEW k \in 1 .. Len(large)
      PROVE  (<<c>> \o large)[k + 1] = large[k]
  <2>1. k + 1 \in 1 .. 1 + Len(large) /\ ~(k + 1 <= 1) /\ (k + 1) - 1 = k
    BY <1>1
  <2> QED
    BY <1>3, <2>1
<1> QED
  BY <1>1, <1>3, <1>4, <1>5

(* As many chunks as nodes, when no node is free. *)
LEMMA FullList ==
  ASSUME TypeOK, HeapOwned, state # "corrupt", \A k \in 1 .. Len(large) : large[k] # Null
  PROVE  Cardinality(heap) = Len(large)
<1>1. Len(large) \in Nat /\ heap = {large[k] : k \in 1 .. Len(large)}
  BY LargeType DEF HeapOwned, Allocs
<1>2. \A j, k \in 1 .. Len(large) : large[j] = large[k] => j = k
  BY DEF HeapOwned
<1>3. Len(large) \in Nat
  BY <1>1
<1> QED
  BY <1>1, <1>2, <1>3, EnumeratedOnce

LEMMA HeapFinite ==
  ASSUME TypeOK, HeapOwned, state # "corrupt"
  PROVE  IsFiniteSet(heap) /\ Cardinality(heap) \in Nat
<1>1. Len(large) \in Nat /\ heap \subseteq {large[k] : k \in 1 .. Len(large)}
  BY LargeType DEF HeapOwned, Allocs
<1>2. IsFiniteSet({large[k] : k \in 1 .. Len(large)})
  BY <1>1, Enumerated
<1> QED
  BY <1>1, <1>2, FS_Subset, FS_CardinalityType

-----------------------------------------------------------------------------
(***************************************************************************)
(* The calls.                                                              *)
(***************************************************************************)
(* The part of the invariant that is about space, and the part about chunks. *)
SpaceTypes ==
  /\ blocks \in Seq([last : Nat, end : Nat, failed : Nat])
  /\ current \in 1 .. Len(blocks)
  /\ wild \in BOOLEAN
  /\ pieces \subseteq [block : 1 .. Len(blocks), from : Nat, to : Nat, known : BOOLEAN]

SpaceInv == SpaceTypes /\ BlockInv /\ PieceInv /\ PiecesApart

ChunkTypes ==
  /\ large \in Seq(Chunks \cup {Null})
  /\ heap \subseteq Chunks
  /\ peak \in Nat

ChunkInv == ChunkTypes /\ HeapOwned /\ LargeListBounded

LEMMA Parts ==
  IInv <=> state \in {"live", "destroyed", "corrupt"} /\ SpaceInv /\ ChunkInv
BY DEF IInv, TypeOK, SpaceInv, SpaceTypes, ChunkInv, ChunkTypes

LEMMA SpaceSame ==
  ASSUME SpaceInv, UNCHANGED <<blocks, current, wild, pieces>>
  PROVE  SpaceInv'
<1>1. SpaceTypes'
  BY DEF SpaceInv, SpaceTypes
<1>2. BlockInv' /\ PieceInv'
  BY StartType DEF SpaceInv, BlockInv, PieceInv, EndInv
<1>3. PiecesApart'
  BY DEF SpaceInv, PiecesApart
<1> QED
  BY <1>1, <1>2, <1>3 DEF SpaceInv

LEMMA ChunksSame ==
  ASSUME ChunkInv, UNCHANGED <<large, heap, peak>>, state' # "corrupt" => state # "corrupt"
  PROVE  ChunkInv'
BY DEF ChunkInv, ChunkTypes, HeapOwned, LargeListBounded, Allocs

LEMMA SpaceTaken ==
  ASSUME IInv, NEW size \in Nat \ {0}, NEW aligned \in BOOLEAN, TakeSpace(size, aligned)
  PROVE  SpaceInv'
<1>1. TypeOK /\ BlockInv /\ PieceInv /\ PiecesApart
  BY DEF IInv
<1>2. PICK r : Grown /\ Fresh(r) /\ pieces' = pieces \cup {r} /\ Len(blocks') = Len(blocks)
  BY <1>1, TakeIsFresh
<1>3. /\ pieces' \subseteq [block : 1 .. Len(blocks'), from : Nat, to : Nat, known : BOOLEAN]
      /\ BlockInv' /\ PieceInv' /\ PiecesApart'
  BY <1>1, <1>2, OneMore
<1>4. blocks' \in Seq(BlockRecord) /\ current' \in 1 .. Len(blocks') /\ wild' \in BOOLEAN
  BY <1>1, <1>2 DEF Grown, TakeSpace, TypeOK
<1> QED
  BY <1>3, <1>4 DEF SpaceInv, SpaceTypes, BlockRecord

LEMMA SpaceNew ==
  ASSUME IInv, NEW size \in Nat \ {0}, size <= Limit, NewBlock(size)
  PROVE  SpaceInv'
<1>1. TypeOK /\ BlockInv /\ PieceInv /\ PiecesApart
  BY DEF IInv
<1>2. PICK r : Grown /\ Fresh(r) /\ pieces' = pieces \cup {r} /\ current' \in 1 .. Len(blocks')
  BY <1>1, NewIsFresh
<1>3. /\ pieces' \subseteq [block : 1 .. Len(blocks'), from : Nat, to : Nat, known : BOOLEAN]
      /\ BlockInv' /\ PieceInv' /\ PiecesApart'
  BY <1>1, <1>2, OneMore
<1>4. blocks' \in Seq(BlockRecord) /\ wild' \in BOOLEAN
  BY <1>1, <1>2 DEF Grown, NewBlock, TypeOK
<1> QED
  BY <1>2, <1>3, <1>4 DEF SpaceInv, SpaceTypes, BlockRecord

LEMMA SmallStep ==
  ASSUME IInv, NEW size \in Nat \ {0}, NEW aligned \in BOOLEAN, NEW zero \in BOOLEAN,
         Small(size, aligned, zero)
  PROVE  IInv'
<1>1. state = "live" /\ size <= Limit /\ UNCHANGED <<large, heap, peak>>
  BY DEF Small
<1>2. SpaceInv /\ ChunkInv
  BY Parts
<1>3. state' \in {"live", "destroyed", "corrupt"}
  BY <1>1 DEF Small
<1>4. ChunkInv'
  BY <1>1, <1>2, ChunksSame
<1>5. SpaceInv'
  BY <1>1, <1>2, SpaceTaken, SpaceNew, SpaceSame DEF Small
<1>6. (IInv <=> state \in {"live", "destroyed", "corrupt"} /\ SpaceInv /\ ChunkInv)'
  BY DEF IInv, TypeOK, SpaceInv, SpaceTypes, ChunkInv, ChunkTypes
<1> QED
  BY <1>3, <1>4, <1>5, <1>6

(* A chunk more, in a node that was free or in a new one. *)
LEMMA Reused ==
  ASSUME IInv, state = "live", NEW c \in Chunks \ heap, ReuseNode(c)
  PROVE  ChunkInv'
<1> DEFINE k == Min(FreeProbed)
<1>0. TypeOK /\ HeapOwned /\ LargeListBounded
  BY DEF IInv
<1>1. k \in 1 .. Len(large) /\ large[k] = Null
  <2>1. Probed \subseteq 1 .. Len(large)
    <3>1. Min({Len(large), Probes + 2}) <= Len(large) /\ Min({Len(large), Probes + 2}) \in Nat
      BY <1>0, LargeType, Constants, MinProperty
    <3> QED
      BY <1>0, <3>1, LargeType DEF Probed
  <2>2. FreeProbed \in SUBSET Nat
    BY DEF FreeProbed, Probed
  <2>3. k \in FreeProbed
    BY <2>2, MinProperty DEF ReuseNode
  <2> QED
    BY <2>1, <2>3 DEF FreeProbed
<1>2. large' = [large EXCEPT ![k] = c] /\ heap' = heap \cup {c} /\ state' = "live"
  BY DEF ReuseNode, HeapWith
<1> HIDE DEF k
<1>3. large \in Seq(Chunks \cup {Null}) /\ c # Null
  BY <1>0, Constants DEF TypeOK
<1>4. /\ large' \in Seq(Chunks \cup {Null}) /\ Len(large') = Len(large)
      /\ \A i \in 1 .. Len(large) : large'[i] = IF i = k THEN c ELSE large[i]
  BY <1>1, <1>2, <1>3, ExceptSeq
<1>5. heap = Allocs /\ \A i \in 1 .. Len(large) : large[i] # c
  BY <1>0, <1>3 DEF HeapOwned, Allocs
<1>6. Allocs' = Allocs \cup {c}
  <2>1. \A x \in Allocs : x \in Allocs'
    BY <1>1, <1>4 DEF Allocs
  <2>2. c \in Allocs'
    BY <1>1, <1>3, <1>4 DEF Allocs
  <2>3. \A x \in Allocs' : x \in Allocs \cup {c}
    BY <1>1, <1>4 DEF Allocs
  <2> QED
    BY <2>1, <2>2, <2>3
<1>7. ASSUME NEW i \in 1 .. Len(large'), NEW j \in 1 .. Len(large'), large'[i] = large'[j], i # j
      PROVE  large'[i] = Null
  <2>1. i # k /\ j # k
    BY <1>4, <1>5, <1>7
  <2> QED
    BY <1>0, <1>2, <1>4, <1>7, <2>1 DEF HeapOwned
<1>8. HeapOwned'
  BY <1>2, <1>5, <1>6, <1>7 DEF HeapOwned
<1>9. peak' \in Nat /\ peak' >= peak
  <2>1. Cardinality(heap) + 1 \in Nat /\ peak \in Nat
    BY <1>0, <1>2, HeapFinite DEF TypeOK, ReuseNode
  <2>2. peak' = Max({peak, Cardinality(heap) + 1})
    BY DEF ReuseNode, HeapWith
  <2> QED
    BY <2>1, <2>2, MaxOfTwo
<1>10. LargeListBounded'
  BY <1>0, <1>4, <1>9, LargeType, Constants DEF LargeListBounded, TypeOK
<1>11. ChunkTypes'
  BY <1>0, <1>2, <1>4, <1>9 DEF ChunkTypes, TypeOK
<1> QED
  BY <1>8, <1>10, <1>11 DEF ChunkInv

(* A node more: the search has looked at all of a short list, so that each of *)
(* its nodes has a chunk.                                                     *)
LEMMA Added ==
  ASSUME IInv, state = "live", NEW c \in Chunks \ heap, AddNode(c)
  PROVE  ChunkInv'
<1>0. TypeOK /\ HeapOwned /\ LargeListBounded
  BY DEF IInv
<1>1. large' = <<c>> \o large /\ heap' = heap \cup {c}
  BY DEF AddNode, HeapWith
<1>2. /\ large' \in Seq(Chunks \cup {Null}) /\ Len(large') = Len(large) + 1 /\ large'[1] = c
      /\ \A k \in 1 .. Len(large) : large'[k + 1] = large[k]
      /\ Len(large) \in Nat
  BY <1>0, <1>1, Pushed, LargeType
<1>3. c # Null /\ heap = Allocs /\ \A k \in 1 .. Len(large) : large[k] # c
  BY <1>0, Constants DEF HeapOwned, Allocs
<1>4. \A k \in 1 .. Len(large') : \/ k = 1 /\ large'[k] = c
                                  \/ k - 1 \in 1 .. Len(large) /\ large'[k] = large[k - 1]
  <2> SUFFICES ASSUME NEW k \in 1 .. Len(large'), k # 1
               PROVE  k - 1 \in 1 .. Len(large) /\ large'[k] = large[k - 1]
    BY <1>2
  <2>1. k - 1 \in 1 .. Len(large) /\ (k - 1) + 1 = k
    BY <1>2
  <2> QED
    BY <1>2, <2>1
<1>5. Allocs' = Allocs \cup {c}
  <2>1. \A x \in Allocs : x \in Allocs'
    <3> SUFFICES ASSUME NEW k \in 1 .. Len(large), large[k] # Null PROVE large[k] \in Allocs'
      BY DEF Allocs
    <3>1. k + 1 \in 1 .. Len(large') /\ large'[k + 1] = large[k]
      BY <1>2
    <3> QED
      BY <3>1 DEF Allocs
  <2>2. c \in Allocs'
    <3>1. 1 \in 1 .. Len(large')
      BY <1>2
    <3> QED
      BY <1>2, <1>3, <3>1 DEF Allocs
  <2>3. \A x \in Allocs' : x \in Allocs \cup {c}
    BY <1>4 DEF Allocs
  <2> QED
    BY <2>1, <2>2, <2>3
<1>6. ASSUME NEW i \in 1 .. Len(large'), NEW j \in 1 .. Len(large'), large'[i] = large'[j], i # j
      PROVE  large'[i] = Null
  <2>1. CASE i = 1 \/ j = 1
    BY <1>2, <1>3, <1>4, <1>6, <2>1
  <2>2. CASE i # 1 /\ j # 1
    <3>1. /\ i - 1 \in 1 .. Len(large) /\ large'[i] = large[i - 1]
          /\ j - 1 \in 1 .. Len(large) /\ large'[j] = large[j - 1] /\ i - 1 # j - 1
      BY <1>4, <1>6, <2>2
    <3> QED
      BY <1>0, <1>1, <1>6, <3>1 DEF HeapOwned
  <2> QED
    BY <2>1, <2>2
<1>7. HeapOwned'
  BY <1>1, <1>3, <1>5, <1>6 DEF HeapOwned
<1>8. /\ Cardinality(heap) \in Nat /\ peak \in Nat /\ peak' \in Nat
      /\ peak' >= peak /\ peak' >= Cardinality(heap) + 1
  <2>1. Cardinality(heap) + 1 \in Nat /\ Cardinality(heap) \in Nat /\ peak \in Nat
    BY <1>0, <1>1, HeapFinite DEF TypeOK, AddNode
  <2>2. peak' = Max({peak, Cardinality(heap) + 1})
    BY DEF AddNode, HeapWith
  <2> QED
    BY <2>1, <2>2, MaxOfTwo
<1>9. LargeListBounded'
  <2> SUFFICES ASSUME peak' <= Probes + 2 PROVE Len(large') <= peak'
    BY DEF LargeListBounded
  <2>1. Len(large) <= Probes + 2
    BY <1>0, <1>2, <1>8, Constants DEF LargeListBounded
  <2>2. Probed = 1 .. Len(large)
    <3>1. /\ Min({Len(large), Probes + 2}) \in {Len(large), Probes + 2}
          /\ Min({Len(large), Probes + 2}) <= Len(large)
      BY <1>2, Constants, MinOfTwo
    <3>2. Min({Len(large), Probes + 2}) = Len(large)
      <4>1. CASE Min({Len(large), Probes + 2}) = Probes + 2
        BY <1>2, <2>1, <3>1, <4>1, Constants
      <4> QED
        BY <3>1, <4>1
    <3> QED
      BY <3>2 DEF Probed
  <2>3. \A k \in 1 .. Len(large) : large[k] # Null
    BY <2>2 DEF AddNode, FreeProbed
  <2>4. Cardinality(heap) = Len(large)
    BY <1>0, <2>3, FullList
  <2> QED
    BY <1>2, <1>8, <2>4
<1>10. ChunkTypes'
  BY <1>0, <1>1, <1>2, <1>8 DEF ChunkTypes, TypeOK
<1> QED
  BY <1>7, <1>9, <1>10 DEF ChunkInv

LEMMA PartsPrimed ==
  ASSUME state' \in {"live", "destroyed", "corrupt"}, SpaceInv', ChunkInv'
  PROVE  IInv'
BY DEF IInv, TypeOK, SpaceInv, SpaceTypes, ChunkInv, ChunkTypes

LEMMA LargeStep ==
  ASSUME IInv, NEW size \in Nat \ {0}, Large(size)
  PROVE  IInv'
<1>1. state = "live" /\ SpaceInv /\ ChunkInv
  BY Parts DEF Large
<1>2. PICK c \in Chunks \ heap : ReuseNode(c) \/ AddNode(c) \/ NodeFails(c)
  BY DEF Large
<1>3. CASE ReuseNode(c)
  <2>1. SpaceInv' /\ state' = state
    BY <1>1, <1>3, SpaceSame DEF ReuseNode
  <2> QED
    BY <1>1, <1>3, <2>1, Reused, PartsPrimed
<1>4. CASE AddNode(c)
  <2>1. TakeSpace(LargeNode, TRUE) /\ state' \in {state, "corrupt"}
    BY <1>4 DEF AddNode
  <2>2. SpaceInv'
    <3>1. LargeNode \in Nat \ {0}
      BY DEF LargeNode
    <3> QED
      BY <2>1, <3>1, SpaceTaken
  <2> QED
    BY <1>1, <1>4, <2>1, <2>2, Added, PartsPrimed
<1>5. CASE NodeFails(c)
  <2>1. UNCHANGED <<blocks, current, wild, large, pieces, peak>>
    BY <1>5 DEF NodeFails
  <2>2. SpaceInv'
    BY <1>1, <2>1, SpaceSame
  <2>3. CASE heap' = heap /\ state' = state
    <3>1. ChunkInv'
      BY <1>1, <2>1, <2>3, ChunksSame
    <3> QED
      BY <1>1, <2>2, <2>3, <3>1, PartsPrimed
  <2>4. CASE heap' = heap \cup {c} /\ state' = "corrupt"
    <3>1. ChunkTypes'
      BY <1>1, <2>1, <2>4 DEF ChunkInv, ChunkTypes
    <3>2. HeapOwned'
      BY <2>4 DEF HeapOwned
    <3>3. LargeListBounded'
      BY <1>1, <2>1 DEF ChunkInv, LargeListBounded
    <3> QED
      BY <2>2, <2>4, <3>1, <3>2, <3>3, PartsPrimed DEF ChunkInv
  <2> QED
    BY <1>5, <2>3, <2>4 DEF NodeFails, HeapWithoutNode
<1> QED
  BY <1>2, <1>3, <1>4, <1>5

LEMMA FreeStep ==
  ASSUME IInv, NEW c \in Chunks, mp_free(c)
  PROVE  IInv' /\ c \in heap
<1>0. TypeOK /\ HeapOwned /\ LargeListBounded /\ SpaceInv /\ state = "live" /\ state' = "live"
  BY Parts DEF IInv, mp_free
<1>1. PICK k \in 1 .. Len(large) : large[k] = c /\ large' = [large EXCEPT ![k] = Null]
  BY DEF mp_free
<1>2. /\ large' \in Seq(Chunks \cup {Null}) /\ Len(large') = Len(large)
      /\ \A i \in 1 .. Len(large) : large'[i] = IF i = k THEN Null ELSE large[i]
  <2>1. large \in Seq(Chunks \cup {Null}) /\ Null \in Chunks \cup {Null}
    BY <1>0 DEF TypeOK
  <2> QED
    BY <1>1, <2>1, ExceptSeq
<1>3. heap = Allocs /\ c # Null /\ c \in Allocs /\ heap' = heap \ {c} /\ peak' = peak
  BY <1>0, <1>1, Constants DEF HeapOwned, Allocs, mp_free
<1>4. \A i \in 1 .. Len(large) : i # k => large[i] # c
  BY <1>0, <1>1, <1>3 DEF HeapOwned
<1>5. Allocs' = Allocs \ {c}
  <2>1. \A x \in Allocs' : x \in Allocs /\ x # c
    BY <1>2, <1>4 DEF Allocs
  <2>2. \A x \in Allocs \ {c} : x \in Allocs'
    BY <1>1, <1>2 DEF Allocs
  <2> QED
    BY <2>1, <2>2
<1>6. HeapOwned'
  BY <1>0, <1>2, <1>3, <1>5 DEF HeapOwned
<1>7. ChunkTypes' /\ LargeListBounded'
  BY <1>0, <1>2, <1>3 DEF ChunkTypes, TypeOK, LargeListBounded
<1>8. SpaceInv'
  BY <1>0, SpaceSame DEF mp_free
<1> QED
  BY <1>0, <1>3, <1>6, <1>7, <1>8, PartsPrimed DEF ChunkInv

(* When the pool is reset or destroyed, the large list is all there is to free. *)
LEMMA Emptied ==
  ASSUME IInv, state = "live", heap' = heap \ Allocs, large' = <<>>, peak' = peak
  PROVE  ChunkInv' /\ heap' = {}
<1>1. TypeOK /\ heap = Allocs
  BY DEF IInv, HeapOwned
<1>2. heap' = {}
  BY <1>1
<1>3. Len(large') = 0 /\ Allocs' = {} /\ 1 .. Len(large') = {} /\ large' \in Seq(Chunks \cup {Null})
  BY DEF Allocs
<1>4. HeapOwned'
  BY <1>2, <1>3 DEF HeapOwned
<1>5. ChunkTypes' /\ LargeListBounded'
  BY <1>1, <1>2, <1>3 DEF ChunkTypes, TypeOK, LargeListBounded
<1> QED
  BY <1>2, <1>4, <1>5 DEF ChunkInv

LEMMA ResetStep ==
  ASSUME IInv, mp_reset_pool
  PROVE  IInv' /\ heap' = {}
<1>1. TypeOK /\ BlockInv /\ state = "live"
  BY DEF IInv, mp_reset_pool
<1>2. ChunkInv' /\ heap' = {}
  BY <1>1, Emptied DEF mp_reset_pool
<1>3. Len(blocks) \in Nat /\ Len(blocks) >= 1 /\ current \in 1 .. Len(blocks)
  BY <1>1, LenProperties DEF TypeOK
<1>4. ASSUME NEW b \in 1 .. Len(blocks)
      PROVE  /\ ResetBlocks[b] \in BlockRecord
             /\ ResetBlocks[b].last = Start(b) /\ ResetBlocks[b].end = blocks[b].end
  <2>1. blocks[b] \in BlockRecord /\ Start(b) \in Nat
    <3>1. blocks[b] \in BlockRecord
      BY <1>1, ElementOfSeq DEF TypeOK, BlockRecord
    <3> QED
      BY <1>3, <3>1, StartType
  <2>2. ResetBlocks[b] = [blocks[b] EXCEPT !.last = Start(b)]
    BY DEF ResetBlocks, ResetTo
  <2> QED
    BY <2>1, <2>2 DEF BlockRecord
<1>5. ResetBlocks \in Seq(BlockRecord) /\ Len(ResetBlocks) = Len(blocks)
  <2>1. ResetBlocks \in [1 .. Len(blocks) -> BlockRecord]
    BY <1>4 DEF ResetBlocks
  <2> QED
    BY <1>3, <2>1
<1>6. blocks' = ResetBlocks /\ pieces' = {} /\ current' = current /\ wild' = wild
  BY DEF mp_reset_pool
<1>7. SpaceTypes'
  BY <1>1, <1>3, <1>5, <1>6 DEF SpaceTypes, TypeOK, BlockRecord
<1>8. BlockInv'
  <2>1. \A b \in 1 .. Len(blocks) : /\ blocks'[b].last = Start(b) /\ blocks'[b].end = blocks[b].end
                                     /\ Start(b) \in Nat /\ blocks[b].end >= Start(b)
    <3> SUFFICES ASSUME NEW b \in 1 .. Len(blocks)
                 PROVE  /\ blocks'[b].last = Start(b) /\ blocks'[b].end = blocks[b].end
                        /\ Start(b) \in Nat /\ blocks[b].end >= Start(b)
      OBVIOUS
    <3>1. blocks'[b].last = Start(b) /\ blocks'[b].end = blocks[b].end
      BY <1>4, <1>6
    <3>2. Start(b) \in Nat
      BY <1>3, StartType
    <3>3. blocks[b].end >= Start(b)
      BY <1>1 DEF BlockInv, EndInv
    <3> QED
      BY <3>1, <3>2, <3>3
  <2>2. \A b \in 1 .. Len(blocks) : EndInv(blocks', b)
    BY <1>1, <2>1, BlockType DEF EndInv
  <2> QED
    BY <1>1, <1>3, <1>5, <1>6, <2>1, <2>2, StartType DEF BlockInv
<1>9. PieceInv' /\ PiecesApart'
  BY <1>6 DEF PieceInv, PiecesApart
<1>10. state' \in {"live", "destroyed", "corrupt"}
  BY <1>1 DEF mp_reset_pool
<1> QED
  BY <1>2, <1>7, <1>8, <1>9, <1>10, PartsPrimed DEF SpaceInv

LEMMA DestroyStep ==
  ASSUME IInv, mp_destory_pool
  PROVE  IInv' /\ heap' = {}
<1>1. SpaceInv /\ state = "live"
  BY Parts DEF mp_destory_pool
<1>2. ChunkInv' /\ heap' = {}
  BY <1>1, Emptied DEF mp_destory_pool
<1>3. blocks' = blocks /\ pieces' = {} /\ current' = current /\ wild' = wild
  BY DEF mp_destory_pool
<1>4. SpaceInv'
  BY <1>1, <1>3 DEF SpaceInv, SpaceTypes, BlockInv, PieceInv, PiecesApart, EndInv
<1>5. state' \in {"live", "destroyed", "corrupt"}
  BY <1>1 DEF mp_destory_pool
<1> QED
  BY <1>2, <1>4, <1>5, PartsPrimed

-----------------------------------------------------------------------------
(***************************************************************************)
(* The theorems.                                                           *)
(***************************************************************************)
LEMMA InvInit == Init => IInv
<1> SUFFICES ASSUME Init PROVE IInv
  OBVIOUS
<1> DEFINE first == [last |-> Start(1), end |-> Start(1) + PoolSize, failed |-> 0]
<1>1. first \in BlockRecord /\ first.last = Start(1) /\ first.end = Start(1) + PoolSize
  BY StartType, Constants DEF BlockRecord
<1>2. blocks = <<first>> /\ pieces = {} /\ large = <<>> /\ heap = {} /\ peak = 0
  BY DEF Init
<1> HIDE DEF first
<1>3. blocks \in Seq(BlockRecord) /\ Len(blocks) = 1 /\ blocks[1] = first
  BY <1>1, <1>2
<1>4. Len(large) = 0 /\ 1 .. Len(large) = {} /\ large \in Seq(Chunks \cup {Null})
  BY <1>2
<1>5. TypeOK
  BY <1>2, <1>3, <1>4 DEF Init, TypeOK, BlockRecord
<1>6. BlockInv
  BY <1>1, <1>3, StartType, Constants DEF BlockInv, EndInv
<1>7. PieceInv /\ PiecesApart
  BY <1>2 DEF PieceInv, PiecesApart
<1>8. Allocs = {}
  BY <1>4 DEF Allocs
<1>9. HeapOwned /\ LargeListBounded
  BY <1>2, <1>4, <1>8 DEF HeapOwned, LargeListBounded
<1> QED
  BY <1>5, <1>6, <1>7, <1>9 DEF IInv

LEMMA InvNext == IInv /\ [Next]_vars => IInv'
<1> SUFFICES ASSUME IInv, [Next]_vars PROVE IInv'
  OBVIOUS
<1>1. ASSUME NEW size \in Sizes, mp_alloc(size) \/ mp_nalloc(size) \/ mp_calloc(size)
      PROVE  IInv'
  <2>1. size \in Nat \ {0}
    BY Constants
  <2>2. \/ Large(size)
        \/ \E aligned, zero \in BOOLEAN : Small(size, aligned, zero)
    BY <1>1 DEF mp_alloc, mp_nalloc, mp_calloc
  <2> QED
    BY <2>1, <2>2, LargeStep, SmallStep
<1>2. ASSUME NEW c \in Chunks, mp_free(c)
      PROVE  IInv'
  BY <1>2, FreeStep
<1>3. CASE mp_reset_pool
  BY <1>3, ResetStep
<1>4. CASE mp_destory_pool
  BY <1>4, DestroyStep
<1>6. CASE Write
  <2>1. /\ SpaceInv /\ ChunkInv /\ state = "live" /\ state' = "corrupt"
        /\ UNCHANGED <<blocks, current, wild, large, heap, pieces, peak>>
    BY <1>6, Parts DEF Write
  <2>2. SpaceInv' /\ ChunkInv'
    BY <2>1, SpaceSame, ChunksSame
  <2> QED
    BY <2>1, <2>2, PartsPrimed
<1>5. CASE UNCHANGED vars
  <2>1. SpaceInv /\ ChunkInv /\ state \in {"live", "destroyed", "corrupt"}
    BY Parts
  <2>2. SpaceInv' /\ ChunkInv'
    BY <1>5, <2>1, SpaceSame, ChunksSame DEF vars
  <2> QED
    BY <1>5, <2>1, <2>2, PartsPrimed DEF vars
<1> QED
  BY <1>1, <1>2, <1>3, <1>4, <1>5, <1>6 DEF Next

LEMMA Inductive == Spec => []IInv
BY InvInit, InvNext, PTL DEF Spec

(* The types of the pool, for any sequence of calls. *)
THEOREM TypeCorrect == Spec => []TypeOK
<1>1. IInv => TypeOK
  BY DEF IInv
<1> QED
  BY <1>1, Inductive, PTL

(* The pool gives out no space of a block twice and none of a node, and none *)
(* beyond a block whose end is aligned.                                      *)
THEOREM SpaceApart == Spec => []PiecesApart
<1>1. IInv => PiecesApart
  BY DEF IInv
<1> QED
  BY <1>1, Inductive, PTL

(* No chunk is leaked and none is freed twice, until the pool is corrupt. *)
THEOREM ChunksOwned == Spec => []HeapOwned
<1>1. IInv => HeapOwned
  BY DEF IInv
<1> QED
  BY <1>1, Inductive, PTL

-----------------------------------------------------------------------------
(***************************************************************************)
(* When the list of large chunks grows.                                    *)
(***************************************************************************)
(* Every node that the search has looked at holds a chunk of its own. *)
LEMMA ProbedFull ==
  ASSUME TypeOK, HeapOwned, state = "live", FreeProbed = {}
  PROVE  Cardinality(heap) >= Min({Len(large), Probes + 2})
<1> DEFINE n == Min({Len(large), Probes + 2})
           S == {large[k] : k \in 1 .. n}
<1>1. n \in Nat /\ n <= Len(large)
  BY LargeType, Constants, MinOfTwo
<1>2. \A k \in 1 .. n : k \in 1 .. Len(large) /\ large[k] # Null
  BY <1>1, LargeType DEF FreeProbed, Probed
<1> HIDE DEF n
<1>3. \A j, k \in 1 .. n : large[j] = large[k] => j = k
  BY <1>2 DEF HeapOwned
<1>s. S = {large[k] : k \in 1 .. n}
  OBVIOUS
<1>5. S \subseteq heap
  BY <1>2 DEF HeapOwned, Allocs
<1> HIDE DEF S
<1>4. Cardinality(S) = n
  BY <1>1, <1>3, <1>s, EnumeratedOnce
<1>6. IsFiniteSet(heap) /\ Cardinality(heap) \in Nat
  BY HeapFinite
<1>7. Cardinality(S) <= Cardinality(heap)
  BY <1>5, <1>6, FS_Subset
<1> QED
  BY <1>4, <1>7 DEF n

GrowsWhenFull == Len(large') > Len(large) => Cardinality(heap) >= Min({Len(large), Probes + 2})

LEMMA GrowthStep ==
  ASSUME IInv, [Next]_vars
  PROVE  GrowsWhenFull
<1>0. TypeOK /\ HeapOwned /\ Len(large) \in Nat
  BY LargeType DEF IInv
<1>1. ASSUME NEW size, Large(size)
      PROVE  GrowsWhenFull
  <2>1. PICK c \in Chunks \ heap : ReuseNode(c) \/ AddNode(c) \/ NodeFails(c)
    BY <1>1 DEF Large
  <2>2. CASE ReuseNode(c)
    <3>1. Len(large') = Len(large)
      BY <1>0, <2>2, LenProperties DEF ReuseNode, TypeOK
    <3> QED
      BY <1>0, <3>1 DEF GrowsWhenFull
  <2>3. CASE AddNode(c)
    BY <1>0, <1>1, <2>3, ProbedFull DEF AddNode, Large, GrowsWhenFull
  <2>4. CASE NodeFails(c)
    BY <1>0, <2>4 DEF NodeFails, GrowsWhenFull
  <2> QED
    BY <2>1, <2>2, <2>3, <2>4
<1>2. ASSUME NEW c \in Chunks, mp_free(c)
      PROVE  GrowsWhenFull
  <2>1. Len(large') = Len(large)
    BY <1>0, <1>2, LenProperties DEF mp_free, TypeOK
  <2> QED
    BY <1>0, <2>1 DEF GrowsWhenFull
<1>3. CASE mp_reset_pool \/ mp_destory_pool
  <2>1. large' = <<>> /\ Len(large') = 0
    BY <1>3 DEF mp_reset_pool, mp_destory_pool
  <2> QED
    BY <1>0, <2>1 DEF GrowsWhenFull
<1>4. CASE Write \/ UNCHANGED vars
  BY <1>0, <1>4 DEF Write, vars, GrowsWhenFull
<1>5. ASSUME NEW size, NEW aligned, NEW zero, Small(size, aligned, zero)
      PROVE  GrowsWhenFull
  BY <1>0, <1>5 DEF Small, GrowsWhenFull
<1> QED
  BY <1>1, <1>2, <1>3, <1>4, <1>5 DEF Next, mp_alloc, mp_nalloc, mp_calloc

(* A node is added only when every node that the search looks at holds a   *)
(* chunk, however long the list is.  With no more chunks at a time than    *)
(* the search looks at, the list is then no longer than the most there     *)
(* were; with more, nothing bounds it.                                     *)
THEOREM ListBounded == Spec => []LargeListBounded /\ [][GrowsWhenFull]_vars
<1>1. IInv => LargeListBounded
  BY DEF IInv
<1>2. IInv /\ [Next]_vars => [GrowsWhenFull]_vars
  BY GrowthStep
<1> QED
  BY <1>1, <1>2, Inductive, PTL DEF Spec

-----------------------------------------------------------------------------
(***************************************************************************)
(* The blocks that are skipped.  Those from current on have failed less    *)
(* often the later they came, so that those passed are the first ones.     *)
(***************************************************************************)
SkipInv ==
  /\ WornAreSkipped
  /\ \A a, b \in 1 .. Len(blocks) :
       current <= a /\ a <= b => blocks[b].failed <= blocks[a].failed

LEMMA SkipNew ==
  ASSUME TypeOK, SkipInv, NEW size \in Nat \ {0}, NewBlock(size)
  PROVE  SkipInv'
<1> DEFINE L == Len(blocks)
           limit == SkipAfter + 2
           f == [b \in 1 .. L |-> blocks[b].failed]
           g == [b \in 1 .. L + 1 |-> blocks'[b].failed]
<1>1. L \in Nat /\ L >= 1 /\ current \in 1 .. L /\ SkipAfter \in Nat
  BY LenProperties, MemoryPoolAssumption DEF TypeOK
<1>2. \A b \in 1 .. L : f[b] \in Nat
  BY BlockType
<1>3. /\ Len(blocks') = L + 1
      /\ \A b \in 1 .. L : g[b] = IF b \in Behind THEN f[b] + 1 ELSE f[b]
      /\ g[L + 1] = 0
  <2> DEFINE old == [b \in 1 .. Len(blocks) |->
                       IF b \in Behind THEN [blocks[b] EXCEPT !.failed = @ + 1] ELSE blocks[b]]
             new == [last |-> Align(SmallNode) + size, end |-> BlockSize, failed |-> 0]
  <2>1. \A b \in 1 .. L : old[b].failed = IF b \in Behind THEN f[b] + 1 ELSE f[b]
    <3> SUFFICES ASSUME NEW b \in 1 .. L
                 PROVE  old[b].failed = IF b \in Behind THEN f[b] + 1 ELSE f[b]
      OBVIOUS
    <3>1. blocks[b] \in BlockRecord
      BY ElementOfSeq DEF TypeOK, BlockRecord
    <3> QED
      BY <3>1 DEF BlockRecord
  <2>2. blocks' = Append(old, new) /\ new.failed = 0
    BY DEF NewBlock
  <2>3. Len(old) = L /\ DOMAIN old = 1 .. L
    BY <1>1
  <2> HIDE DEF old, new
  <2>4. /\ Len(blocks') = L + 1 /\ blocks'[L + 1] = new
        /\ \A b \in 1 .. L : blocks'[b] = old[b]
    BY <1>1, <2>2, <2>3
  <2> QED
    BY <1>1, <2>1, <2>2, <2>4
<1>4. /\ \A b \in 1 .. L : b < current <=> f[b] >= limit
      /\ \A a, b \in 1 .. L : current <= a /\ a <= b => f[b] <= f[a]
  BY DEF SkipInv, WornAreSkipped
<1>5. /\ Behind = current .. L - 1
      /\ Worn = {b \in Behind : f[b] > SkipAfter}
      /\ current' = IF Worn = {} THEN current ELSE Max(Worn) + 1
  BY <1>1 DEF Behind, Worn, NewBlock
<1> HIDE DEF L, f, g
<1>6. /\ current' \in current .. L
      /\ \A b \in current .. L - 1 : b < current' <=> f[b] > SkipAfter
  <2>1. CASE Worn = {}
    BY <1>1, <1>2, <1>5, <2>1
  <2>2. CASE Worn # {}
    <3>1. Worn \in SUBSET (0 .. L)
      BY <1>1, <1>5
    <3>2. Max(Worn) \in Worn /\ \A y \in Worn : Max(Worn) >= y
      BY <1>1, <2>2, <3>1, MaxProperty
    <3>3. PICK k \in current .. L - 1 : /\ k = Max(Worn) /\ f[k] > SkipAfter
                                        /\ \A y \in Worn : k >= y
      BY <1>5, <3>2
    <3>4. current' = k + 1
      BY <1>5, <2>2, <3>3
    <3>5. ASSUME NEW b \in current .. L - 1
          PROVE  b < k + 1 <=> f[b] > SkipAfter
      <4>1. CASE b <= k
        <5>1. f[k] <= f[b] /\ f[k] \in Nat /\ f[b] \in Nat
          BY <1>1, <1>2, <1>4, <3>3, <4>1
        <5> QED
          BY <1>1, <3>3, <4>1, <5>1
      <4>2. CASE b > k
        <5>1. b \notin Worn
          BY <1>1, <3>3, <4>2
        <5> QED
          BY <1>1, <1>5, <3>3, <4>2, <5>1
      <4> QED
        BY <1>1, <3>3, <4>1, <4>2
    <3> QED
      BY <1>1, <3>3, <3>4, <3>5
  <2> QED
    BY <2>1, <2>2
<1>7. ASSUME NEW b \in 1 .. L + 1
      PROVE  b < current' <=> g[b] >= limit
  <2>1. CASE b < current
    BY <1>1, <1>3, <1>4, <1>5, <1>6, <2>1
  <2>2. CASE b \in current .. L - 1
    <3>1. g[b] = f[b] + 1 /\ f[b] \in Nat
      BY <1>1, <1>2, <1>3, <1>5, <2>2
    <3> QED
      BY <1>1, <1>6, <2>2, <3>1
  <2>3. CASE b = L
    <3>1. g[b] = f[b] /\ f[b] \in Nat /\ ~ (f[b] >= limit)
      BY <1>1, <1>2, <1>3, <1>4, <1>5, <2>3
    <3> QED
      BY <1>1, <1>6, <2>3, <3>1
  <2>4. CASE b = L + 1
    BY <1>1, <1>3, <1>6, <2>4
  <2> QED
    BY <1>1, <2>1, <2>2, <2>3, <2>4
<1>8. ASSUME NEW a \in 1 .. L + 1, NEW b \in 1 .. L + 1, current' <= a, a <= b
      PROVE  g[b] <= g[a]
  <2>1. current <= a
    BY <1>1, <1>6, <1>8
  <2>2. CASE b = L + 1
    <3>1. g[a] \in Nat
      BY <1>1, <1>2, <1>3
    <3> QED
      BY <1>3, <2>2, <3>1
  <2>3. CASE b \in 1 .. L
    <3>1. /\ a \in 1 .. L /\ f[b] <= f[a] /\ f[a] \in Nat /\ f[b] \in Nat
          /\ b \in Behind => a \in Behind
      BY <1>1, <1>2, <1>4, <1>5, <1>8, <2>1, <2>3
    <3> QED
      BY <1>3, <2>3, <3>1
  <2> QED
    BY <1>1, <2>2, <2>3
<1>9. \A b \in 1 .. L + 1 : g[b] = blocks'[b].failed
  BY DEF g
<1> QED
  BY <1>3, <1>7, <1>8, <1>9 DEF SkipInv, WornAreSkipped

LEMMA SkipSame ==
  ASSUME SkipInv, current' = current, Len(blocks') = Len(blocks),
         \A b \in 1 .. Len(blocks) : blocks'[b].failed = blocks[b].failed
  PROVE  SkipInv'
BY DEF SkipInv, WornAreSkipped

LEMMA SkipTake ==
  ASSUME IInv, SkipInv, NEW size \in Nat \ {0}, NEW aligned \in BOOLEAN,
         TakeSpace(size, aligned)
  PROVE  SkipInv'
<1> DEFINE b == Min(Candidates(size, aligned))
           m == From(b, aligned)
<1>1. TypeOK /\ BlockInv /\ current' = current
  BY DEF IInv, TakeSpace
<1>2. b \in 1 .. Len(blocks) /\ blocks' = [blocks EXCEPT ![b].last = m + size]
  BY <1>1, Found DEF TakeSpace
<1> HIDE DEF b, m
<1>3. \A k \in 1 .. Len(blocks) : blocks[k] \in BlockRecord
  BY <1>1, ElementOfSeq DEF TypeOK, BlockRecord
<1>4. Len(blocks') = Len(blocks) /\ DOMAIN blocks = 1 .. Len(blocks)
  BY <1>1, <1>2, LenProperties DEF TypeOK
<1>5. \A k \in 1 .. Len(blocks) : blocks'[k].failed = blocks[k].failed
  BY <1>2, <1>3, <1>4 DEF BlockRecord
<1> QED
  BY <1>1, <1>4, <1>5, SkipSame

LEMMA SkipReset ==
  ASSUME IInv, SkipInv, mp_reset_pool
  PROVE  SkipInv'
<1>1. TypeOK /\ current' = current /\ blocks' = ResetBlocks /\ Len(blocks) \in Nat
  BY LenProperties DEF IInv, mp_reset_pool, TypeOK
<1>2. Len(blocks') = Len(blocks)
  BY <1>1 DEF ResetBlocks
<1>3. ASSUME NEW b \in 1 .. Len(blocks)
      PROVE  blocks'[b].failed = blocks[b].failed
  <2>1. blocks[b] \in BlockRecord
    BY <1>1, ElementOfSeq DEF TypeOK, BlockRecord
  <2> QED
    BY <1>1, <2>1 DEF ResetBlocks, BlockRecord
<1> QED
  BY <1>1, <1>2, <1>3, SkipSame

LEMMA SkipStep ==
  ASSUME IInv, SkipInv, [Next]_vars
  PROVE  SkipInv'
<1>0. TypeOK /\ LargeNode \in Nat \ {0}
  BY DEF IInv, LargeNode
<1>1. CASE UNCHANGED <<blocks, current>>
  BY <1>1, SkipSame
<1>2. ASSUME NEW size \in Nat \ {0}, NEW aligned \in BOOLEAN, NEW zero \in BOOLEAN,
             Small(size, aligned, zero)
      PROVE  SkipInv'
  BY <1>0, <1>1, <1>2, SkipTake, SkipNew DEF Small
<1>3. ASSUME NEW size, Large(size)
      PROVE  SkipInv'
  BY <1>0, <1>1, <1>3, SkipTake DEF Large, ReuseNode, AddNode, NodeFails
<1>4. CASE mp_reset_pool
  BY <1>4, SkipReset
<1>5. CASE mp_destory_pool \/ Write \/ UNCHANGED vars \/ \E c \in Chunks : mp_free(c)
  BY <1>1, <1>5 DEF mp_destory_pool, Write, vars, mp_free
<1> QED
  BY <1>2, <1>3, <1>4, <1>5, Constants DEF Next, mp_alloc, mp_nalloc, mp_calloc

(* A block is passed over for good after its sixth failure (SkipAfter + 2), *)
(* and no block before: as each failure is counted for all blocks from      *)
(* current on, those that have had too many are the first of them.          *)
THEOREM SkippedWhenWorn == Spec => []WornAreSkipped
<1>1. Init => SkipInv
  <2> SUFFICES ASSUME Init PROVE SkipInv
    OBVIOUS
  <2>1. Len(blocks) = 1 /\ current = 1 /\ blocks[1].failed = 0 /\ SkipAfter \in Nat
    BY MemoryPoolAssumption DEF Init
  <2> QED
    BY <2>1 DEF SkipInv, WornAreSkipped
<1>2. SkipInv => WornAreSkipped
  BY DEF SkipInv
<1> QED
  BY <1>1, <1>2, SkipStep, Inductive, PTL DEF Spec
=============================================================================
