----------------------------- MODULE MemoryPool -----------------------------
(***************************************************************************)
(* The memory pool of 03内存池/01memoryPool.c.  Small requests are cut off *)
(* the blocks of the pool, one behind the other; large ones go to malloc   *)
(* and are remembered in a list whose nodes are themselves cut off the     *)
(* blocks.  Small space comes back only when the pool is reset.            *)
(*                                                                         *)
(* Sizes and addresses are in words of eight bytes, addresses within a     *)
(* block count from its start; what posix_memalign returns is aligned, so  *)
(* that such an address is aligned when the true one is.  The pool is      *)
(* sequential: one action is one call, or a write of the program to what   *)
(* it was given.  A call that fails because malloc fails changes nothing,  *)
(* and is left out where that is all it does.                              *)
(***************************************************************************)
EXTENDS Integers, Sequences, FiniteSets, FiniteSetsExt

CONSTANTS
  PoolSize,     \* the size given to mp_create_pool
  MaxFromPool,  \* MP_MAX_ALLOC_FROM_POOL
  SkipAfter,    \* 4: failed++ > 4
  Probes,       \* 3: n++ > 3
  Sizes,        \* what the program asks for
  Chunks,       \* addresses that malloc hands out
  Null,
  MaxBlocks,    \* bound: blocks of the pool
  MaxOverrun    \* bound: words that last may lie behind end

ASSUME MemoryPoolAssumption ==
  /\ PoolSize \in Nat \ {0, 1}              \* a pool holds a large node
  /\ MaxFromPool \in Nat \ {0, 1}
  /\ SkipAfter \in Nat /\ Probes \in Nat
  /\ Sizes \subseteq Nat \ {0}
  /\ Null \notin Chunks
  /\ MaxBlocks \in Nat \ {0} /\ MaxOverrun \in Nat

Alignment == 4   \* MP_ALIGNMENT
PoolNode  == 3   \* sizeof(struct mp_pool_s)
SmallNode == 4   \* sizeof(struct mp_small_node)
LargeNode == 2   \* sizeof(struct mp_large_node)

VARIABLES
  state,    \* "live"; "destroyed"; "corrupt": it has written or jumped to garbage
  blocks,   \* last, end and failed of each block, in the order of next
  current,  \* index of pool->current
  wild,     \* the next of the first block, never initialised, is not NULL
  large,    \* alloc of each node of the large list, the newest first
  heap,     \* chunks that are allocated
  pieces,   \* history: space cut off the blocks since the last reset
  peak      \* history: the most chunks ever allocated at a time

vars == <<state, blocks, current, wild, large, heap, pieces, peak>>

(* mp_align_ptr: up to a multiple of the alignment; at fault: down. *)
AlignDown(n) == n - (n % Alignment)
Align(n)     == n + Alignment - 1 - ((n + Alignment - 1) % Alignment)

Limit == IF PoolSize < MaxFromPool THEN PoolSize ELSE MaxFromPool   \* pool->max

(* The node of the first block lies behind the pool, and its data behind it. *)
Header(b) == IF b = 1 THEN PoolNode ELSE 0
Start(b)  == Header(b) + SmallNode
BlockSize == blocks[1].end - Header(1)    \* psize of mp_alloc_block

(* mp_create_pool. *)
Init ==
  /\ state = "live"
  /\ blocks = <<[last |-> Start(1), end |-> Start(1) + PoolSize, failed |-> 0]>>
  /\ current = 1
  /\ wild \in BOOLEAN
  /\ large = <<>>
  /\ heap = {}
  /\ pieces = {}
  /\ peak = 0

-----------------------------------------------------------------------------
(***************************************************************************)
(* Small requests.                                                         *)
(***************************************************************************)
From(b, aligned) == IF aligned THEN Align(blocks[b].last) ELSE blocks[b].last

(* (size_t)(p->end - m) >= size: a negative difference is a huge size_t.   *)
(* At fault: the room is computed before last is aligned.                  *)
FitsUnaligned(b, size, aligned) == blocks[b].end - blocks[b].last >= size
Fits(b, size, aligned) ==
  LET room == blocks[b].end - From(b, aligned) IN room < 0 \/ room >= size

Candidates(size, aligned) == {b \in current .. Len(blocks) : Fits(b, size, aligned)}

Piece(b, from, size, known) ==
  [block |-> b, from |-> from, to |-> from + size, known |-> known]

(* Rounding up has gone past the end: the space found is not in the block. *)
Outside(size, aligned) ==
  /\ Candidates(size, aligned) # {}
  /\ LET b == Min(Candidates(size, aligned)) IN From(b, aligned) + size > blocks[b].end

(* The first block from current on that has room. *)
TakeSpace(size, aligned) ==
  /\ Candidates(size, aligned) # {}
  /\ LET b == Min(Candidates(size, aligned))
         m == From(b, aligned)
     IN /\ m + size <= blocks[b].end + MaxOverrun
        /\ blocks' = [blocks EXCEPT ![b].last = m + size]
        /\ pieces' = pieces \cup {Piece(b, m, size, TRUE)}
  /\ UNCHANGED <<current, wild>>

(* The walk over the blocks follows an uninitialised next. *)
Strays == wild /\ Len(blocks) = 1

(* The blocks before the last count a failure, and current moves past      *)
(* those that have had too many; at fault: compared when counted.          *)
Behind == current .. Len(blocks) - 1
WornEarly == {b \in Behind : blocks[b].failed + 1 > SkipAfter}
Worn      == {b \in Behind : blocks[b].failed > SkipAfter}

(* mp_alloc_block: a new block, whose first piece is the one asked for.    *)
(* The function has no return statement.  What its caller finds in rax is  *)
(* what was computed last: the new pool->current, the address of a node.   *)
NewBlock(size) ==
  LET m == Align(SmallNode) IN
  /\ Len(blocks) < MaxBlocks
  /\ blocks' =
       Append([b \in 1 .. Len(blocks) |->
                 IF b \in Behind THEN [blocks[b] EXCEPT !.failed = @ + 1] ELSE blocks[b]],
              [last |-> m + size, end |-> BlockSize, failed |-> 0])
  /\ pieces' = pieces \cup {Piece(Len(blocks) + 1, m, size, FALSE)}
  /\ current' = IF Worn = {} THEN current ELSE Max(Worn) + 1
  /\ UNCHANGED wild

(* mp_alloc (aligned) and mp_nalloc of at most pool->max.  mp_calloc is    *)
(* mp_alloc followed by a memset, which hits what mp_alloc_block gave, or  *)
(* what lies behind the block.                                             *)
Small(size, aligned, zero) ==
  /\ state = "live"
  /\ size <= Limit
  /\ \/ /\ TakeSpace(size, aligned)
        /\ state' = IF zero /\ Outside(size, aligned) THEN "corrupt" ELSE state
     \/ /\ Candidates(size, aligned) = {}
        /\ ~Strays
        /\ NewBlock(size)
        /\ state' = IF zero THEN "corrupt" ELSE state
     \/ /\ Candidates(size, aligned) = {}
        /\ Strays
        /\ state' = "corrupt"
        /\ UNCHANGED <<blocks, current, wild, pieces>>
  /\ UNCHANGED <<large, heap, peak>>

-----------------------------------------------------------------------------
(***************************************************************************)
(* Large requests: mp_memalign_large, mp_alloc_large.                      *)
(***************************************************************************)
(* The first nodes of the list, as far as the search for a free one goes;  *)
(* at fault: one less.                                                     *)
ProbedShort == 1 .. Min({Len(large), Probes + 1})
Probed     == 1 .. Min({Len(large), Probes + 2})
FreeProbed == {k \in Probed : large[k] = Null}

HeapWith(c) ==
  /\ heap' = heap \cup {c}
  /\ peak' = Max({peak, Cardinality(heap) + 1})

ReuseNode(c) ==
  /\ FreeProbed # {}
  /\ large' = [large EXCEPT ![Min(FreeProbed)] = c]
  /\ HeapWith(c)
  /\ UNCHANGED <<state, blocks, current, wild, pieces>>

(* A new node, which needs small space, and is written there. *)
AddNode(c) ==
  /\ FreeProbed = {}
  /\ TakeSpace(LargeNode, TRUE)
  /\ large' = <<c>> \o large
  /\ HeapWith(c)
  /\ state' = IF Outside(LargeNode, TRUE) THEN "corrupt" ELSE state

(* There is no small space for the node.  Either no block can be had, and  *)
(* the chunk is freed again (at fault: forgotten); or the node is written  *)
(* where mp_alloc_block has not said it is.                                *)
HeapWithoutNodeKept(c) == heap \cup {c}
HeapWithoutNode(c)     == heap

NodeFails(c) ==
  /\ FreeProbed = {}
  /\ Candidates(LargeNode, TRUE) = {}
  /\ \/ /\ ~Strays
        /\ heap' = HeapWithoutNode(c)
        /\ UNCHANGED state
     \/ /\ heap' = heap \cup {c}
        /\ state' = "corrupt"
  /\ UNCHANGED <<blocks, current, wild, large, pieces, peak>>

Large(size) ==
  /\ state = "live"
  /\ size > Limit
  /\ \E c \in Chunks \ heap : ReuseNode(c) \/ AddNode(c) \/ NodeFails(c)

(* The first node that has the address is emptied, and kept. *)
mp_free(c) ==
  /\ state = "live"
  /\ \E k \in 1 .. Len(large) :
       /\ large[k] = c
       /\ \A j \in 1 .. k - 1 : large[j] # c
       /\ large' = [large EXCEPT ![k] = Null]
  /\ heap' = heap \ {c}
  /\ UNCHANGED <<state, blocks, current, wild, pieces, peak>>

-----------------------------------------------------------------------------
(***************************************************************************)
(* The pool as a whole.                                                    *)
(***************************************************************************)
Allocs == {large[k] : k \in 1 .. Len(large)} \ {Null}

(* mp_reset_pool keeps the blocks and empties them.  At fault: they start  *)
(* where their nodes do, or only the first one is kept.                    *)
ResetToHeader(b) == Header(b)
ResetTo(b)       == Start(b)

FirstBlock  == <<[blocks[1] EXCEPT !.last = ResetTo(1)]>>
ResetBlocks ==
  [b \in 1 .. Len(blocks) |-> [blocks[b] EXCEPT !.last = ResetTo(b)]]

(* Neither current nor failed is reset. *)
mp_reset_pool ==
  /\ state = "live"
  /\ heap' = heap \ Allocs
  /\ large' = <<>>
  /\ blocks' = ResetBlocks
  /\ pieces' = {}
  /\ state' = IF Strays THEN "corrupt" ELSE state
  /\ UNCHANGED <<current, wild, peak>>

(* mp_destory_pool: the large chunks, the blocks, and the pool with the    *)
(* first block.                                                            *)
mp_destory_pool ==
  /\ state = "live"
  /\ heap' = heap \ Allocs
  /\ state' = IF Strays THEN "corrupt" ELSE "destroyed"
  /\ large' = <<>>
  /\ pieces' = {}
  /\ UNCHANGED <<blocks, current, wild, peak>>

(* The program writes to what it was given: to a node, where it was told   *)
(* what rax happened to hold, or behind a block, to what is not the pool's.*)
Write ==
  /\ state = "live"
  /\ \E r \in pieces : ~r.known \/ r.to > blocks[r.block].end
  /\ state' = "corrupt"
  /\ UNCHANGED <<blocks, current, wild, large, heap, pieces, peak>>

mp_alloc(size)  == Small(size, TRUE, FALSE) \/ Large(size)
mp_nalloc(size) == Small(size, FALSE, FALSE) \/ Large(size)
mp_calloc(size) == Small(size, TRUE, TRUE) \/ Large(size)

Next ==
  \/ \E size \in Sizes : mp_alloc(size) \/ mp_nalloc(size) \/ mp_calloc(size)
  \/ \E c \in Chunks : mp_free(c)
  \/ mp_reset_pool
  \/ mp_destory_pool
  \/ Write

Spec == Init /\ [][Next]_vars

-----------------------------------------------------------------------------
(***************************************************************************)
(* Properties.                                                             *)
(***************************************************************************)
(* Types of the variables. *)
TypeOK ==
  /\ state \in {"live", "destroyed", "corrupt"}
  /\ blocks \in Seq([last : Nat, end : Nat, failed : Nat])
  /\ current \in 1 .. Len(blocks)
  /\ wild \in BOOLEAN
  /\ large \in Seq(Chunks \cup {Null})
  /\ heap \subseteq Chunks
  /\ pieces \subseteq [block : 1 .. Len(blocks), from : Nat, to : Nat, known : BOOLEAN]
  /\ peak \in Nat

(* Whatever was asked for, reset and asked for again: no two pieces of a   *)
(* block overlap and none overlaps the node in front of the block.  Where  *)
(* the end of a block is aligned, as that of every block but the first is  *)
(* in a pool of 4096 bytes, all its pieces lie within it, the first piece  *)
(* of a new block too (165, 169).                                          *)
PiecesApart ==
  \A r \in pieces :
    /\ r.from >= Start(r.block)
    /\ blocks[r.block].end % Alignment = 0 => r.to <= blocks[r.block].end
    /\ \A s \in pieces : r # s /\ r.block = s.block => r.to <= s.from \/ s.to <= r.from

(* Lines 43, 268: end is where the memory of a block ends, and space is    *)
(* given out where there is enough of it.                                  *)
StaysInBlock == \A r \in pieces : r.to <= blocks[r.block].end

(* Line 148: mp_alloc_block returns the address of the space it reserves.  *)
SpaceIsReturned == \A r \in pieces : r.known

(* Every chunk of the heap is in exactly one node of the large list: reset *)
(* and destruction free each of them once and leave none.                  *)
HeapOwned ==
  state # "corrupt" =>
    /\ heap = Allocs
    /\ \A j, k \in 1 .. Len(large) : large[j] = large[k] /\ j # k => large[j] = Null

(* As long as there were never more chunks than the search looks at, the   *)
(* list has a node for each of them at most: nodes are reused (194, 232).  *)
LargeListBounded ==
  peak <= Probes + 2 => Len(large) <= peak

(* Line 173: current moves past a block when it has failed often enough,   *)
(* and not before, however many blocks come behind it at the same time,    *)
(* and a reset, which empties the blocks, forgets neither.                 *)
WornAreSkipped ==
  \A b \in 1 .. Len(blocks) : b < current <=> blocks[b].failed >= SkipAfter + 2
=============================================================================
