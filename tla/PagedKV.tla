------------------------------ MODULE PagedKV ------------------------------
(***************************************************************************)
(* The paged KV store of the native decoder (c/qwn_paged_kv.c): one pool   *)
(* of physical blocks, a stack of free block numbers, and one block table  *)
(* per request that maps token positions to blocks.                        *)
(*                                                                         *)
(* `mem' is key_data (val_data is written and read at the same offsets).   *)
(* Its addresses are the code's offsets, counted in rows of head_dim       *)
(* halves: head_dim and kv_heads are one row, block_stride is              *)
(* Layers * BlockSize and layer_offset is layer * BlockSize.  What a row   *)
(* holds is a member of Vals, or Zero, the memset of qwn_kv_pool_init.     *)
(* The library runs on one thread.                                         *)
(***************************************************************************)
EXTENDS Integers, Sequences, FiniteSets, Functions, SequencesExt

CONSTANTS Requests,    \* the callers' block tables
          TotalBlocks, \* pool->total_blocks
          BlockSize,   \* QWN_PAGE_BLOCK_SIZE (16)
          Layers,      \* pool->layers
          MinCapacity, \* least block_capacity of a table (4)
          MaxTokens,   \* bound of the model on num_tokens
          Vals,        \* what a caller may store in a row
          Zero

ASSUME PoolAssumption ==
    /\ TotalBlocks \in Nat \ {0}
    /\ BlockSize \in Nat \ {0}
    /\ Layers \in Nat \ {0}
    /\ MinCapacity \in Nat \ {0}
    /\ MaxTokens \in Nat
    /\ Zero \notin Vals

VARIABLES freeStack, \* free_stack[0 .. free_top - 1]; the top is the last
          table,     \* QwnBlockTable of each request
          mem        \* key_data / val_data

vars == <<freeStack, table, mem>>

Blocks == 0 .. TotalBlocks - 1
LayerIds == 0 .. Layers - 1
Addresses == 0 .. TotalBlocks * Layers * BlockSize - 1

\* A table that qwn_block_table_free has zeroed: block_ids is NULL.
NoTable == [live |-> FALSE, numTokens |-> 0, ids |-> <<>>, capacity |-> 0]

Init ==
    /\ freeStack = [i \in 1 .. TotalBlocks |-> TotalBlocks - i]
    /\ table = [r \in Requests |-> NoTable]
    /\ mem = [a \in Addresses |-> Zero]

----------------------------------------------------------------------------
\* required_blocks for n tokens, rounded up.
BlocksFor(n) == (n + BlockSize - 1) \div BlockSize

\* block_stride without the number of layers.
AddressInShared(block, layer, offset) ==
    block * BlockSize + layer * BlockSize + offset

\* base + offset_in_block of qwn_paged_kv_write for one physical block.
AddressIn(block, layer, offset) ==
    block * (Layers * BlockSize) + layer * BlockSize + offset

\* Where a table keeps the row of token position `pos'.
Locate(t, layer, pos) ==
    AddressIn(t.ids[pos \div BlockSize + 1], layer, pos % BlockSize)

\* valid_block_table(): what attention insists on before it reads.
ValidTable(t) ==
    /\ t.live
    /\ Len(t.ids) <= t.capacity
    /\ BlocksFor(t.numTokens) <= Len(t.ids)
    /\ \A i \in 1 .. BlocksFor(t.numTokens) : t.ids[i] \in Blocks

\* The rows qwn_paged_attention_head dots with the query, in order.
DirectRows(t, layer) ==
    [i \in 1 .. t.numTokens |-> mem[Locate(t, layer, i - 1)]]

\* The last block is copied whole.
GatheredBlockWhole(t, layer, b) ==
    [i \in 1 .. BlockSize |-> mem[AddressIn(t.ids[b + 1], layer, 0) + i - 1]]

\* What one memcpy of qwn_paged_attention_gather_head copies: whole blocks,
\* and only the tokens in use of the last one.
GatheredBlock(t, layer, b) ==
    LET last == BlocksFor(t.numTokens) - 1
        inBlock == IF b = last THEN t.numTokens - b * BlockSize ELSE BlockSize
    IN  [i \in 1 .. inBlock |-> mem[AddressIn(t.ids[b + 1], layer, 0) + i - 1]]

\* The scratchpad the gathering kernel then reads.
GatheredRows(t, layer) ==
    FlattenSeq([b \in 1 .. BlocksFor(t.numTokens) |-> GatheredBlock(t, layer, b - 1)])

----------------------------------------------------------------------------
\* qwn_block_table_init; a failed malloc leaves the caller without a table.
TableInit(r, wanted) ==
    /\ ~table[r].live
    /\ table' = [table EXCEPT ![r] =
                   [live |-> TRUE, numTokens |-> 0, ids |-> <<>>,
                    capacity |-> IF wanted > MinCapacity THEN wanted ELSE MinCapacity]]
    /\ UNCHANGED <<freeStack, mem>>

\* free_top is not decremented.
TakeBlockKept(r, grown) ==
    /\ freeStack' = freeStack
    /\ table' = [table EXCEPT ![r] =
                   [live |-> TRUE, numTokens |-> @.numTokens + 1,
                    ids |-> Append(@.ids, Last(freeStack)),
                    capacity |-> IF grown THEN 2 * @.capacity ELSE @.capacity]]
    /\ UNCHANGED mem

\* qwn_kv_pool_alloc_block, then the table takes the block; `grown' says
\* that block_ids had to be doubled first.
TakeBlock(r, grown) ==
    /\ freeStack' = Front(freeStack)
    /\ table' = [table EXCEPT ![r] =
                   [live |-> TRUE, numTokens |-> @.numTokens + 1,
                    ids |-> Append(@.ids, Last(freeStack)),
                    capacity |-> IF grown THEN 2 * @.capacity ELSE @.capacity]]
    /\ UNCHANGED mem

\* The rounding forgets the token being added.
NeedsBlockLate(r) == BlocksFor(table[r].numTokens) > Len(table[r].ids)

MustGrow(r) == Len(table[r].ids) >= table[r].capacity
NeedsBlock(r) == BlocksFor(table[r].numTokens + 1) > Len(table[r].ids)

\* qwn_block_table_append_token returning 0.
AppendToken(r) ==
    /\ table[r].live
    /\ table[r].numTokens < MaxTokens
    /\ \/ /\ NeedsBlock(r)
          /\ freeStack # <<>>
          /\ TakeBlock(r, MustGrow(r))
       \/ /\ ~NeedsBlock(r)
          /\ table' = [table EXCEPT ![r].numTokens = @ + 1]
          /\ UNCHANGED <<freeStack, mem>>

\* A failed realloc forgets the block it had popped.
AppendFailsLeaky(r) ==
    /\ table[r].live
    /\ NeedsBlock(r)
    /\ \/ /\ freeStack = <<>>
          /\ UNCHANGED vars
       \/ /\ freeStack # <<>>
          /\ MustGrow(r)
          /\ freeStack' = Front(freeStack)
          /\ UNCHANGED <<table, mem>>

\* qwn_block_table_append_token returning -1: the pool is empty, or the
\* realloc of block_ids fails and the block just popped is pushed back.
AppendFails(r) ==
    /\ table[r].live
    /\ NeedsBlock(r)
    /\ \/ /\ freeStack = <<>>
          /\ UNCHANGED vars
       \/ /\ freeStack # <<>>
          /\ MustGrow(r)
          /\ freeStack' = Append(Front(freeStack), Last(freeStack))
          /\ UNCHANGED <<table, mem>>

\* qwn_paged_kv_write returning 0; its guards refuse every other call.
Write(r, layer, pos, v) ==
    /\ table[r].live
    /\ layer \in LayerIds
    /\ pos \in 0 .. table[r].numTokens - 1
    /\ pos \div BlockSize < Len(table[r].ids)
    /\ table[r].ids[pos \div BlockSize + 1] \in Blocks
    /\ mem' = [mem EXCEPT ![Locate(table[r], layer, pos)] = v]
    /\ UNCHANGED <<freeStack, table>>

\* free_top >= total_blocks - 1: the guard is off by one.
PushedShort(stack, ids) ==
    LET room == TotalBlocks - 1 - Len(stack)
    IN  stack \o SubSeq(ids, 1, IF Len(ids) < room THEN Len(ids) ELSE room)

\* qwn_kv_pool_free_block for the blocks of a table, in order: all are valid
\* block numbers, and a push on a full stack is silently ignored.
Pushed(stack, ids) ==
    LET room == TotalBlocks - Len(stack)
    IN  stack \o SubSeq(ids, 1, IF Len(ids) < room THEN Len(ids) ELSE room)

\* The blocks go back to the pool but the table is not zeroed.
TableFreeInUse(r) ==
    /\ table[r].live
    /\ freeStack' = Pushed(freeStack, table[r].ids)
    /\ UNCHANGED <<table, mem>>

\* qwn_block_table_free.
TableFree(r) ==
    /\ table[r].live
    /\ freeStack' = Pushed(freeStack, table[r].ids)
    /\ table' = [table EXCEPT ![r] = NoTable]
    /\ UNCHANGED mem

Next ==
    \E r \in Requests :
        \/ \E wanted \in {0, TotalBlocks} : TableInit(r, wanted)
        \/ AppendToken(r)
        \/ AppendFails(r)
        \/ \E layer \in LayerIds, pos \in 0 .. MaxTokens - 1, v \in Vals :
               Write(r, layer, pos, v)
        \/ TableFree(r)

Spec == Init /\ [][Next]_vars

----------------------------------------------------------------------------
Held(r) == Range(table[r].ids)

\* Every field of the pool and of the tables keeps its type.
TypeOK ==
    /\ freeStack \in Seq(Blocks)
    /\ table \in [Requests -> [live : BOOLEAN, numTokens : Nat,
                               ids : Seq(Blocks), capacity : Nat]]
    /\ mem \in [Addresses -> Vals \cup {Zero}]

\* A physical block is on the free stack at most once, in at most one table,
\* and at most once in that table: two conversations never share a page,
\* whatever order tables are freed in and whichever append fails half way.
BlockOwnedOnce ==
    /\ IsInjective(freeStack)
    /\ \A r \in Requests : /\ IsInjective(table[r].ids)
                           /\ Held(r) \cap Range(freeStack) = {}
    /\ \A r, s \in Requests : r # s => Held(r) \cap Held(s) = {}

\* Every block is on the free stack or in a table: a failed append, or the
\* silent `return' of qwn_kv_pool_free_block when the stack is full, never
\* drops one.
NoBlockLost ==
    Range(freeStack) \cup UNION {Held(r) : r \in Requests} = Blocks

\* A table holds exactly the blocks its tokens need and never more of them
\* than block_ids has room for, so attention never refuses a live table.
TableExact ==
    \A r \in Requests : table[r].live =>
        /\ Len(table[r].ids) = BlocksFor(table[r].numTokens)
        /\ ValidTable(table[r])

\* Every page of the pool is accounted for, once, whatever fails on the way.
BlocksAccounted == BlockOwnedOnce /\ NoBlockLost /\ TableExact

\* The two attention kernels see the same rows: gathering block by block
\* into the scratchpad loses, repeats and reorders nothing.
KernelsAgree ==
    \A r \in Requests, layer \in LayerIds : ValidTable(table[r]) =>
        GatheredRows(table[r], layer) = DirectRows(table[r], layer)

\* Paging is invisible: the pool implements one private, contiguous array
\* of rows per request and layer.
Rows == [r \in Requests |-> [layer \in LayerIds |->
            IF table[r].live THEN DirectRows(table[r], layer) ELSE <<>>]]

Contiguous == INSTANCE KVRows WITH rows <- Rows

ImplementsRows == Contiguous!Spec
============================================================================
