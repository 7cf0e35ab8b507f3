-------------------------------- MODULE VimHeap --------------------------------
(***************************************************************************)
(* vim/port/esp_shims.c: Vim's heap.  Every block Vim allocates has a header *)
(* and is counted against the session's budget; blocks others allocated are  *)
(* freed and reallocated through the same calls.  Sizes are words of Word    *)
(* values, and wrap as size_t does.                                          *)
(***************************************************************************)
EXTENDS Integers, FiniteSets, FiniteSetsExt

CONSTANTS
    Ids,        \* pointers
    Word,       \* size_t has as many values
    Header,     \* sizeof(vim_blk_t)
    Room,       \* bytes of memory
    Budget,     \* the session's
    NoBlock

(* A machine's pointers are finitely many, and NULL is no block.            *)
HeapAssumption ==
    /\ IsFiniteSet(Ids) /\ NoBlock \notin [ours : BOOLEAN, size : Nat, asked : Nat]
    /\ {Word, Header, Room, Budget} \subseteq Nat
    /\ Header < Word /\ Room < Word - Header /\ Budget < Word

VARIABLES
    blocks,     \* what each pointer points to: ours is on s_blocks
    used,       \* s_heap_used
    budget,     \* s_heap_budget; 0: none
    lowered     \* history: the budget was lowered in this session

vars == <<blocks, used, budget, lowered>>

MaxSize == Word - 1
Sizes == 0 .. MaxSize
Deltas == {0 - 3, 2}

Of(kind) == {i \in Ids : blocks[i] # NoBlock /\ blocks[i].ours = kind}
Total(ids) == MapThenSumSet(LAMBDA i : blocks[i].size, ids)
Fits(n) == Total(Of(TRUE)) + Header * Cardinality(Of(TRUE)) + Total(Of(FALSE)) + n <= Room

OverBudget(more) == budget # 0 /\ (used + more) % Word > budget
Refused(size) == size > MaxSize - Header \/ OverBudget(size)

(* blk_link(), with what was asked for as history.                          *)
Link(i, size, asked, of) ==
    /\ blocks' = [blocks EXCEPT ![i] = [ours |-> TRUE, size |-> size, asked |-> asked]]
    /\ used' = (of + size) % Word

(* esp_vim_malloc(): Vim reports "out of memory" itself.                    *)
Allocate(i, size, asked) ==
    /\ \/ ~Refused(size) /\ Fits(size + Header) /\ Link(i, size, asked, used)
       \/ UNCHANGED <<blocks, used>>
    /\ UNCHANGED <<budget, lowered>>

Malloc(i, size) == blocks[i] = NoBlock /\ Allocate(i, size, size)

(* Mistake: the product is taken as it comes. *)
CallocWraps(i, n, size) ==
    blocks[i] = NoBlock /\ Allocate(i, (n * size) % Word, n * size)

(* esp_vim_calloc(): not if the product would wrap.                         *)
Calloc(i, n, size) ==
    /\ blocks[i] = NoBlock /\ n * size <= MaxSize
    /\ Allocate(i, (n * size) % Word, n * size)

(* esp_vim_free(): a block of somebody else's goes back to where it is from. *)
Free(i) ==
    /\ blocks[i] # NoBlock /\ blocks' = [blocks EXCEPT ![i] = NoBlock]
    /\ used' = IF blocks[i].ours THEN (used - blocks[i].size) % Word ELSE used
    /\ UNCHANGED <<budget, lowered>>

(* esp_vim_realloc(): a foreign block is copied to Vim's heap; one of Vim's
   leaves the list, for it may move, and is back on it, moved or not.        *)
Realloc(i, size) ==
    /\ blocks[i] # NoBlock
    /\ IF size = 0 THEN Free(i)
       ELSE IF ~blocks[i].ours THEN Allocate(i, size, size)
       ELSE LET old == blocks[i].size IN
            /\ \/ ~(size > old /\ OverBudget(size - old)) /\ size <= MaxSize - Header
                  /\ (size <= old \/ Fits(size - old)) /\ Link(i, size, size, used - old)
               \/ UNCHANGED <<blocks, used>>
            /\ UNCHANGED <<budget, lowered>>

(* esp_vim_heap_budget_adjust(): never to 0, which would mean unlimited.    *)
Adjust(delta) ==
    /\ budget + delta <= MaxSize
    /\ budget' = IF budget = 0 THEN 0 ELSE IF 0 - delta >= budget THEN 1 ELSE budget + delta
    /\ lowered' = (lowered \/ budget' < budget)
    /\ UNCHANGED <<blocks, used>>

(* vim_heap_release_all(), and the budget of the new session.               *)
NewSession ==
    /\ blocks' = [i \in Ids |-> IF i \in Of(TRUE) THEN NoBlock ELSE blocks[i]]
    /\ used' = 0 /\ budget' = Budget /\ lowered' = FALSE

(* A library allocates a block that Vim is to free.                         *)
Foreign(i, size) ==
    /\ blocks[i] = NoBlock /\ Fits(size)
    /\ blocks' = [blocks EXCEPT ![i] = [ours |-> FALSE, size |-> size, asked |-> size]]
    /\ UNCHANGED <<used, budget, lowered>>

Init ==
    /\ blocks = [i \in Ids |-> NoBlock] /\ used = 0 /\ budget = Budget /\ lowered = FALSE

Next ==
    \/ NewSession \/ \E d \in Deltas : Adjust(d)
    \/ \E i \in Ids :
        \/ Free(i)
        \/ \E s \in Sizes : Malloc(i, s) \/ Realloc(i, s) \/ Foreign(i, s)
                            \/ \E n \in Sizes : Calloc(i, n, s)

Spec == Init /\ [][Next]_vars

-----------------------------------------------------------------------------
(* However blocks of Vim's and of others are mixed: what is counted is what
   Vim holds, no block is shorter than was asked for, and a session with a
   budget has one for good and does not exceed it, unless it is lowered.     *)
HeapAccounts ==
    /\ used = Total(Of(TRUE))
    /\ \A i \in Of(TRUE) : blocks[i].size >= blocks[i].asked
    /\ Budget # 0 => budget # 0
    /\ budget # 0 /\ ~lowered => used <= budget
=============================================================================
