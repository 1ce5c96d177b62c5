-------------------------------- MODULE Heap --------------------------------
(***************************************************************************)
(* The kernel heap (kernel/memory/heap.c, kernel/memory/kheap.c): a table  *)
(* with one entry per block, a first-fit search over it, and the HAS_NEXT  *)
(* chain that kfree() follows to the end of an allocation.                 *)
(*                                                                         *)
(* The table lies at 0x7E00, right above the boot sector, so its index -2  *)
(* is the first byte (0x55) of the boot signature.  kfree(NULL), which     *)
(* process_free_allocations() calls for every empty slot, starts its walk  *)
(* at index -Base; the model therefore keeps the bytes below the table.    *)
(* Bytes above the table are never read back and are left out.             *)
(***************************************************************************)
EXTENDS Integers, FiniteSetsExt

CONSTANTS
    Length,     \* table->length: blocks of the heap
    BlockSize,  \* ENKI_HEAP_BLOCK_SIZE
    Base,       \* ENKI_HEAP_ADDRESS / ENKI_HEAP_BLOCK_SIZE
    WordSize,   \* 2^32: sizes are uint32_t
    Sizes       \* the sizes callers ask for

ASSUME HeapAssumption ==
    /\ Length \in Nat \ {0}
    /\ BlockSize \in Nat \ {0}
    /\ Base \in Nat /\ Base >= 2
    /\ WordSize \in Nat /\ BlockSize < WordSize /\ WordSize % BlockSize = 0
    /\ Sizes \subseteq 0 .. (WordSize - 1)

VARIABLES
    entries,    \* the table, and the Base bytes below it
    live,       \* allocations handed out and not freed: block index and size asked for
    ret         \* what the last kmalloc() returned

vars == <<entries, live, ret>>

NULL == 0
ENOMEM == 3

Flag == {"TAKEN", "IS_FIRST", "HAS_NEXT"}
FREE == {}

Index == (-Base) .. (Length - 1)
Block == 0 .. (Length - 1)

-----------------------------------------------------------------------------
(* Conversions *)

heap_align_val(val) ==
    IF val % BlockSize = 0
    THEN val
    ELSE (val - (val % BlockSize) + BlockSize) % WordSize

BlocksFor(size) == heap_align_val(size) \div BlockSize

heap_block_to_address(block) == Base * BlockSize + block * BlockSize

heap_address_to_block(addr) == (addr - Base * BlockSize) \div BlockSize

-----------------------------------------------------------------------------
(* The table *)

IsFree(tbl, i) == "TAKEN" \notin tbl[i]

(* Where the search loop stops: at the lowest run of n free blocks.  When  *)
(* it runs off the table, start is still that of the free run at the end,  *)
(* if there is one.  (n = 0 never equals the count of a non-empty run.)    *)
Fits(tbl, n) ==
    {s \in Block : n > 0 /\ s + n <= Length /\ \A i \in s .. (s + n - 1) : IsFree(tbl, i)}

Trailing(tbl) == {s \in Block : \A i \in s .. (Length - 1) : IsFree(tbl, i)}

(* Mutant: the search forgets to reset start when it meets a taken block. *)
StartNotReset(tbl, n) ==
    IF Fits(tbl, n) # {} THEN Min(Fits(tbl, n))
    ELSE IF Trailing(tbl) # {} THEN Min(Trailing(tbl))
    ELSE Length

heap_get_start_block(tbl, n) ==
    IF Fits(tbl, n) # {} THEN Min(Fits(tbl, n))
    ELSE IF Trailing(tbl) # {} THEN Min(Trailing(tbl))
    ELSE -ENOMEM

(* Mutant: `i != end_block` instead of `i != end_block - 1`. *)
NextOnLastEntry(i, start, end) ==
    {"TAKEN"} \cup (IF i = start THEN {"IS_FIRST"} ELSE {})
              \cup (IF i <= end /\ start # end THEN {"HAS_NEXT"} ELSE {})

(* Mutant: the first entry never gets HAS_NEXT. *)
NoNextOnFirstEntry(i, start, end) ==
    {"TAKEN"} \cup (IF i = start THEN {"IS_FIRST"} ELSE {})
              \cup (IF start < i /\ i < end THEN {"HAS_NEXT"} ELSE {})

TakenEntry(i, start, end) ==
    {"TAKEN"} \cup (IF i = start THEN {"IS_FIRST"} ELSE {})
              \cup (IF i < end THEN {"HAS_NEXT"} ELSE {})

(* Mutant: the loop runs to i < end_block. *)
LastBlockNotMarked(tbl, start, n) ==
    LET end == start + n - 1
    IN  [i \in Index |-> IF i \in start .. (end - 1) THEN TakenEntry(i, start, end) ELSE tbl[i]]

heap_mark_blocks_taken(tbl, start, n) ==
    LET end == start + n - 1
    IN  [i \in Index |-> IF i \in start .. end THEN TakenEntry(i, start, end) ELSE tbl[i]]

(* The entries the free loop visits: it goes on while the entry it has     *)
(* just cleared had HAS_NEXT, and stops at the end of the table.           *)
Chain(tbl, start) ==
    {i \in start .. (Length - 1) : \A j \in start .. (i - 1) : "HAS_NEXT" \in tbl[j]}

(* Mutant: the loop tests HAS_NEXT before it clears the entry. *)
LastBlockNotFreed(tbl, start) ==
    [i \in Index |->
        IF i \in Chain(tbl, start) /\ "HAS_NEXT" \in tbl[i] THEN FREE ELSE tbl[i]]

heap_mark_blocks_free(tbl, start) ==
    [i \in Index |-> IF i \in Chain(tbl, start) THEN FREE ELSE tbl[i]]

-----------------------------------------------------------------------------
(* Mutant: the table is not placed right above the boot signature. *)
InitNoSignature ==
    /\ entries \in [Index -> {FREE, {"HAS_NEXT"}}]
    /\ \A i \in Block : entries[i] = FREE
    /\ live = {}
    /\ ret = NULL

(* kheap_init() clears the table; the bytes below it hold anything, but    *)
(* for the boot signature.                                                 *)
Init ==
    /\ entries \in [Index -> {FREE, {"HAS_NEXT"}}]
    /\ \A i \in Block : entries[i] = FREE
    /\ "HAS_NEXT" \notin entries[-2]
    /\ live = {}
    /\ ret = NULL

(* kmalloc() and kzalloc() *)
kmalloc(size) ==
    LET n == BlocksFor(size)
        start == heap_get_start_block(entries, n)
    IN  \/ /\ start < 0
           /\ ret' = NULL
           /\ UNCHANGED <<entries, live>>
        \/ /\ start >= 0
           /\ ret' = heap_block_to_address(start)
           /\ entries' = heap_mark_blocks_taken(entries, start, n)
           /\ live' = live \cup {[start |-> start, size |-> size]}

kfree(addr) == entries' = heap_mark_blocks_free(entries, heap_address_to_block(addr))

FreeLive(a) ==
    /\ kfree(heap_block_to_address(a.start))
    /\ live' = live \ {a}
    /\ UNCHANGED ret

FreeNull ==
    /\ kfree(NULL)
    /\ UNCHANGED <<live, ret>>

Next ==
    \/ \E size \in Sizes : kmalloc(size)
    \/ \E a \in live : FreeLive(a)
    \/ FreeNull

Spec == Init /\ [][Next]_vars

-----------------------------------------------------------------------------
(* Properties *)

Owned(a) == a.start .. (a.start + BlocksFor(a.size) - 1)

(* entries, live and ret have the shapes the C types give them. *)
TypeOK ==
    /\ entries \in [Index -> SUBSET Flag]
    /\ live \subseteq [start : Block, size : Sizes]
    /\ ret \in {NULL} \cup {heap_block_to_address(b) : b \in Block}

(* Two live allocations of heap_malloc() never own a common block, however  *)
(* allocations, frees and frees of NULL interleave, and even when the       *)
(* search handed out a run that is too short.                               *)
NoOverlap ==
    \A a, b \in live : a # b => Owned(a) \cap Owned(b) = {}

(* heap_mark_blocks_free(), given the pointer of a live allocation, clears  *)
(* exactly the table entries of that allocation.                            *)
FreeIsExact ==
    \A a \in live : Chain(entries, a.start) = Owned(a) \cap Block

(* A block is marked taken in the table exactly when some live allocation  *)
(* owns it: no block is leaked and none is handed out twice.                *)
TakenIsOwned ==
    \A i \in Block : ~IsFree(entries, i) <=> \E a \in live : i \in Owned(a)

(* kfree(NULL) walks up from far below the table: the boot signature stops  *)
(* it before the table, so it never frees somebody's blocks.                *)
NullFreeMissesTable ==
    Chain(entries, heap_address_to_block(NULL)) \cap Block = {}

(* heap.c implements the abstract allocator.                                *)
Abstract == INSTANCE Allocator WITH Need <- [z \in Sizes |-> BlocksFor(z)]
RefinesAllocator == Abstract!Spec

(* An allocation lies inside the heap: a request that does not fit is       *)
(* answered with ENOMEM ("out of memory", status.h).                        *)
InsideHeap == \A a \in live : Owned(a) \subseteq Block
=============================================================================
