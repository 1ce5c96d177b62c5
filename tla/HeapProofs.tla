----------------------------- MODULE HeapProofs -----------------------------
(***************************************************************************)
(* Proofs about Heap, for heaps and tables of every size, and that the     *)
(* loops of HeapLoops implement it.                                        *)
(***************************************************************************)
EXTENDS Heap, WellFoundedInduction, TLAPS

VARIABLES work, frame   \* of the loops: the table they change, and their locals

(* HeapLoops, with Heap's own table for the one its calls leave behind. *)
L == INSTANCE HeapLoops WITH entries <- work, table <- entries

(* Every request is for at least one block: neither size 0, nor a size so  *)
(* close to 2^32 that heap_align_val() wraps to 0.                         *)
SizedRequests == \A z \in Sizes : BlocksFor(z) >= 1

End(a) == a.start + BlocksFor(a.size) - 1

(* Every entry of a live allocation is marked taken, and all but its last  *)
(* one have HAS_NEXT.                                                      *)
Chained ==
    \A a \in live : \A i \in Owned(a) \cap Block :
        /\ "TAKEN" \in entries[i]
        /\ "HAS_NEXT" \in entries[i] <=> i < End(a)

BootSignature == "HAS_NEXT" \notin entries[-2]

IInv ==
    /\ TypeOK
    /\ NoOverlap
    /\ Chained
    /\ TakenIsOwned
    /\ BootSignature

-----------------------------------------------------------------------------
(* Operators *)

(* Min, which picks the lowest run of the search, is a member of its set.  *)
LEMMA MinIsMember ==
    ASSUME NEW S \in SUBSET Nat, S # {}
    PROVE  Min(S) \in S /\ \A y \in S : Min(S) =< y
<1>1. PICK x \in S : \A y \in S : ~(<<y, x>> \in OpToRel(<, Nat))
  BY NatLessThanWellFounded, WFMin
<1>2. \A y \in S : ~(y < x)
  BY <1>1, Zenon DEF OpToRel
<1>3. \A y \in S : x =< y
  BY <1>2
<1> QED
  BY <1>3 DEF Min

(* The number of blocks of a request is a natural number. *)
LEMMA BlocksForType ==
    ASSUME NEW z \in Sizes
    PROVE  BlocksFor(z) \in Nat
<1>1. heap_align_val(z) \in Nat
  BY HeapAssumption DEF heap_align_val
<1> QED
  BY <1>1, HeapAssumption DEF BlocksFor

(* The search returns a block whose run, as far as it lies in the table,   *)
(* is free, or -ENOMEM.                                                    *)
LEMMA StartBlockIsFree ==
    ASSUME NEW tbl, NEW n \in Nat
    PROVE  LET s == heap_get_start_block(tbl, n)
           IN  \/ s = -ENOMEM
               \/ s \in Block /\ \A i \in (s .. (s + n - 1)) \cap Block : IsFree(tbl, i)
<1> DEFINE s == heap_get_start_block(tbl, n)
<1>1. CASE Fits(tbl, n) # {}
  <2>1. Fits(tbl, n) \in SUBSET Nat
    BY HeapAssumption DEF Fits, Block
  <2>2. s \in Fits(tbl, n)
    BY <1>1, <2>1, MinIsMember DEF heap_get_start_block
  <2> QED
    BY <2>2 DEF Fits
<1>2. CASE Fits(tbl, n) = {} /\ Trailing(tbl) # {}
  <2>1. Trailing(tbl) \in SUBSET Nat
    BY HeapAssumption DEF Trailing, Block
  <2>2. s \in Trailing(tbl)
    BY <1>2, <2>1, MinIsMember DEF heap_get_start_block
  <2> QED
    BY <2>2, HeapAssumption DEF Trailing, Block
<1>3. CASE Fits(tbl, n) = {} /\ Trailing(tbl) = {}
  BY <1>3 DEF heap_get_start_block
<1> QED
  BY <1>1, <1>2, <1>3

(* Dividing a multiple of the block size gives back the factor. *)
LEMMA DivOfMultiple ==
    ASSUME NEW m \in Nat \ {0}, NEW k \in Int
    PROVE  (k * m) \div m = k
  OBVIOUS

(* A pointer kmalloc() returned names the block it was made from, and NULL *)
(* the entry Base below the table.                                         *)
LEMMA AddressRoundTrip ==
    /\ \A b \in Int : heap_address_to_block(heap_block_to_address(b)) = b
    /\ heap_address_to_block(NULL) = -Base
<1>1. ASSUME NEW b \in Int
      PROVE  heap_address_to_block(heap_block_to_address(b)) = b
  <2>1. Base * BlockSize + b * BlockSize - Base * BlockSize = b * BlockSize
    BY HeapAssumption
  <2> QED
    BY <2>1, DivOfMultiple, HeapAssumption DEF heap_address_to_block, heap_block_to_address
<1>2. NULL - Base * BlockSize = (-Base) * BlockSize
  BY HeapAssumption DEF NULL
<1>3. heap_address_to_block(NULL) = -Base
  BY <1>2, DivOfMultiple, HeapAssumption DEF heap_address_to_block
<1> QED
  BY <1>1, <1>3

(* Given the inductive invariant, the walk of a free covers exactly the    *)
(* allocation it starts at.                                                *)
LEMMA WalkIsExact ==
    ASSUME SizedRequests, IInv, NEW a \in live
    PROVE  Chain(entries, a.start) = Owned(a) \cap Block
<1>0. /\ a.start \in Block /\ BlocksFor(a.size) \in Nat /\ BlocksFor(a.size) >= 1
      /\ Length \in Nat
  BY BlocksForType, HeapAssumption DEF IInv, TypeOK, SizedRequests
<1>1. ASSUME NEW i \in Owned(a) \cap Block
      PROVE  i \in Chain(entries, a.start)
  <2>1. \A j \in a.start .. (i - 1) : j \in Owned(a) \cap Block /\ j < End(a)
    BY <1>0, <1>1 DEF Owned, Block, End
  <2> QED
    BY <1>0, <1>1, <2>1 DEF Chain, IInv, Chained, Owned, Block
<1>2. ASSUME NEW i \in Chain(entries, a.start), i \notin Owned(a) \cap Block
      PROVE  FALSE
  <2>1. End(a) \in a.start .. (i - 1)
    BY <1>0, <1>2 DEF Chain, Owned, Block, End
  <2>2. End(a) \in Owned(a) \cap Block
    BY <1>0, <1>2, <2>1 DEF Chain, Owned, Block, End
  <2>3. "HAS_NEXT" \in entries[End(a)]
    BY <1>2, <2>1 DEF Chain
  <2>4. ~(End(a) < End(a))
    BY <1>0 DEF Block, End
  <2> QED
    BY <2>2, <2>3, <2>4 DEF IInv, Chained
<1> QED
  BY <1>1, <1>2

(* The walk of kfree(NULL) never gets past the boot signature. *)
LEMMA NullWalkStops ==
    ASSUME BootSignature
    PROVE  Chain(entries, heap_address_to_block(NULL)) \cap Block = {}
<1>1. heap_address_to_block(NULL) = -Base
  BY AddressRoundTrip
<1>2. ASSUME NEW i \in Chain(entries, -Base), i \in Block
      PROVE  FALSE
  <2>1. -2 \in (-Base) .. (i - 1)
    BY <1>2, HeapAssumption DEF Block
  <2> QED
    BY <1>2, <2>1 DEF Chain, BootSignature
<1> QED
  BY <1>1, <1>2

-----------------------------------------------------------------------------
(* The inductive invariant *)

(* kheap_init() leaves an empty, consistent table.                         *)
LEMMA InitIInv == Init => IInv
<1> SUFFICES ASSUME Init PROVE IInv
  OBVIOUS
<1>1. TypeOK
  BY DEF Init, TypeOK, Flag, FREE
<1>2. TakenIsOwned
  BY DEF Init, TakenIsOwned, IsFree, FREE
<1> QED
  BY <1>1, <1>2 DEF Init, IInv, NoOverlap, Chained, BootSignature

(* kmalloc() keeps the table consistent, whatever the search returned.     *)
LEMMA MallocIInv ==
    ASSUME SizedRequests, IInv, NEW size \in Sizes, kmalloc(size)
    PROVE  IInv'
<1> DEFINE n == BlocksFor(size)
           s == heap_get_start_block(entries, n)
           new == [start |-> s, size |-> size]
<1>0. n \in Nat /\ n >= 1 /\ Length \in Nat /\ Length >= 1 /\ Base \in Nat /\ Base >= 2
  BY BlocksForType, HeapAssumption DEF SizedRequests
<1>1. \/ s = -3
      \/ s \in Block /\ \A i \in (s .. (s + n - 1)) \cap Block : IsFree(entries, i)
  BY <1>0, StartBlockIsFree DEF ENOMEM
<1>2. s \in Int
  BY <1>0, <1>1 DEF Block
<1>3. CASE s < 0
  <2>1. UNCHANGED <<entries, live>> /\ ret' = NULL
    BY <1>3, <1>2 DEF kmalloc
  <2> QED
    BY <2>1 DEF IInv, TypeOK, NoOverlap, Chained, TakenIsOwned, BootSignature,
                Owned, End, IsFree
<1>4. CASE s >= 0
  <2>1. /\ ret' = heap_block_to_address(s)
        /\ entries' = heap_mark_blocks_taken(entries, s, n)
        /\ live' = live \cup {new}
    BY <1>4, <1>2 DEF kmalloc
  <2>2. /\ s \in Block
        /\ \A i \in (s .. (s + n - 1)) \cap Block : IsFree(entries, i)
    BY <1>4, <1>1
  <2>3. Owned(new) = s .. (s + n - 1) /\ End(new) = s + n - 1
    BY DEF Owned, End
  <2>4. \A i \in Index :
          entries'[i] = IF i \in Owned(new) THEN TakenEntry(i, s, s + n - 1) ELSE entries[i]
    BY <2>1, <2>3 DEF heap_mark_blocks_taken
  <2>5. TypeOK'
    <3>1. entries' \in [Index -> SUBSET Flag]
      BY <2>1 DEF IInv, TypeOK, heap_mark_blocks_taken, TakenEntry, Flag
    <3> QED
      BY <2>1, <2>2, <3>1 DEF IInv, TypeOK
  <2>6. ASSUME NEW a \in live
        PROVE  Owned(a) \cap Owned(new) = {}
    <3>0. a.start \in Block /\ BlocksFor(a.size) \in Nat
      BY BlocksForType DEF IInv, TypeOK
    <3>1. SUFFICES ASSUME NEW i \in Owned(a), i \in Owned(new)
                   PROVE  FALSE
      OBVIOUS
    <3>2. CASE i \in Block
      BY <2>2, <2>3, <3>1, <3>2 DEF IInv, Chained, IsFree
    <3>3. CASE i \notin Block
      <4>1. Length - 1 \in Owned(a) \cap Owned(new) /\ Length - 1 \in Block
        BY <1>0, <2>2, <2>3, <3>0, <3>1, <3>3 DEF Owned, Block
      <4> QED
        BY <2>2, <2>3, <4>1 DEF IInv, Chained, IsFree
    <3> QED
      BY <3>2, <3>3
  <2>7. NoOverlap'
    BY <2>1, <2>6 DEF IInv, NoOverlap, Owned
  <2>8. Chained'
    <3> SUFFICES ASSUME NEW a \in live', NEW i \in Owned(a) \cap Block
                 PROVE  /\ "TAKEN" \in entries'[i]
                        /\ "HAS_NEXT" \in entries'[i] <=> i < End(a)
      BY DEF Chained, Owned, End
    <3>0. i \in Index
      BY <1>0 DEF Block, Index
    <3>1. CASE a \in live
      BY <2>4, <2>6, <3>0, <3>1 DEF IInv, Chained
    <3>2. CASE a = new
      BY <2>3, <2>4, <3>0, <3>2 DEF TakenEntry
    <3> QED
      BY <2>1, <3>1, <3>2
  <2>9. TakenIsOwned'
    <3> SUFFICES ASSUME NEW i \in Block
                 PROVE  "TAKEN" \in entries'[i] <=> \E a \in live' : i \in Owned(a)
      BY DEF TakenIsOwned, Owned, IsFree
    <3>0. i \in Index
      BY <1>0 DEF Block, Index
    <3>1. CASE i \in Owned(new)
      BY <2>1, <2>4, <3>0, <3>1 DEF TakenEntry
    <3>2. CASE i \notin Owned(new)
      BY <2>1, <2>4, <3>0, <3>2 DEF IInv, TakenIsOwned, IsFree
    <3> QED
      BY <3>1, <3>2
  <2>10. BootSignature'
    <3>1. -2 \in Index /\ -2 \notin Owned(new)
      BY <1>0, <2>2, <2>3 DEF Index, Block
    <3> QED
      BY <2>4, <3>1 DEF IInv, BootSignature
  <2> QED
    BY <2>5, <2>7, <2>8, <2>9, <2>10 DEF IInv
<1> QED
  BY <1>3, <1>4, <1>2

(* kfree() of a live pointer removes one allocation and no other.          *)
LEMMA FreeLiveIInv ==
    ASSUME SizedRequests, IInv, NEW a \in live, FreeLive(a)
    PROVE  IInv'
<1>0. a.start \in Block /\ Base \in Nat /\ Base >= 2 /\ Length \in Nat
  BY HeapAssumption DEF IInv, TypeOK
<1>1. heap_address_to_block(heap_block_to_address(a.start)) = a.start
  BY <1>0, AddressRoundTrip DEF Block
<1>2. Chain(entries, a.start) = Owned(a) \cap Block
  BY WalkIsExact
<1>3. /\ \A i \in Index : entries'[i] = IF i \in Owned(a) \cap Block THEN FREE ELSE entries[i]
      /\ entries' \in [Index -> SUBSET Flag]
  BY <1>1, <1>2 DEF FreeLive, kfree, heap_mark_blocks_free, IInv, TypeOK, FREE
<1>4. live' = live \ {a} /\ ret' = ret
  BY DEF FreeLive
<1>5. \A i \in Block : i \in Index
  BY <1>0 DEF Block, Index
<1>6. TypeOK'
  BY <1>3, <1>4 DEF IInv, TypeOK
<1>7. NoOverlap'
  BY <1>4 DEF IInv, NoOverlap, Owned
<1>8. Chained'
  <2> SUFFICES ASSUME NEW b \in live', NEW i \in Owned(b) \cap Block
               PROVE  /\ "TAKEN" \in entries'[i]
                      /\ "HAS_NEXT" \in entries'[i] <=> i < End(b)
    BY DEF Chained, Owned, End
  <2>1. b \in live /\ i \notin Owned(a)
    BY <1>4 DEF IInv, NoOverlap
  <2> QED
    BY <1>3, <1>5, <2>1 DEF IInv, Chained
<1>9. TakenIsOwned'
  <2> SUFFICES ASSUME NEW i \in Block
               PROVE  "TAKEN" \in entries'[i] <=> \E b \in live' : i \in Owned(b)
    BY DEF TakenIsOwned, Owned, IsFree
  <2>1. CASE i \in Owned(a)
    BY <1>3, <1>4, <1>5, <2>1 DEF IInv, NoOverlap, FREE
  <2>2. CASE i \notin Owned(a)
    BY <1>3, <1>4, <1>5, <2>2 DEF IInv, TakenIsOwned, IsFree
  <2> QED
    BY <2>1, <2>2
<1>10. BootSignature'
  <2>1. -2 \in Index /\ -2 \notin Block
    BY <1>0 DEF Index, Block
  <2> QED
    BY <1>3, <2>1 DEF IInv, BootSignature
<1> QED
  BY <1>6, <1>7, <1>8, <1>9, <1>10 DEF IInv

(* kfree(NULL) clears bytes below the table only.                          *)
LEMMA FreeNullIInv ==
    ASSUME IInv, FreeNull
    PROVE  IInv'
<1>0. Base \in Nat /\ Base >= 2 /\ Length \in Nat
  BY HeapAssumption
<1> DEFINE C == Chain(entries, heap_address_to_block(NULL))
<1>1. C \cap Block = {}
  BY NullWalkStops DEF IInv
<1>2. /\ entries' = [i \in Index |-> IF i \in C THEN FREE ELSE entries[i]]
      /\ live' = live /\ ret' = ret
  BY DEF FreeNull, kfree, heap_mark_blocks_free
<1>3. \A i \in Block : i \in Index /\ entries'[i] = entries[i]
  BY <1>0, <1>1, <1>2 DEF Block, Index
<1>4. TypeOK'
  <2>1. entries' \in [Index -> SUBSET Flag]
    BY <1>2 DEF IInv, TypeOK, FREE
  <2> QED
    BY <1>2, <2>1 DEF IInv, TypeOK
<1>5. NoOverlap'
  BY <1>2 DEF IInv, NoOverlap, Owned
<1>6. Chained'
  BY <1>2, <1>3 DEF IInv, Chained, Owned, End
<1>7. TakenIsOwned'
  BY <1>2, <1>3 DEF IInv, TakenIsOwned, IsFree, Owned
<1>8. BootSignature'
  <2>1. -2 \in Index
    BY <1>0 DEF Index
  <2>2. entries'[-2] = FREE \/ entries'[-2] = entries[-2]
    BY <1>2, <2>1
  <2> QED
    BY <2>2 DEF IInv, BootSignature, FREE
<1> QED
  BY <1>4, <1>5, <1>6, <1>7, <1>8 DEF IInv

(* Every operation of the heap keeps the inductive invariant.              *)
LEMMA NextIInv ==
    ASSUME SizedRequests, IInv, [Next]_vars
    PROVE  IInv'
<1>1. CASE Next
  BY <1>1, MallocIInv, FreeLiveIInv, FreeNullIInv DEF Next
<1>2. CASE UNCHANGED vars
  BY <1>2 DEF vars, IInv, TypeOK, NoOverlap, Chained, TakenIsOwned, BootSignature,
              Owned, End, IsFree
<1> QED
  BY <1>1, <1>2

(* The inductive invariant holds in every state of heap.c's allocator.     *)
THEOREM Inductive ==
    ASSUME SizedRequests
    PROVE  Spec => []IInv
<1>1. Init => IInv
  BY InitIInv
<1>2. IInv /\ [Next]_vars => IInv'
  BY NextIInv
<1> QED
  BY <1>1, <1>2, PTL DEF Spec

-----------------------------------------------------------------------------
(* Theorems *)

(* The C types hold: block indices stay inside the table, and what         *)
(* kmalloc() returns is NULL or the address of a block of the heap.        *)
THEOREM TypeCorrect ==
    ASSUME SizedRequests
    PROVE  Spec => []TypeOK
<1>1. IInv => TypeOK
  BY DEF IInv
<1> QED
  BY <1>1, Inductive, PTL

(* Two live allocations never own a common block, although the search of   *)
(* heap_get_start_block() may hand out a run that is too short.            *)
THEOREM AllocationsDisjoint ==
    ASSUME SizedRequests
    PROVE  Spec => []NoOverlap
<1>1. IInv => NoOverlap
  BY DEF IInv
<1> QED
  BY <1>1, Inductive, PTL

(* kfree() of a live allocation clears exactly the entries of that         *)
(* allocation.                                                             *)
THEOREM FreesAreExact ==
    ASSUME SizedRequests
    PROVE  Spec => []FreeIsExact
<1>1. IInv => FreeIsExact
  BY WalkIsExact DEF FreeIsExact
<1> QED
  BY <1>1, Inductive, PTL

(* The table marks as taken exactly the blocks of the live allocations.    *)
THEOREM TableIsAccurate ==
    ASSUME SizedRequests
    PROVE  Spec => []TakenIsOwned
<1>1. IInv => TakenIsOwned
  BY DEF IInv
<1> QED
  BY <1>1, Inductive, PTL

(* kfree(NULL) never changes the table.                                    *)
THEOREM NullFreesAreHarmless ==
    ASSUME SizedRequests
    PROVE  Spec => []NullFreeMissesTable
<1>1. IInv => NullFreeMissesTable
  BY NullWalkStops DEF IInv, NullFreeMissesTable
<1> QED
  BY <1>1, Inductive, PTL

(* heap.c implements the abstract allocator: every kmalloc() that returns  *)
(* a block is an Alloc step, every kfree() of a live pointer a Free step,  *)
(* and everything else leaves the allocations alone.                       *)
THEOREM ImplementsAllocator ==
    ASSUME SizedRequests
    PROVE  Spec => RefinesAllocator
<1>1. Init => Abstract!Init
  BY DEF Init, Abstract!Init
<1>2. IInv /\ IInv' /\ [Next]_vars => [Abstract!Next]_live
  <2> SUFFICES ASSUME IInv, IInv', Next
               PROVE  Abstract!Next \/ live' = live
    BY DEF vars
  <2>0. ASSUME NEW a \in live \cup live'
        PROVE  Abstract!Owned(a) = Owned(a) /\ a.size \in Sizes /\ a.start \in Block
    BY DEF IInv, TypeOK, Abstract!Owned, Owned
  <2>1. ASSUME NEW size \in Sizes, kmalloc(size)
        PROVE  Abstract!Next \/ live' = live
    <3> DEFINE new == [start |-> heap_get_start_block(entries, BlocksFor(size)), size |-> size]
    <3>1. CASE live' = live
      BY <3>1
    <3>2. CASE live' = live \cup {new} /\ new \notin live
      <4>1. new.start \in Block
        BY <2>0, <3>2
      <4>2. \A b \in live : Abstract!Owned(new) \cap Abstract!Owned(b) = {}
        <5>1. \A b \in live : Owned(new) \cap Owned(b) = {}
          BY <3>2 DEF IInv, NoOverlap, Owned
        <5> QED
          BY <2>0, <3>2, <5>1
      <4>3. Abstract!Alloc
        BY <3>2, <4>1, <4>2 DEF Abstract!Alloc, Block
      <4> QED
        BY <4>3 DEF Abstract!Next
    <3> QED
      BY <2>1, <3>1, <3>2 DEF kmalloc
  <2>2. ASSUME NEW a \in live, FreeLive(a)
        PROVE  Abstract!Next
    BY <2>2 DEF FreeLive, Abstract!Next, Abstract!Free
  <2>3. CASE FreeNull
    BY <2>3 DEF FreeNull
  <2> QED
    BY <2>1, <2>2, <2>3 DEF Next
<1> QED
  BY <1>1, <1>2, Inductive, PTL DEF Spec, RefinesAllocator, Abstract!Spec

-----------------------------------------------------------------------------
(* The loops *)

(* The names of Heap that HeapLoops uses mean the same here. *)
LEMMA LoopNames ==
    /\ \A z : L!H!BlocksFor(z) = BlocksFor(z)
    /\ \A b : L!H!heap_block_to_address(b) = heap_block_to_address(b)
    /\ \A addr : L!H!heap_address_to_block(addr) = heap_address_to_block(addr)
    /\ L!H!NULL = NULL /\ L!Idle = [loop |-> "none"]
  BY DEF L!H!BlocksFor, BlocksFor, L!H!heap_align_val, heap_align_val,
         L!H!heap_block_to_address, heap_block_to_address,
         L!H!heap_address_to_block, heap_address_to_block, L!H!NULL, NULL, L!Idle

LEMMA SearchNames ==
    ASSUME NEW n
    PROVE  L!H!heap_get_start_block(entries, n) = heap_get_start_block(entries, n)
  BY DEF L!H!heap_get_start_block, heap_get_start_block, L!H!Fits, Fits, L!H!Trailing, Trailing,
         L!H!IsFree, IsFree, L!H!Block, Block, L!H!ENOMEM, ENOMEM, L!H!Min, Min

LEMMA HeapNames ==
    /\ L!H!vars = vars
    /\ L!H!Init <=> Init
    /\ \A z \in Sizes : L!H!kmalloc(z) <=> kmalloc(z)
    /\ \A a \in live : L!H!FreeLive(a) <=> FreeLive(a)
    /\ L!H!FreeNull <=> FreeNull
<1>1. L!H!vars = vars /\ (L!H!Init <=> Init)
  BY DEF L!H!vars, vars, L!H!Init, Init, L!H!Index, Index, L!H!Block, Block, L!H!FREE, FREE,
         L!H!NULL, NULL
<1>2. ASSUME NEW z \in Sizes
      PROVE  L!H!kmalloc(z) <=> kmalloc(z)
  <2>1. ASSUME NEW s, NEW n
        PROVE  L!H!heap_mark_blocks_taken(entries, s, n) = heap_mark_blocks_taken(entries, s, n)
    BY DEF L!H!heap_mark_blocks_taken, heap_mark_blocks_taken, L!H!TakenEntry, TakenEntry,
           L!H!Index, Index
  <2> QED
    BY <2>1, LoopNames, SearchNames DEF L!H!kmalloc, kmalloc
<1>3. ASSUME NEW b
      PROVE  L!H!heap_mark_blocks_free(entries, b) = heap_mark_blocks_free(entries, b)
  BY DEF L!H!heap_mark_blocks_free, heap_mark_blocks_free, L!H!Chain, Chain, L!H!Index, Index,
         L!H!FREE, FREE
<1>4. \A addr : L!H!kfree(addr) <=> kfree(addr)
  BY <1>3, LoopNames DEF L!H!kfree, kfree
<1>5. \A a \in live : L!H!FreeLive(a) <=> FreeLive(a)
  BY <1>4, LoopNames DEF L!H!FreeLive, FreeLive
<1>6. L!H!FreeNull <=> FreeNull
  BY <1>4, LoopNames DEF L!H!FreeNull, FreeNull
<1> QED
  BY <1>1, <1>2, <1>5, <1>6

(* The search has looked at the blocks below i.  None of them ends a run   *)
(* that fits, and start is where the free run in front of i begins.        *)
SearchInv ==
    /\ frame \in [loop : {"search"}, i : 0 .. Length, current : Nat, start : {-1} \cup Block,
                  size : Sizes]
    /\ work = entries
    /\ \A s \in Fits(entries, BlocksFor(frame.size)) : s + BlocksFor(frame.size) > frame.i
    /\ frame.start = -1 =>
          /\ frame.current = 0
          /\ frame.i = 0 \/ ~IsFree(entries, frame.i - 1)
    /\ frame.start # -1 =>
          /\ frame.start < frame.i /\ frame.current = frame.i - frame.start
          /\ \A k \in frame.start .. (frame.i - 1) : IsFree(entries, k)
          /\ frame.start = 0 \/ ~IsFree(entries, frame.start - 1)

Last == frame.start + BlocksFor(frame.size) - 1

(* The entries below i are marked, and the next one to write is made up.   *)
MarkInv ==
    /\ frame \in [loop : {"mark"}, i : Int, start : Block, size : Sizes, entry : SUBSET Flag]
    /\ frame.start = heap_get_start_block(entries, BlocksFor(frame.size))
    /\ frame.i \in frame.start .. (Last + 1)
    /\ frame.i =< Last => frame.entry = TakenEntry(frame.i, frame.start, Last)
    /\ work = [k \in Index |-> IF k \in frame.start .. (frame.i - 1)
                               THEN TakenEntry(k, frame.start, Last) ELSE entries[k]]

(* The walk came from block b to i, over entries that all had HAS_NEXT. *)
WalkFrom(b) ==
    /\ frame.i \in b .. (Length - 1)
    /\ \A k \in b .. (frame.i - 1) : "HAS_NEXT" \in entries[k]
    /\ work = [k \in Index |-> IF k \in b .. (frame.i - 1) THEN FREE ELSE entries[k]]

WalkInv ==
    /\ frame \in [loop : {"free"}, i : Int, freed : SUBSET live]
    /\ \/ \E a \in live : frame.freed = {a} /\ WalkFrom(a.start)
       \/ frame.freed = {} /\ WalkFrom(-Base)

(* What holds between two iterations. *)
LoopInv ==
    /\ TypeOK
    /\ \/ frame = [loop |-> "none"] /\ work = entries
       \/ SearchInv \/ MarkInv \/ WalkInv

(* An iteration that only moves on. *)
Quiet == UNCHANGED <<entries, live, ret>>

LEMMA QuietTypes ==
    ASSUME TypeOK, Quiet
    PROVE  TypeOK'
  BY DEF TypeOK, Quiet

LEMMA FitsIsNatural ==
    ASSUME NEW n \in Nat
    PROVE  Fits(entries, n) \in SUBSET Nat /\ Trailing(entries) \in SUBSET Nat
  BY HeapAssumption DEF Fits, Trailing, Block

(* What heap_mark_blocks_taken() starts from. *)
LEMMA MarkBegins ==
    ASSUME NEW z \in Sizes, NEW s \in Block, work = entries, entries \in [Index -> SUBSET Flag],
           s = heap_get_start_block(entries, BlocksFor(z)),
           UNCHANGED <<work, entries>>, frame' = L!MarkFrame(s, z)
    PROVE  MarkInv'
<1>0. s \in Int /\ BlocksFor(z) \in Nat
  BY BlocksForType, HeapAssumption DEF Block
<1>1. frame' = [loop |-> "mark", i |-> s, start |-> s, size |-> z,
                entry |-> {"TAKEN", "IS_FIRST"}
                            \cup (IF BlocksFor(z) > 1 THEN {"HAS_NEXT"} ELSE {})]
  BY LoopNames DEF L!MarkFrame
<1>2. frame' \in [loop : {"mark"}, i : Int, start : Block, size : Sizes, entry : SUBSET Flag]
  BY <1>0, <1>1 DEF Flag
<1>3. Last' = s + BlocksFor(z) - 1
  BY <1>1 DEF Last
<1>4. s =< Last' => frame'.entry = TakenEntry(s, s, Last')
  <2> SUFFICES ASSUME s =< s + BlocksFor(z) - 1
               PROVE  frame'.entry = TakenEntry(s, s, s + BlocksFor(z) - 1)
    BY <1>3
  <2>1. BlocksFor(z) > 1 <=> s < s + BlocksFor(z) - 1
    BY <1>0
  <2> QED
    BY <1>1, <2>1 DEF TakenEntry
<1>5. work' = [k \in Index |-> IF k \in s .. (s - 1) THEN TakenEntry(k, s, Last')
                                                    ELSE entries'[k]]
  BY <1>0
<1>6. s \in s .. (Last' + 1)
  BY <1>0, <1>3
<1> QED
  BY <1>1, <1>2, <1>4, <1>5, <1>6 DEF MarkInv

LEMMA SearchStep ==
    ASSUME LoopInv, L!Search
    PROVE  LoopInv' /\ Quiet
<1> DEFINE n == BlocksFor(frame.size)
           at == frame.i
           start == IF frame.start = -1 THEN at ELSE frame.start
           current == frame.current + 1
<1>0. /\ Quiet /\ UNCHANGED <<work, entries>> /\ frame.loop = "search" /\ at < Length
      /\ frame' = IF "TAKEN" \in work[at]
                  THEN [frame EXCEPT !.i = @ + 1, !.current = 0, !.start = -1]
                  ELSE IF current = n THEN L!MarkFrame(start, frame.size)
                  ELSE [frame EXCEPT !.i = @ + 1, !.current = current, !.start = start]
  BY LoopNames DEF L!Search, L!Running, Quiet
<1>1. SearchInv
  BY <1>0 DEF LoopInv, MarkInv, WalkInv
<1>2. /\ at \in Block /\ at + 1 \in 0 .. Length /\ n \in Nat /\ frame.size \in Sizes
      /\ work = entries /\ entries \in [Index -> SUBSET Flag] /\ at \in Nat
      /\ frame.current \in Nat /\ Length \in Nat
  BY <1>0, <1>1, BlocksForType, HeapAssumption DEF SearchInv, Block, LoopInv, TypeOK
<1>3. \A s \in Fits(entries, n) : s + n > at
  BY <1>1 DEF SearchInv
<1>4. \A s \in Fits(entries, n) :
          s \in Nat /\ n > 0 /\ s + n =< Length /\ \A k \in s .. (s + n - 1) : IsFree(entries, k)
  BY <1>2 DEF Fits, Block
<1>5. CASE ~IsFree(entries, at)
  <2>1. frame' = [frame EXCEPT !.i = @ + 1, !.current = 0, !.start = -1]
    BY <1>0, <1>2, <1>5 DEF IsFree
  <2>2. ASSUME NEW s \in Fits(entries, n)
        PROVE  s + n > at + 1
    <3>1. s + n = at + 1 => at \in s .. (s + n - 1)
      BY <1>2, <1>4
    <3> QED
      BY <1>2, <1>3, <1>4, <1>5, <3>1
  <2>3. frame'.i = at + 1 /\ frame'.start = -1 /\ frame'.current = 0 /\ frame'.size = frame.size
    BY <1>1, <2>1 DEF SearchInv
  <2>4. frame' \in [loop : {"search"}, i : 0 .. Length, current : Nat, start : {-1} \cup Block,
                    size : Sizes]
    BY <1>1, <1>2, <2>1 DEF SearchInv
  <2>5. at + 1 - 1 = at
    BY <1>2
  <2>6. SearchInv'
    BY <1>0, <1>2, <1>5, <2>2, <2>3, <2>4, <2>5 DEF SearchInv, IsFree, Fits
  <2> QED
    BY <1>0, <2>6, QuietTypes DEF LoopInv
<1>6. CASE IsFree(entries, at)
  <2>1. frame' = IF current = n THEN L!MarkFrame(start, frame.size)
                 ELSE [frame EXCEPT !.i = @ + 1, !.current = current, !.start = start]
    BY <1>0, <1>2, <1>6 DEF IsFree
  <2>2. /\ start \in Block /\ start \in Nat /\ start =< at /\ current = at + 1 - start
        /\ \A k \in start .. at : IsFree(entries, k)
        /\ start = 0 \/ ~IsFree(entries, start - 1)
    <3>1. CASE frame.start = -1
      BY <1>1, <1>2, <1>6, <3>1 DEF SearchInv
    <3>2. CASE frame.start # -1
      <4>1. start = frame.start /\ start \in Block /\ start < at /\ frame.current = at - start
        BY <1>1, <3>2 DEF SearchInv
      <4>2. start \in Nat
        BY <4>1, <1>2 DEF Block
      <4>3. \A k \in start .. at : IsFree(entries, k)
        <5>1. \A k \in start .. at : k \in start .. (at - 1) \/ k = at
          BY <1>2, <4>2
        <5>2. \A k \in start .. (at - 1) : IsFree(entries, k)
          BY <1>1, <3>2, <4>1 DEF SearchInv
        <5> QED
          BY <1>6, <5>1, <5>2
      <4>4. start = 0 \/ ~IsFree(entries, start - 1)
        BY <1>1, <3>2 DEF SearchInv
      <4> QED
        BY <1>2, <4>1, <4>2, <4>3, <4>4
    <3> QED
      BY <3>1, <3>2
  <2> HIDE DEF start, current, n, at
  <2>3. CASE current = n
    <3>1. n > 0 /\ start + n = at + 1
      BY <1>2, <2>2, <2>3
    <3>2. start \in Fits(entries, n)
      <4>1. start + n =< Length /\ start + n - 1 = at
        BY <1>2, <2>2, <3>1
      <4> QED
        BY <2>2, <3>1, <4>1 DEF Fits
    <3>3. \A s \in Fits(entries, n) : start =< s
      BY <1>2, <1>3, <1>4, <2>2, <3>1
    <3>4. start = heap_get_start_block(entries, n)
      <4>1. Min(Fits(entries, n)) \in Fits(entries, n) /\ Min(Fits(entries, n)) =< start
        BY <1>2, <3>2, FitsIsNatural, MinIsMember
      <4>2. start = Min(Fits(entries, n))
        BY <1>4, <2>2, <3>3, <4>1
      <4> QED
        BY <3>2, <4>2 DEF heap_get_start_block
    <3>5. MarkInv'
      BY <1>0, <1>2, <2>1, <2>2, <2>3, <3>4, MarkBegins DEF n
    <3> QED
      BY <1>0, <3>5, QuietTypes DEF LoopInv
  <2>4. CASE current # n
    <3>1. frame' = [frame EXCEPT !.i = @ + 1, !.current = current, !.start = start]
      BY <2>1, <2>4
    <3>2. ASSUME NEW s \in Fits(entries, n)
          PROVE  s + n > at + 1
      <4>1. SUFFICES ASSUME s + n = at + 1
                     PROVE  FALSE
        BY <1>2, <1>3, <1>4
      <4>2. CASE s < start
        <5>1. start # 0 /\ start - 1 \in s .. (s + n - 1)
          BY <1>2, <1>4, <2>2, <4>1, <4>2
        <5> QED
          BY <1>4, <2>2, <5>1
      <4>3. CASE s > start
        <5>1. start + n =< at /\ start + n =< Length
          BY <1>2, <1>4, <2>2, <4>1, <4>3
        <5>2. \A k \in start .. (start + n - 1) : k \in start .. at
          BY <1>2, <2>2, <5>1
        <5>3. start \in Fits(entries, n)
          BY <1>4, <2>2, <5>1, <5>2 DEF Fits
        <5> QED
          BY <1>2, <1>3, <2>2, <5>1, <5>3
      <4>4. CASE s = start
        BY <1>2, <2>2, <2>4, <4>1, <4>4
      <4> QED
        BY <1>4, <2>2, <4>2, <4>3, <4>4
    <3>3. /\ frame'.i = at + 1 /\ frame'.start = start /\ frame'.current = current
          /\ frame'.size = frame.size
      BY <1>1, <3>1 DEF SearchInv, at
    <3>4. current \in Nat /\ start # -1 /\ start < at + 1 /\ at + 1 - 1 = at
      BY <1>2, <2>2
    <3>5. frame' \in [loop : {"search"}, i : 0 .. Length, current : Nat, start : {-1} \cup Block,
                      size : Sizes]
      BY <1>1, <1>2, <2>2, <3>1, <3>4 DEF SearchInv, at
    <3>6. \A s \in Fits(entries, BlocksFor(frame'.size)) : s + BlocksFor(frame'.size) > frame'.i
      BY <3>2, <3>3 DEF n
    <3>7. SearchInv'
      BY <1>0, <1>2, <2>2, <3>3, <3>4, <3>5, <3>6 DEF SearchInv, IsFree, Fits
    <3> QED
      BY <1>0, <3>7, QuietTypes DEF LoopInv
  <2> QED
    BY <2>3, <2>4
<1> QED
  BY <1>5, <1>6

(* A search that runs off the table has met no run that fits; the free run *)
(* in front of its end is what is left.                                    *)
LEMMA SearchEndStep ==
    ASSUME LoopInv, L!SearchEnd
    PROVE  LoopInv' /\ [Next]_vars
<1> DEFINE n == BlocksFor(frame.size)
<1>0. frame.loop = "search" /\ frame.i = Length /\ UNCHANGED <<work, live>>
  BY DEF L!SearchEnd, L!Running
<1>1. SearchInv
  BY <1>0 DEF LoopInv, MarkInv, WalkInv
<1>2. /\ n \in Nat /\ frame.size \in Sizes /\ Length \in Nat /\ Length # 0 /\ work = entries
      /\ entries \in [Index -> SUBSET Flag]
  BY <1>1, BlocksForType, HeapAssumption DEF SearchInv, LoopInv, TypeOK
<1>3. Fits(entries, n) = {}
  <2>1. \A s \in Fits(entries, n) : s + n > Length
    BY <1>0, <1>1 DEF SearchInv
  <2>2. \A s \in Fits(entries, n) : s \in Nat /\ s + n =< Length
    BY <1>2 DEF Fits, Block
  <2> QED
    BY <1>2, <2>1, <2>2
<1> HIDE DEF n
<1>4. CASE frame.start # -1
  <2>0. UNCHANGED <<entries, ret>> /\ frame' = L!MarkFrame(frame.start, frame.size)
    BY <1>4 DEF L!SearchEnd
  <2>1. /\ frame.start \in Block /\ frame.start \in Nat
        /\ \A k \in frame.start .. (Length - 1) : IsFree(entries, k)
        /\ frame.start = 0 \/ ~IsFree(entries, frame.start - 1)
    BY <1>0, <1>1, <1>2, <1>4 DEF SearchInv, Block
  <2>2. frame.start \in Trailing(entries)
    BY <2>1 DEF Trailing
  <2>3. ASSUME NEW s \in Trailing(entries)
        PROVE  frame.start =< s
    <3>1. s \in Nat /\ s =< Length - 1 /\ \A k \in s .. (Length - 1) : IsFree(entries, k)
      BY <1>2 DEF Trailing, Block
    <3>2. s < frame.start => frame.start # 0 /\ frame.start - 1 \in s .. (Length - 1)
      BY <1>2, <2>1, <3>1 DEF Block
    <3> QED
      BY <2>1, <3>1, <3>2
  <2>4. frame.start = heap_get_start_block(entries, n)
    <3>1. Min(Trailing(entries)) \in Trailing(entries) /\ Min(Trailing(entries)) =< frame.start
      BY <1>2, <2>2, FitsIsNatural, MinIsMember
    <3>2. Min(Trailing(entries)) \in Nat
      BY <1>2, <3>1, FitsIsNatural
    <3>3. frame.start = Min(Trailing(entries))
      BY <2>1, <2>3, <3>1, <3>2
    <3> QED
      BY <1>3, <2>2, <3>3 DEF heap_get_start_block
  <2>5. MarkInv'
    BY <1>0, <1>2, <2>0, <2>1, <2>4, MarkBegins DEF n
  <2> QED
    BY <1>0, <2>0, <2>5, QuietTypes DEF LoopInv, Quiet, vars
<1>5. CASE frame.start = -1
  <2>0. ret' = NULL /\ frame' = [loop |-> "none"] /\ entries' = work'
    BY <1>5, LoopNames DEF L!SearchEnd, L!Return
  <2>1. ~IsFree(entries, Length - 1)
    BY <1>0, <1>1, <1>2, <1>5 DEF SearchInv
  <2>2. Trailing(entries) = {}
    <3>1. \A s \in Trailing(entries) : Length - 1 \in s .. (Length - 1)
      BY <1>2 DEF Trailing, Block
    <3> QED
      BY <2>1, <3>1 DEF Trailing
  <2>3. heap_get_start_block(entries, n) = -ENOMEM /\ -ENOMEM < 0
    BY <1>3, <2>2 DEF heap_get_start_block, ENOMEM
  <2>4. UNCHANGED entries
    BY <1>0, <1>2, <2>0
  <2>5. kmalloc(frame.size)
    BY <1>0, <2>0, <2>3, <2>4 DEF kmalloc, n
  <2>6. TypeOK'
    BY <1>0, <2>0, <2>4 DEF LoopInv, TypeOK
  <2> QED
    BY <1>2, <2>0, <2>5, <2>6 DEF LoopInv, Next
<1> QED
  BY <1>4, <1>5

LEMMA MarkStep ==
    ASSUME LoopInv, L!Mark
    PROVE  LoopInv' /\ Quiet
<1> DEFINE at == frame.i
           start == frame.start
           end == Last
           Marked(k, i) == IF k \in start .. (i - 1) THEN TakenEntry(k, start, end) ELSE entries[k]
<1>0. /\ Quiet /\ frame.loop = "mark" /\ at =< end
      /\ work' = [k \in DOMAIN work |-> IF k = at THEN frame.entry ELSE work[k]]
      /\ frame' = [frame EXCEPT
                     !.i = @ + 1,
                     !.entry = {"TAKEN"} \cup (IF at # end - 1 THEN {"HAS_NEXT"} ELSE {})]
  BY LoopNames DEF L!Mark, L!Running, L!end_block, Last, Quiet
<1>1. MarkInv
  BY <1>0 DEF LoopInv, SearchInv, WalkInv
<1>2. /\ start \in Int /\ end \in Int /\ at \in Int /\ start =< at
      /\ frame.entry = TakenEntry(at, start, end)
      /\ work = [k \in Index |-> Marked(k, at)]
  BY <1>0, <1>1, BlocksForType, HeapAssumption DEF MarkInv, Block, Last
<1>3. /\ frame'.start = start /\ frame'.i = at + 1 /\ frame'.size = frame.size /\ Last' = end
      /\ frame'.entry = {"TAKEN"} \cup (IF at # end - 1 THEN {"HAS_NEXT"} ELSE {})
  BY <1>0, <1>1 DEF MarkInv, Last
<1>4. at + 1 =< end => frame'.entry = TakenEntry(at + 1, start, end)
  <2> HIDE DEF end, at, start
  <2> SUFFICES ASSUME at + 1 =< end
               PROVE  frame'.entry = TakenEntry(at + 1, start, end)
    OBVIOUS
  <2>1. (at # end - 1 <=> at + 1 < end) /\ at + 1 # start
    BY <1>2
  <2> QED
    BY <1>3, <2>1 DEF TakenEntry
<1>5. ASSUME NEW k \in Index
      PROVE  work'[k] = Marked(k, at + 1)
  <2>1. work'[k] = IF k = at THEN frame.entry ELSE Marked(k, at)
    BY <1>0, <1>2
  <2>2. k \in Int
    BY HeapAssumption DEF Index
  <2> HIDE DEF end, at, start
  <2>3. k \in start .. at <=> k = at \/ k \in start .. (at - 1)
    BY <1>2, <2>2
  <2>4. at + 1 - 1 = at
    BY <1>2
  <2> QED
    BY <1>2, <2>1, <2>3, <2>4
<1>6. work' = [k \in Index |-> Marked(k, at + 1)]
  <2>1. DOMAIN work' = Index /\ work' = [k \in DOMAIN work' |-> work'[k]]
    BY <1>0, <1>2
  <2> HIDE DEF Marked
  <2> QED
    BY <1>5, <2>1
<1>7. frame' \in [loop : {"mark"}, i : Int, start : Block, size : Sizes, entry : SUBSET Flag]
  <2>1. {"TAKEN"} \cup (IF at # end - 1 THEN {"HAS_NEXT"} ELSE {}) \in SUBSET Flag
    BY DEF Flag
  <2>2. at + 1 \in Int
    BY <1>2
  <2> QED
    BY <1>0, <1>1, <2>1, <2>2 DEF MarkInv
<1>8. entries' = entries
  BY <1>0 DEF Quiet
<1>9. at + 1 \in start .. (end + 1)
  BY <1>0, <1>2
<1>10. start = heap_get_start_block(entries', BlocksFor(frame'.size))
  BY <1>1, <1>3, <1>8 DEF MarkInv
<1>11. MarkInv'
  BY <1>3, <1>4, <1>6, <1>7, <1>8, <1>9, <1>10 DEF MarkInv
<1> QED
  BY <1>0, <1>11, QuietTypes DEF LoopInv

LEMMA MarkEndStep ==
    ASSUME LoopInv, L!MarkEnd
    PROVE  LoopInv' /\ [Next]_vars
<1> DEFINE n == BlocksFor(frame.size)
           start == frame.start
<1>0. /\ frame.loop = "mark" /\ frame.i > Last /\ ret' = heap_block_to_address(start)
      /\ live' = live \cup {[start |-> start, size |-> frame.size]}
      /\ work' = work /\ frame' = [loop |-> "none"] /\ entries' = work
  BY LoopNames DEF L!MarkEnd, L!Running, L!end_block, Last, L!Return
<1>1. MarkInv
  BY <1>0 DEF LoopInv, SearchInv, WalkInv
<1>2. /\ start \in Block /\ start \in Nat /\ n \in Nat /\ Last \in Int /\ frame.i = Last + 1
      /\ frame.size \in Sizes
  <2>0. start \in Block /\ frame.size \in Sizes
    BY <1>1 DEF MarkInv
  <2>1. start \in Block /\ start \in Nat /\ frame.size \in Sizes /\ n \in Nat
    <3>1. n \in Nat
      BY <2>0, BlocksForType
    <3>2. start \in Nat
      BY <2>0, HeapAssumption DEF Block
    <3> QED
      BY <2>0, <3>1, <3>2
  <2>2. Last \in Int
    BY <2>1 DEF Last
  <2>3. frame.i \in start .. (Last + 1)
    BY <1>1 DEF MarkInv
  <2> QED
    BY <1>0, <2>1, <2>2, <2>3
<1>3. entries' = heap_mark_blocks_taken(entries, start, n)
  <2>1. frame.i - 1 = start + n - 1 /\ Last = start + n - 1
    BY <1>2 DEF Last
  <2> QED
    BY <1>0, <1>1, <2>1 DEF MarkInv, heap_mark_blocks_taken
<1>4. kmalloc(frame.size)
  BY <1>0, <1>1, <1>2, <1>3 DEF MarkInv, kmalloc
<1>5. TypeOK'
  <2>1. entries' \in [Index -> SUBSET Flag]
    BY <1>3 DEF heap_mark_blocks_taken, TakenEntry, Flag, LoopInv, TypeOK
  <2>2. live' \subseteq [start : Block, size : Sizes]
    BY <1>0, <1>2 DEF LoopInv, TypeOK
  <2>3. ret' \in {heap_block_to_address(b) : b \in Block}
    BY <1>0, <1>2
  <2> QED
    BY <2>1, <2>2, <2>3 DEF TypeOK
<1> QED
  BY <1>0, <1>2, <1>4, <1>5 DEF LoopInv, Next

(* The walk of a free, from block b on. *)
LEMMA WalkOn ==
    ASSUME LoopInv, L!Walk, NEW b \in Index, WalkFrom(b)
    PROVE  \/ /\ Quiet /\ WalkFrom(b)' /\ frame' = [frame EXCEPT !.i = @ + 1]
           \/ /\ entries' = heap_mark_blocks_free(entries, b) /\ live' = live \ frame.freed
              /\ ret' = ret /\ frame' = [loop |-> "none"] /\ work' = entries'
<1> DEFINE at == frame.i
           On == "HAS_NEXT" \in work[at] /\ at + 1 < Length
<1>0. /\ frame.loop = "free" /\ at < Length /\ work' = [work EXCEPT ![at] = {}] /\ ret' = ret
      /\ IF On THEN frame' = [frame EXCEPT !.i = @ + 1] /\ UNCHANGED <<entries, live>>
         ELSE live' = live \ frame.freed /\ frame' = [loop |-> "none"] /\ entries' = work'
  BY LoopNames DEF L!Walk, L!Running, L!Return
<1>1. WalkInv
  BY <1>0 DEF LoopInv, SearchInv, MarkInv
<1>2. /\ b \in Int /\ at \in b .. (Length - 1) /\ at \in Index /\ Length \in Nat
      /\ \A k \in b .. (at - 1) : "HAS_NEXT" \in entries[k]
      /\ work = [k \in Index |-> IF k \in b .. (at - 1) THEN FREE ELSE entries[k]]
  BY HeapAssumption DEF WalkFrom, Index
<1> HIDE DEF at
<1>3. work[at] = entries[at]
  BY <1>2
<1>4. work' = [k \in Index |-> IF k \in b .. at THEN FREE ELSE entries[k]]
  <2>1. ASSUME NEW k \in Index
        PROVE  work'[k] = IF k \in b .. at THEN FREE ELSE entries[k]
    <3>1. k \in Int
      BY HeapAssumption DEF Index
    <3>2. k \in b .. at <=> k = at \/ k \in b .. (at - 1)
      BY <1>2, <3>1
    <3> QED
      BY <1>0, <1>2, <3>2 DEF FREE
  <2>2. DOMAIN work' = Index /\ work' = [k \in DOMAIN work' |-> work'[k]]
    BY <1>0, <1>2
  <2> QED
    BY <2>1, <2>2
<1>5. CASE On
  <2>1. frame' = [frame EXCEPT !.i = @ + 1] /\ entries' = entries /\ Quiet
    BY <1>0, <1>5 DEF Quiet
  <2>2. frame'.i = at + 1 /\ at + 1 - 1 = at /\ at + 1 \in b .. (Length - 1)
    BY <1>1, <1>2, <1>5, <2>1 DEF WalkInv, at
  <2>3. \A k \in b .. at : "HAS_NEXT" \in entries[k]
    <3>1. \A k \in b .. at : k = at \/ k \in b .. (at - 1)
      BY <1>2
    <3> QED
      BY <1>2, <1>3, <1>5, <3>1
  <2>4. frame'.i - 1 = at
    BY <1>2, <2>2
  <2>5. work' = [k \in Index |-> IF k \in b .. (frame'.i - 1) THEN FREE ELSE entries'[k]]
    BY <1>4, <2>1, <2>4
  <2>6. WalkFrom(b)'
    BY <2>1, <2>2, <2>3, <2>4, <2>5 DEF WalkFrom
  <2> QED
    BY <2>1, <2>6
<1>6. CASE ~On
  <2>1. live' = live \ frame.freed /\ frame' = [loop |-> "none"] /\ entries' = work'
    BY <1>0, <1>6
  <2>2. ASSUME NEW k \in Index
        PROVE  k \in b .. at <=> k \in Chain(entries, b)
    <3>1. k \in Int
      BY HeapAssumption DEF Index
    <3>2. ASSUME k \in b .. at
          PROVE  k \in Chain(entries, b)
      <4>1. k \in b .. (Length - 1) /\ \A j \in b .. (k - 1) : j \in b .. (at - 1)
        BY <1>2, <3>1, <3>2
      <4> QED
        BY <1>2, <4>1 DEF Chain
    <3>3. ASSUME k \in Chain(entries, b), k \notin b .. at
          PROVE  FALSE
      <4>1. k \in b .. (Length - 1) /\ at \in b .. (k - 1) /\ at + 1 < Length
        BY <1>2, <3>1, <3>3 DEF Chain
      <4>2. "HAS_NEXT" \in entries[at]
        BY <3>3, <4>1 DEF Chain
      <4> QED
        BY <1>3, <1>6, <4>1, <4>2
    <3> QED
      BY <3>2, <3>3
  <2>3. work' = heap_mark_blocks_free(entries, b)
    BY <1>4, <2>2 DEF heap_mark_blocks_free
  <2> QED
    BY <1>0, <2>1, <2>3
<1> QED
  BY <1>5, <1>6

LEMMA WalkStep ==
    ASSUME LoopInv, L!Walk
    PROVE  LoopInv' /\ [Next]_vars
<1>0. frame.loop = "free"
  BY DEF L!Walk, L!Running
<1>1. WalkInv
  BY <1>0 DEF LoopInv, SearchInv, MarkInv
<1>2. frame \in [loop : {"free"}, i : Int, freed : SUBSET live]
  BY <1>1 DEF WalkInv
<1>3. ASSUME NEW b \in Index, WalkFrom(b), Quiet, frame' = [frame EXCEPT !.i = @ + 1]
      PROVE  frame' \in [loop : {"free"}, i : Int, freed : SUBSET live'] /\ frame'.freed = frame.freed
  BY <1>2, <1>3 DEF Quiet
<1>4. CASE \E a \in live : frame.freed = {a} /\ WalkFrom(a.start)
  <2>1. PICK a \in live : frame.freed = {a} /\ WalkFrom(a.start)
    BY <1>4
  <2>2. PICK b \in Index : b = a.start
    BY HeapAssumption DEF LoopInv, TypeOK, Index, Block
  <2>3. b \in Int /\ heap_address_to_block(heap_block_to_address(a.start)) = b
    BY <2>2, AddressRoundTrip, HeapAssumption DEF Index
  <2>4. CASE /\ Quiet /\ WalkFrom(b)' /\ frame' = [frame EXCEPT !.i = @ + 1]
    <3>1. frame' \in [loop : {"free"}, i : Int, freed : SUBSET live'] /\ frame'.freed = {a}
      BY <1>3, <2>1, <2>2, <2>4
    <3>2. a \in live' /\ (\E c \in live' : frame'.freed = {c} /\ b = c.start)
      BY <2>2, <2>4, <3>1 DEF Quiet
    <3>3. WalkInv'
      BY <2>4, <3>1, <3>2 DEF WalkInv, WalkFrom
    <3> QED
      BY <2>4, <3>3, QuietTypes DEF LoopInv, Quiet, vars
  <2>5. CASE /\ entries' = heap_mark_blocks_free(entries, b) /\ live' = live \ frame.freed
             /\ ret' = ret /\ frame' = [loop |-> "none"] /\ work' = entries'
    <3>1. FreeLive(a)
      BY <2>1, <2>3, <2>5 DEF FreeLive, kfree
    <3>2. TypeOK'
      BY <2>5 DEF LoopInv, TypeOK, heap_mark_blocks_free, FREE
    <3> QED
      BY <2>5, <3>1, <3>2 DEF LoopInv, Next
  <2> QED
    BY <2>1, <2>2, <2>4, <2>5, WalkOn
<1>5. CASE frame.freed = {} /\ WalkFrom(-Base)
  <2>1. PICK b \in Index : b = -Base
    BY HeapAssumption DEF Index
  <2>2. heap_address_to_block(NULL) = b
    BY <2>1, AddressRoundTrip
  <2>3. CASE /\ Quiet /\ WalkFrom(b)' /\ frame' = [frame EXCEPT !.i = @ + 1]
    <3>1. frame' \in [loop : {"free"}, i : Int, freed : SUBSET live'] /\ frame'.freed = {}
      BY <1>3, <1>5, <2>1, <2>3
    <3>2. WalkInv'
      BY <2>1, <2>3, <3>1 DEF WalkInv, WalkFrom
    <3> QED
      BY <2>3, <3>2, QuietTypes DEF LoopInv, Quiet, vars
  <2>4. CASE /\ entries' = heap_mark_blocks_free(entries, b) /\ live' = live \ frame.freed
             /\ ret' = ret /\ frame' = [loop |-> "none"] /\ work' = entries'
    <3>1. FreeNull
      BY <1>5, <2>2, <2>4 DEF FreeNull, kfree
    <3>2. TypeOK'
      BY <2>4 DEF LoopInv, TypeOK, heap_mark_blocks_free, FREE
    <3> QED
      BY <2>4, <3>1, <3>2 DEF LoopInv, Next
  <2> QED
    BY <1>5, <2>1, <2>3, <2>4, WalkOn
<1> QED
  BY <1>1, <1>4, <1>5 DEF WalkInv

LEMMA CallSteps ==
    ASSUME LoopInv
    PROVE  /\ \A size \in Sizes : L!Malloc(size) => LoopInv' /\ Quiet
           /\ \A a \in live : L!Free(heap_block_to_address(a.start), {a}) => LoopInv' /\ Quiet
           /\ L!Free(NULL, {}) => LoopInv' /\ Quiet
<1>0. Length \in Nat /\ Length # 0 /\ Base \in Nat /\ entries \in [Index -> SUBSET Flag]
  BY HeapAssumption DEF LoopInv, TypeOK
<1>1. ASSUME NEW size \in Sizes, L!Malloc(size)
      PROVE  LoopInv' /\ Quiet
  <2>1. /\ frame = [loop |-> "none"] /\ Quiet /\ work' = work
        /\ frame' = [loop |-> "search", i |-> 0, current |-> 0, start |-> -1, size |-> size]
    BY <1>1, LoopNames DEF L!Malloc, Quiet
  <2>2. work = entries
    BY <2>1 DEF LoopInv, SearchInv, MarkInv, WalkInv
  <2>3. \A s \in Fits(entries, BlocksFor(size)) : s + BlocksFor(size) > 0
    BY <1>0, BlocksForType DEF Fits, Block
  <2>4. frame' \in [loop : {"search"}, i : 0 .. Length, current : Nat, start : {-1} \cup Block,
                    size : Sizes]
    BY <1>0, <2>1
  <2>5. entries' = entries
    BY <2>1 DEF Quiet
  <2>6. SearchInv'
    BY <2>1, <2>2, <2>3, <2>4, <2>5 DEF SearchInv, Fits, IsFree
  <2> QED
    BY <2>1, <2>6, QuietTypes DEF LoopInv
<1>2. ASSUME NEW b \in Index, NEW addr, NEW freed \in SUBSET live, heap_address_to_block(addr) = b,
             L!Free(addr, freed)
      PROVE  /\ Quiet /\ WalkFrom(b)' /\ frame'.freed = freed
             /\ frame' \in [loop : {"free"}, i : Int, freed : SUBSET live']
  <2>1. /\ frame = [loop |-> "none"] /\ Quiet /\ work' = work
        /\ frame' = [loop |-> "free", i |-> b, freed |-> freed]
    BY <1>2, LoopNames DEF L!Free, Quiet
  <2>2. work = entries
    BY <2>1 DEF LoopInv, SearchInv, MarkInv, WalkInv
  <2>3. b \in Int /\ b \in b .. (Length - 1)
    BY <1>0 DEF Index
  <2>4. entries' = entries /\ live' = live
    BY <2>1 DEF Quiet
  <2>5. work' = [k \in Index |-> IF k \in b .. (b - 1) THEN FREE ELSE entries'[k]]
    BY <1>0, <2>1, <2>2, <2>3, <2>4
  <2>6. \A k \in b .. (b - 1) : "HAS_NEXT" \in entries'[k]
    BY <2>3
  <2>7. WalkFrom(b)'
    BY <2>1, <2>3, <2>5, <2>6 DEF WalkFrom
  <2> QED
    BY <2>1, <2>3, <2>4, <2>7
<1>3. ASSUME NEW a \in live, L!Free(heap_block_to_address(a.start), {a})
      PROVE  LoopInv' /\ Quiet
  <2>1. PICK b \in Index : b = a.start
    BY HeapAssumption DEF LoopInv, TypeOK, Index, Block
  <2>2. heap_address_to_block(heap_block_to_address(a.start)) = b
    BY <1>0, <2>1, AddressRoundTrip DEF Index
  <2>3. /\ Quiet /\ WalkFrom(b)' /\ frame'.freed = {a}
        /\ frame' \in [loop : {"free"}, i : Int, freed : SUBSET live']
    BY <1>2, <1>3, <2>2
  <2>4. \E c \in live' : frame'.freed = {c} /\ b = c.start
    BY <2>1, <2>3 DEF Quiet
  <2>5. WalkInv'
    BY <2>3, <2>4 DEF WalkInv, WalkFrom
  <2> QED
    BY <2>3, <2>5, QuietTypes DEF LoopInv
<1>4. ASSUME L!Free(NULL, {})
      PROVE  LoopInv' /\ Quiet
  <2>1. PICK b \in Index : b = -Base
    BY <1>0 DEF Index
  <2>2. heap_address_to_block(NULL) = b
    BY <2>1, AddressRoundTrip
  <2>3. /\ Quiet /\ WalkFrom(b)' /\ frame'.freed = {}
        /\ frame' \in [loop : {"free"}, i : Int, freed : SUBSET live']
    BY <1>2, <1>4, <2>2
  <2>4. WalkInv'
    BY <2>1, <2>3 DEF WalkInv, WalkFrom
  <2> QED
    BY <2>3, <2>4, QuietTypes DEF LoopInv
<1> QED
  BY <1>1, <1>3, <1>4

(* An iteration keeps the invariant of its loop, and the last one of a     *)
(* call is that call of Heap.                                              *)
LEMMA LoopStep ==
    ASSUME LoopInv, [L!Next]_(L!vars)
    PROVE  LoopInv' /\ [Next]_vars
<1>1. CASE L!Step
  BY <1>1, SearchStep, SearchEndStep, MarkStep, MarkEndStep, WalkStep DEF L!Step, Quiet, vars
<1>2. CASE L!Next /\ ~L!Step
  BY <1>2, CallSteps, LoopNames DEF L!Next, Quiet, vars
<1>3. CASE UNCHANGED L!vars
  BY <1>3 DEF L!vars, vars, LoopInv, TypeOK, SearchInv, MarkInv, WalkInv, WalkFrom, Last
<1> QED
  BY <1>1, <1>2, <1>3

(* The loops of heap.c, an iteration a step, implement Heap: the search    *)
(* finds the lowest run that fits or the one at the table's end, the       *)
(* marking and the walk of a free write the entries Heap says, whatever    *)
(* the sizes of requests, and requests for no block included.              *)
THEOREM LoopsImplementHeap == L!Spec => L!RefinesHeap
<1>1. L!Init => LoopInv /\ L!H!Init
  <2>1. L!Init => Init /\ work = entries /\ frame = [loop |-> "none"] /\ L!H!Init
    BY HeapNames, LoopNames DEF L!Init
  <2> QED
    BY <2>1 DEF LoopInv, Init, TypeOK, Flag, FREE
<1>2. LoopInv /\ [L!Next]_(L!vars) => LoopInv'
  BY LoopStep
<1>3. LoopInv /\ [L!Next]_(L!vars) => [L!H!Next]_(L!H!vars)
  <2> SUFFICES ASSUME LoopInv, [L!Next]_(L!vars)
               PROVE  [L!H!Next]_(L!H!vars)
    OBVIOUS
  <2>1. [Next]_vars
    BY LoopStep
  <2>2. ASSUME NEW z \in Sizes, kmalloc(z)
        PROVE  L!H!Next
    BY <2>2, HeapNames DEF L!H!Next
  <2>3. ASSUME NEW a \in live, FreeLive(a)
        PROVE  L!H!Next
    BY <2>3, HeapNames DEF L!H!Next
  <2>4. FreeNull => L!H!Next
    BY HeapNames DEF L!H!Next
  <2>5. UNCHANGED vars => UNCHANGED L!H!vars
    BY DEF vars, L!H!vars
  <2> QED
    BY <2>1, <2>2, <2>3, <2>4, <2>5 DEF Next
<1> QED
  BY <1>1, <1>2, <1>3, PTL DEF L!Spec, L!RefinesHeap, L!H!Spec
=============================================================================
