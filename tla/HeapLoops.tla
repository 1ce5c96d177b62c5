----------------------------- MODULE HeapLoops -----------------------------
(***************************************************************************)
(* heap.c one loop iteration at a time: the search of                      *)
(* heap_get_start_block(), the marking of heap_mark_blocks_taken() and the *)
(* walk of heap_mark_blocks_free(), each with its C locals in a frame.  It *)
(* implements Heap, whose operators say in one formula what each loop      *)
(* computes.                                                               *)
(***************************************************************************)
EXTENDS Integers

CONSTANTS Length, BlockSize, Base, WordSize, Sizes

VARIABLES
    entries,   \* the table the loops read and write
    frame,     \* the running loop and its locals, or Idle
    table,     \* the table as the last completed call left it
    live, ret

vars == <<entries, frame, table, live, ret>>

H == INSTANCE Heap WITH entries <- table

Idle == [loop |-> "none"]

Running(loop) == frame.loop = loop

Init ==
    /\ H!Init
    /\ entries = table
    /\ frame = Idle

(* A call returns: its table is what the next call sees. *)
Return == frame' = Idle /\ table' = entries'

-----------------------------------------------------------------------------
(* heap_malloc() enters the search. *)
Malloc(size) ==
    /\ frame = Idle
    /\ frame' = [loop |-> "search", i |-> 0, current |-> 0, start |-> -1, size |-> size]
    /\ UNCHANGED <<entries, table, live, ret>>

(* What heap_mark_blocks_taken() starts from. *)
MarkFrame(start, size) ==
    [loop |-> "mark", i |-> start, start |-> start, size |-> size,
     entry |-> {"TAKEN", "IS_FIRST"}
                 \cup (IF H!BlocksFor(size) > 1 THEN {"HAS_NEXT"} ELSE {})]

(* Mutant: the search keeps its count across a taken block. *)
SearchKeepsCount ==
    /\ Running("search") /\ frame.i < Length
    /\ LET start == IF frame.start = -1 THEN frame.i ELSE frame.start
           current == frame.current + 1
       IN  frame' =
             IF "TAKEN" \in entries[frame.i]
             THEN [frame EXCEPT !.i = @ + 1, !.start = -1]
             ELSE IF current = H!BlocksFor(frame.size)
             THEN MarkFrame(start, frame.size)
             ELSE [frame EXCEPT !.i = @ + 1, !.current = current, !.start = start]
    /\ UNCHANGED <<entries, table, live, ret>>

(* One iteration of the search; a long enough run ends it. *)
Search ==
    /\ Running("search") /\ frame.i < Length
    /\ LET start == IF frame.start = -1 THEN frame.i ELSE frame.start
           current == frame.current + 1
       IN  frame' =
             IF "TAKEN" \in entries[frame.i]
             THEN [frame EXCEPT !.i = @ + 1, !.current = 0, !.start = -1]
             ELSE IF current = H!BlocksFor(frame.size)
             THEN MarkFrame(start, frame.size)
             ELSE [frame EXCEPT !.i = @ + 1, !.current = current, !.start = start]
    /\ UNCHANGED <<entries, table, live, ret>>

(* The search runs off the table: with a free run at its end, or without. *)
SearchEnd ==
    /\ Running("search") /\ frame.i = Length
    /\ UNCHANGED <<entries, live>>
    /\ \/ /\ frame.start # -1
          /\ frame' = MarkFrame(frame.start, frame.size)
          /\ UNCHANGED <<table, ret>>
       \/ /\ frame.start = -1
          /\ ret' = H!NULL
          /\ Return

end_block == frame.start + H!BlocksFor(frame.size) - 1

(* One iteration of the marking.  Past the table it writes to memory that  *)
(* is not the heap's.                                                      *)
Mark ==
    /\ Running("mark") /\ frame.i <= end_block
    /\ entries' = [j \in DOMAIN entries |-> IF j = frame.i THEN frame.entry ELSE entries[j]]
    /\ frame' = [frame EXCEPT
                   !.i = @ + 1,
                   !.entry = {"TAKEN"}
                      \cup (IF frame.i # end_block - 1 THEN {"HAS_NEXT"} ELSE {})]
    /\ UNCHANGED <<table, live, ret>>

MarkEnd ==
    /\ Running("mark") /\ frame.i > end_block
    /\ ret' = H!heap_block_to_address(frame.start)
    /\ live' = live \cup {[start |-> frame.start, size |-> frame.size]}
    /\ UNCHANGED entries
    /\ Return

-----------------------------------------------------------------------------
(* heap_free() enters the walk; freed is the allocation at addr, if any. *)
Free(addr, freed) ==
    /\ frame = Idle
    /\ frame' = [loop |-> "free", i |-> H!heap_address_to_block(addr), freed |-> freed]
    /\ UNCHANGED <<entries, table, live, ret>>

(* Mutant: the walk does not advance past an entry with HAS_NEXT. *)
WalkStaysOnEntry ==
    /\ Running("free") /\ frame.i < Length
    /\ IF "HAS_NEXT" \in entries[frame.i] /\ frame.i + 1 < Length
       THEN UNCHANGED <<entries, frame, table, live>>
       ELSE /\ entries' = [entries EXCEPT ![frame.i] = {}]
            /\ live' = live \ frame.freed
            /\ Return
    /\ UNCHANGED ret

(* One iteration of the walk; the last entry, or the last of the table,    *)
(* ends it.                                                                *)
Walk ==
    /\ Running("free") /\ frame.i < Length
    /\ entries' = [entries EXCEPT ![frame.i] = {}]
    /\ IF "HAS_NEXT" \in entries[frame.i] /\ frame.i + 1 < Length
       THEN frame' = [frame EXCEPT !.i = @ + 1] /\ UNCHANGED <<table, live>>
       ELSE live' = live \ frame.freed /\ Return
    /\ UNCHANGED ret

-----------------------------------------------------------------------------
Step == Search \/ SearchEnd \/ Mark \/ MarkEnd \/ Walk

Next ==
    \/ \E size \in Sizes : Malloc(size)
    \/ \E a \in live : Free(H!heap_block_to_address(a.start), {a})
    \/ Free(H!NULL, {})
    \/ Step

(* A call runs with interrupts disabled until it returns. *)
Spec == Init /\ [][Next]_vars /\ WF_vars(Step)

-----------------------------------------------------------------------------
(* Properties *)

(* Every call of heap_malloc() and heap_free() returns: their loops end    *)
(* whatever the table holds.                                               *)
CallsReturn == frame # Idle ~> frame = Idle

(* The loops compute what the operators of Heap say they compute.          *)
RefinesHeap == H!Spec
=============================================================================
