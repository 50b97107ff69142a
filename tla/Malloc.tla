-------------------------------- MODULE Malloc -------------------------------
(***************************************************************************)
(* core/malloc.c: first-fit allocation from a linked list of free blocks.  *)
(* A block is a record of its address and size, the free list the sequence *)
(* of the blocks reached from free_head; the header of a block is in the   *)
(* block itself, so a block that drops out of the list is gone.            *)
(***************************************************************************)
EXTENDS Integers, Sequences, SequencesExt, FiniteSetsExt

CONSTANTS HeapSize,     \* end - start of malloc_init
          Header,       \* sizeof(struct free_header)
          MallocHeader, \* sizeof(struct malloc_header)
          Sizes,        \* the sizes asked for
          Freed,        \* the sizes of the blocks that are ever given back
          MaxLive       \* bound: how many of those are held at a time

ASSUME MallocAssumption ==
    /\ Header \in Nat \ {0} /\ MallocHeader \in Nat /\ HeapSize \in Nat /\ HeapSize >= Header
    /\ \A s \in Sizes : s \in Nat /\ s >= Header
    /\ Freed \subseteq Nat /\ MaxLive \in Nat

VARIABLES free,         \* the free list
          live,         \* the blocks handed out, with the size asked for
          fault         \* free_head was NULL when malloc_raw read through it

vars == <<free, live, fault>>

Block(a, s) == [addr |-> a, size |-> s]

End(b) == b.addr + b.size

\* A faulty test for neighbours: blocks one unit apart count as adjacent.
Adjacent_off_by_one(b, c) == End(b) + 1 >= c.addr

Adjacent(b, c) == End(b) = c.addr

(* The end of free_raw's loop body: the block in place i swallows its      *)
(* successor in the list when they are neighbours in memory.               *)
MergeNext(q, i) ==
    IF i < Len(q) /\ Adjacent(q[i], q[i + 1])
    THEN RemoveAt([q EXCEPT ![i].size = @ + q[i + 1].size], i + 1)
    ELSE q

(* free_raw.  A block below the head becomes the head, and the loop then   *)
(* goes on to the first block that is below it or last in the list: that   *)
(* block is extended, or what follows it is put behind the new head.  A    *)
(* block above the head always goes right behind it.                       *)
free_raw(q, b) ==
    IF q = <<>> THEN <<b>>
    ELSE IF b.addr < q[1].addr
    THEN LET i == Min({j \in DOMAIN q : q[j].addr < b.addr \/ j = Len(q)})
         IN  IF Adjacent(q[i], b)
             THEN MergeNext(<<b>> \o [q EXCEPT ![i].size = @ + b.size], i + 1)
             ELSE MergeNext(<<b>> \o SubSeq(q, i + 1, Len(q)), 1)
    ELSE IF Adjacent(q[1], b)
         THEN MergeNext([q EXCEPT ![1].size = @ + b.size], 1)
         ELSE MergeNext(InsertAt(q, 2, b), 2)

(* malloc_raw, once it has found a block that is large enough: the rest is *)
(* given back if a header fits into it.                                    *)
Take(q, i, size) ==
    LET b    == q[i]
        rest == b.size - size
    IN  IF rest >= Header
        THEN free_raw(RemoveAt(q, i), Block(b.addr + size, rest))
        ELSE RemoveAt(q, i)

Init ==
    /\ free = free_raw(<<>>, Block(0, HeapSize))
    /\ live = {}
    /\ fault = FALSE

\* The clients keep within MaxLive.
Wanted(size) ==
    size \in Freed => Cardinality({b \in live : b.size \in Freed}) < MaxLive

Fits(size) == {i \in DOMAIN free : free[i].size >= size}

(* The first block on the list that is large enough is handed out.         *)
Allocate(size) ==
    /\ Fits(size) # {}
    /\ LET i == Min(Fits(size))
       IN  /\ live' = live \cup {Block(free[i].addr, size)}
           /\ free' = Take(free, i, size)
    /\ UNCHANGED fault

(* malloc_raw reads the head's size before it looks whether there is a     *)
(* head; when no block is large enough it returns NULL.                    *)
malloc_raw(size) ==
    /\ ~fault /\ Wanted(size)
    /\ \/ Allocate(size)
       \/ free = <<>> /\ fault' = TRUE /\ UNCHANGED <<free, live>>
       \/ free # <<>> /\ Fits(size) = {} /\ UNCHANGED vars

(* malloc stores the size in front of the block without looking whether it *)
(* got one.                                                                *)
malloc(size) ==
    /\ ~fault /\ Wanted(MallocHeader + size)
    /\ \/ Allocate(MallocHeader + size)
       \/ Fits(MallocHeader + size) = {} /\ fault' = TRUE /\ UNCHANGED <<free, live>>

(* free_raw by a client, who knows the size it asked for, or free, which   *)
(* finds it in front of the block.                                         *)
FreeBlock(b) ==
    /\ ~fault /\ b.size \in Freed
    /\ free' = free_raw(free, b)
    /\ live' = live \ {b}
    /\ UNCHANGED fault

Next ==
    \/ \E s \in Sizes : malloc_raw(s) \/ malloc(s)
    \/ \E b \in live : FreeBlock(b)
    \/ fault /\ UNCHANGED vars

Spec == Init /\ [][Next]_vars

-----------------------------------------------------------------------------

Overlap(b, c) == b.addr < End(c) /\ c.addr < End(b)

(* While the clients hold no more than MaxLive of the blocks that they     *)
(* will give back, the blocks on the free list and those handed out are    *)
(* disjoint and inside the heap, although free_raw neither keeps the list  *)
(* sorted nor keeps all of it.                                             *)
BlocksDisjoint ==
    /\ \A b \in live \cup ToSet(free) : b.addr >= 0 /\ End(b) <= HeapSize
    /\ \A b, c \in live : b # c => ~Overlap(b, c)
    /\ \A b \in live, i \in DOMAIN free : ~Overlap(b, free[i])
    /\ \A i, j \in DOMAIN free : i # j => ~Overlap(free[i], free[j])

(* malloc.h, malloc: "Allocates memory of at least size bytes".  No two    *)
(* clients are given the same memory.                                      *)
LiveDisjoint == \A b, c \in live : b # c => ~Overlap(b, c)
==============================================================================
