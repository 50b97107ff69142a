-------------------------------- MODULE Lists --------------------------------
(***************************************************************************)
(* What core/list.c promises, on sequences: a list_t is the sequence of    *)
(* its entries read from list->head, and an entry is in it at most once.   *)
(* LinkedList.tla relates these operators to the pointers of the code.     *)
(***************************************************************************)
EXTENDS Integers, Sequences, Functions

IndexOf(q, e) == CHOOSE i \in DOMAIN q : q[i] = e

\* q without its i-th entry
Without(q, i) == SubSeq(q, 1, i - 1) \o SubSeq(q, i + 1, Len(q))

list_delete(q, e) ==
    IF e \in Range(q) THEN Without(q, IndexOf(q, e)) ELSE q

\* A faulty list_append: the head is moved to the new entry.
list_append_moves_head(q, e) == <<e>> \o list_delete(q, e)

(* list_append takes the entry out first, so appending an entry that is    *)
(* already in the list moves it to the end.                                *)
list_append(q, e) == Append(list_delete(q, e), e)

(* The entry goes in front of another one; in front of the head means, in  *)
(* a ring whose head does not move, at the end.                            *)
list_insert_before(q, at, e) ==
    LET i == IF at = Head(q) THEN Len(q) + 1 ELSE IndexOf(q, at)
    IN  SubSeq(q, 1, i - 1) \o <<e>> \o SubSeq(q, i, Len(q))

list_lrotate(q) == IF q = <<>> THEN q ELSE Append(Tail(q), Head(q))

list_rrotate(q) ==
    IF q = <<>> THEN q ELSE <<q[Len(q)]>> \o SubSeq(q, 1, Len(q) - 1)
==============================================================================
