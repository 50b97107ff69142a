------------------------------ MODULE LinkedList -----------------------------
(***************************************************************************)
(* core/list.c: circular doubly linked lists threaded through the entries. *)
(* An entry that is in no list has next = prev = NULL.  The callers'       *)
(* obligation is that an entry is only handed to the list it is in.        *)
(***************************************************************************)
EXTENDS Integers, Sequences, FiniteSets

CONSTANTS Entries, ListNames, NULL

ASSUME LinkedListAssumption == NULL \notin Entries /\ IsFiniteSet(Entries)

VARIABLES next,         \* entry->next
          prev,         \* entry->prev
          head,         \* list->head
          call          \* which function was called last, with what

vars == <<next, prev, head, call>>

\* list_init and list_entry_init
Init ==
    /\ next = [e \in Entries |-> NULL]
    /\ prev = [e \in Entries |-> NULL]
    /\ head = [l \in ListNames |-> NULL]
    /\ call = [op |-> "none", list |-> NULL, entry |-> NULL, at |-> NULL, number |-> 0]

\* The entries met on following next from the head, until it comes round.
Members(l) ==
    LET walk[n \in 0..Cardinality(Entries)] ==
            IF n = 0 THEN IF head[l] = NULL THEN <<>> ELSE <<head[l]>>
            ELSE LET w == walk[n - 1]
                 IN  IF w = <<>> THEN w
                     ELSE IF next[w[Len(w)]] \in {head[l], NULL} THEN w
                     ELSE Append(w, next[w[Len(w)]])
    IN  walk[Cardinality(Entries)]

In(l, e) == \E i \in DOMAIN Members(l) : Members(l)[i] = e

Elsewhere(l, e) == \E m \in ListNames \ {l} : In(m, e)

\* The pointers of entries and the head of a list, as the functions below
\* pass them on from one to the next.
Pointers(l) == [next |-> next, prev |-> prev, head |-> head[l]]

(* The assignments in their order: entry->prev is read before it is set.   *)
list_insert_before(p, at, new) ==
    LET pred == p.prev[at]
    IN  [p EXCEPT !.next = [@ EXCEPT ![pred] = new, ![new] = at],
                  !.prev = [@ EXCEPT ![new] = pred, ![at] = new]]

(* For an entry alone in its list, entry->prev and entry->next are the     *)
(* entry itself, and list_next says that nothing follows.                  *)
list_delete(p, e) ==
    IF p.next[e] = NULL \/ p.prev[e] = NULL THEN p
    ELSE LET n == [p.next EXCEPT ![p.prev[e]] = p.next[e]]
             b == [p.prev EXCEPT ![n[e]] = p.prev[e]]
             list_next == IF n[e] = p.head THEN NULL ELSE n[e]
         IN  [next |-> [n EXCEPT ![e] = NULL],
              prev |-> [b EXCEPT ![e] = NULL],
              head |-> IF p.head = e THEN list_next ELSE p.head]

\* A faulty list_append: the new entry also becomes the head.
list_append_first(p, e) ==
    LET d == list_delete(p, e)
    IN  IF d.head # NULL THEN [list_insert_before(d, d.head, e) EXCEPT !.head = e]
        ELSE [next |-> [d.next EXCEPT ![e] = e],
              prev |-> [d.prev EXCEPT ![e] = e],
              head |-> e]

list_append(p, e) ==
    LET d == list_delete(p, e)
    IN  IF d.head # NULL THEN list_insert_before(d, d.head, e)
        ELSE [next |-> [d.next EXCEPT ![e] = e],
              prev |-> [d.prev EXCEPT ![e] = e],
              head |-> e]

list_lrotate(p) == IF p.head = NULL THEN p ELSE [p EXCEPT !.head = p.next[@]]

list_rrotate(p) == IF p.head = NULL THEN p ELSE [p EXCEPT !.head = p.prev[@]]

-----------------------------------------------------------------------------

(* A call of op, numbered 0 and 1 in turn.                                 *)
Call(op, l, e, at) ==
    call' = [op |-> op, list |-> l, entry |-> e, at |-> at, number |-> 1 - call.number]

Assign(l, p) ==
    /\ next' = p.next
    /\ prev' = p.prev
    /\ head' = [head EXCEPT ![l] = p.head]

AppendEntry(l, e) ==
    /\ ~Elsewhere(l, e)
    /\ Call("append", l, e, NULL)
    /\ Assign(l, list_append(Pointers(l), e))

DeleteEntry(l, e) ==
    /\ ~Elsewhere(l, e)
    /\ Call("delete", l, e, NULL)
    /\ Assign(l, list_delete(Pointers(l), e))

InsertBefore(l, at, e) ==
    /\ In(l, at)
    /\ next[e] = NULL
    /\ Call("insert_before", l, e, at)
    /\ Assign(l, list_insert_before(Pointers(l), at, e))

RotateLeft(l) ==
    /\ Call("lrotate", l, NULL, NULL)
    /\ Assign(l, list_lrotate(Pointers(l)))

RotateRight(l) ==
    /\ Call("rrotate", l, NULL, NULL)
    /\ Assign(l, list_rrotate(Pointers(l)))

Next ==
    \E l \in ListNames :
        \/ RotateLeft(l)
        \/ RotateRight(l)
        \/ \E e \in Entries : AppendEntry(l, e) \/ DeleteEntry(l, e)
        \/ \E at, e \in Entries : InsertBefore(l, at, e)

Spec == Init /\ [][Next]_vars

-----------------------------------------------------------------------------

(* The pointers implement the abstract lists: each call of list_append,    *)
(* list_delete, list_insert_before, list_lrotate or list_rrotate does to   *)
(* the sequence of entries read from the head what Lists says of that very *)
(* function with those arguments, and changes no other list.               *)
Abstract ==
    INSTANCE ListSpec WITH lists <- [l \in ListNames |-> Members(l)]

ImplementsListSpec == Abstract!ListSpec
==============================================================================
