------------------------------- MODULE ListSpec ------------------------------
(***************************************************************************)
(* The abstract specification of core/list.c: each list is a sequence, and *)
(* an entry is in at most one list, at most once.  Every operation has its *)
(* own effect: the interface says which one is called, and with what.      *)
(***************************************************************************)
EXTENDS Lists

CONSTANT ListNames

VARIABLES lists,
          call          \* the operation called last and its arguments

Empty ==
    /\ lists = [l \in ListNames |-> <<>>]
    /\ call.op = "none"

Elsewhere(l, e) == \E m \in ListNames \ {l} : e \in Range(lists[m])

Set(l, q) == lists' = [lists EXCEPT ![l] = q]

Rotations(l) ==
    \/ call'.op = "lrotate" /\ Set(l, list_lrotate(lists[l]))
    \/ call'.op = "rrotate" /\ Set(l, list_rrotate(lists[l]))

Changes(l, e) ==
    \/ call'.op = "append" /\ Set(l, list_append(lists[l], e))
    \/ call'.op = "delete" /\ Set(l, list_delete(lists[l], e))
    \/ /\ call'.op = "insert_before"
       /\ call'.at \in Range(lists[l]) /\ e \notin Range(lists[l])
       /\ Set(l, list_insert_before(lists[l], call'.at, e))

(* No call is mistaken for a step that does nothing: its number changes.   *)
Step ==
    /\ call'.number # call.number
    /\ \/ Rotations(call'.list)
       \/ ~Elsewhere(call'.list, call'.entry) /\ Changes(call'.list, call'.entry)

ListSpec == Empty /\ [][Step]_<<lists, call>>
==============================================================================
