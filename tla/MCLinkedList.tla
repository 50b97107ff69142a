---------------------------- MODULE MCLinkedList -----------------------------
(* Model values for LinkedList: see MCLinkedList.cfg.                      *)
EXTENDS LinkedList

CONSTANTS e1, e2, e3, e4, l1, l2

FourEntries == {e1, e2, e3, e4}
TwoLists == {l1, l2}
==============================================================================
