------------------------------ MODULE MCCanNode ------------------------------
(* An instance of CanNode: an output that follows two sources and one that *)
(* follows commands only, because its sources are never heard: node 7's    *)
(* readings are taken by the first source, and node 9 has none.            *)
EXTENDS CanNode, TLC

CONSTANTS loop, sem

OneThread == {loop}
OneSemaphore == {sem}

Listen(n, s) == [node |-> n, sensor |-> s, off_value |-> 2, on_value |-> 3]

TwoConf ==
    1 :> (1 :> Listen(7, 0) @@ 2 :> Listen(1023, 1)) @@
    2 :> (1 :> Listen(7, 1) @@ 2 :> Listen(9, 0))
TwoReadings ==
    {[from |-> 7, sensor |-> s, value |-> v] : s \in {0, 1}, v \in {1, 2, 3, 4}}
    \cup {[from |-> 1023, sensor |-> 1, value |-> v] : v \in {1, 4}}
==============================================================================
