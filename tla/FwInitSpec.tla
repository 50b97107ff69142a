----------------------------- MODULE FwInitSpec ------------------------------
(***************************************************************************)
(* What the calls of fw_init_run promise together: every hook whose level  *)
(* has been reached is run once, by level and, within a level, in the      *)
(* order of the table; a call does not return before.                      *)
(***************************************************************************)
EXTENDS Integers, Sequences

CONSTANTS NumHooks, Calls

Hooks == 1..NumHooks

VARIABLES level,        \* the level of each hook
          call,         \* the call that is under way, or Len(Calls) + 1
          ran           \* how often each hook has been run

Before(g, h) == level[g] < level[h] \/ (level[g] = level[h] /\ g < h)

Pending == IF call <= Len(Calls)
           THEN {h \in Hooks : ran[h] = 0 /\ level[h] <= Calls[call]} ELSE {}

Init == call = 1 /\ ran = [h \in Hooks |-> 0]

Run(h) ==
    /\ h \in Pending
    /\ \A g \in Pending : g = h \/ Before(h, g)
    /\ ran' = [ran EXCEPT ![h] = 1]
    /\ UNCHANGED <<level, call>>

Return ==
    /\ call <= Len(Calls) /\ Pending = {}
    /\ call' = call + 1
    /\ UNCHANGED <<level, ran>>

Next == (\E h \in Hooks : Run(h)) \/ Return

Spec == Init /\ [][Next]_<<level, call, ran>>
==============================================================================
