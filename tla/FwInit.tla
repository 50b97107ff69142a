------------------------------- MODULE FwInit --------------------------------
(***************************************************************************)
(* top/init.c: fw_init_run looks for the next hook in the table that the   *)
(* linker has put together in some order, and runs it, until there is none *)
(* left up to the level asked for.  top/main.c calls it three times.       *)
(* Levels are only compared: small numbers stand for them.                 *)
(***************************************************************************)
EXTENDS Integers, Sequences

CONSTANTS NumHooks,     \* between fw_init_begin and fw_init_end
          Levels,       \* of the hooks; none is 0
          Calls         \* the levels firmware_main calls fw_init_run with

Hooks == 1..NumHooks

ASSUME FwInitAssumption ==
    /\ NumHooks \in Nat /\ Levels \subseteq Nat \ {0}
    /\ Calls \in Seq(Nat)
    /\ \A i, j \in 1..Len(Calls) : i <= j => Calls[i] <= Calls[j]

VARIABLES level,        \* the hooks' levels, in the table's order
          call,         \* the call of fw_init_run under way
          last_level,   \* static: the level of the call before
          last_called_level, last, found, seen_last,    \* fw_init_run's locals
          ptr,          \* ... its inner loop; NumHooks + 1 when it is over
          ran           \* how often each hook has been run; 2: more than once

vars == <<level, call, last_level, last_called_level, last, found, seen_last, ptr, ran>>

NULL == 0

Init ==
    /\ level \in [Hooks -> Levels]
    /\ call = 1
    /\ last_level = 0 /\ last_called_level = 0 /\ last = NULL
    /\ found = NULL /\ seen_last = FALSE /\ ptr = 1
    /\ ran = [h \in Hooks |-> 0]

Running == call <= Len(Calls)

\* A faulty test: of two hooks with the same level the later one is taken.
Skips_earlier(h) ==
    \/ level[h] > Calls[call]
    \/ level[h] < last_called_level
    \/ found # NULL /\ level[found] < level[h]

(* The inner loop's three tests that leave a hook out.                     *)
Skips(h) ==
    \/ level[h] > Calls[call]
    \/ level[h] < last_called_level
    \/ found # NULL /\ level[found] <= level[h]

NewLevel(h) == level[h] > last_level /\ level[h] > last_called_level

\* A faulty test: seen_last is not looked at.
SameLevel_unseen(h, seen) == level[h] = last_called_level /\ h # last

SameLevel(h, seen) == level[h] = last_called_level /\ h # last /\ seen

(* One round of the inner loop.                                            *)
Scan ==
    /\ Running /\ ptr \in Hooks
    /\ LET seen == seen_last \/ ptr = last
       IN  /\ seen_last' = seen
           /\ \/ /\ ~Skips(ptr) /\ NewLevel(ptr)
                 /\ found' = ptr /\ ptr' = ptr + 1
              \/ /\ ~Skips(ptr) /\ ~NewLevel(ptr) /\ SameLevel(ptr, seen)
                 /\ found' = ptr /\ ptr' = NumHooks + 1
              \/ /\ Skips(ptr) \/ ~(NewLevel(ptr) \/ SameLevel(ptr, seen))
                 /\ ptr' = ptr + 1 /\ UNCHANGED found
    /\ UNCHANGED <<level, call, last_level, last_called_level, last, ran>>

RunHook ==
    /\ Running /\ ptr = NumHooks + 1 /\ found # NULL
    /\ ran' = [ran EXCEPT ![found] = IF @ = 0 THEN 1 ELSE 2]
    /\ last_called_level' = level[found] /\ last' = found
    /\ found' = NULL /\ seen_last' = FALSE /\ ptr' = 1
    /\ UNCHANGED <<level, call, last_level>>

(* The call returns, and firmware_main goes on to its next one.            *)
Return ==
    /\ Running /\ ptr = NumHooks + 1 /\ found = NULL
    /\ last_level' = Calls[call] /\ last_called_level' = Calls[call] /\ last' = NULL
    /\ seen_last' = FALSE /\ ptr' = 1
    /\ call' = call + 1
    /\ UNCHANGED <<level, found, ran>>

Main == ~Running /\ UNCHANGED vars

Next == Scan \/ RunHook \/ Return \/ Main

Spec == Init /\ [][Next]_vars

-----------------------------------------------------------------------------

Abstract == INSTANCE FwInitSpec

(* The scan for the next hook finds the right one, whatever the table:     *)
(* every hook is run once, in the order of the levels and then of the      *)
(* table, and by the call it belongs to.                                   *)
ImplementsFwInitSpec == Abstract!Spec
==============================================================================
