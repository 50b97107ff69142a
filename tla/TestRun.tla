------------------------------- MODULE TestRun -------------------------------
(***************************************************************************)
(* A run of the unit tests in the simulator: core/test.c finds out from    *)
(* the device of peripherals/unittest.c which test to run, runs it where   *)
(* bootstrap gets to its level, and reports; the device counts and resets  *)
(* the mcu for the next one.  Simulator has the mcu that executes it.      *)
(***************************************************************************)
EXTENDS Integers, FiniteSets

CONSTANTS Count,        \* tests_length
          Outcomes      \* what may become of a test

ASSUME TestRunAssumption == Count \in Nat \ {0} /\ Outcomes \subseteq {"pass", "fail", "stuck"}

Tests == 0..Count - 1
Levels == 1..3 \* TEST_AFTER_ARCH_EARLY_INIT, _LATE_INIT, TEST_IN_MAIN_TASK

Reset == 0
Test == 4
Halted == 5
Unknown == 6

VARIABLES current, total, failed, \* the device
          pc,           \* the mcu: in reset, at the test_do of a level, in a
                        \* test, halted or in a program that gdb has changed
          dirty,        \* a test has left something in the ram
          exit,         \* the simulator's exit code
          type,         \* tests[i].type
          runs,         \* history: how often each test was started, to 2,
                        \* but for the starts that gdb's reset cut off ...
          result,       \* ... what became of it ...
          spoiled       \* ... and the tests that found the ram dirty

device == <<current, total, failed>>
history == <<runs, result, spoiled>>
testVars == <<device, pc, dirty, exit, type, history>>

TestInit ==
    /\ current = -1 /\ total = 0 /\ failed = 0
    /\ pc = Reset /\ dirty = FALSE /\ exit = "no"
    /\ type \in [Tests -> Levels]
    /\ runs = [t \in Tests |-> 0] /\ result = [t \in Tests |-> "none"] /\ spoiled = {}

-----------------------------------------------------------------------------

(* The reset vector: the variables get their initial values.               *)
do_irq_reset ==
    /\ pc = Reset /\ pc' = 1 /\ dirty' = FALSE
    /\ UNCHANGED <<device, exit, type, history>>

(* bootstrap calls test_do at level l.  The first time the device learns   *)
(* how many tests there are, and resets the mcu.                           *)
arch_test_set_test_count ==
    /\ current' = 0 /\ total' = Count /\ failed' = 0
    /\ pc' = Reset /\ UNCHANGED <<dirty, history>>

\* arch_test_set_desc, and the call of the test's function
StartTest ==
    /\ pc' = Test
    /\ runs' = [runs EXCEPT ![current] = IF @ = 2 THEN 2 ELSE @ + 1]
    /\ spoiled' = IF dirty THEN spoiled \cup {current} ELSE spoiled
    /\ UNCHANGED <<current, total, failed, dirty, result>>

test_do(l) ==
    /\ pc = l
    /\ \/ current < 0 /\ arch_test_set_test_count
       \/ current >= 0 /\ type[current] = l /\ StartTest
       \/ /\ current >= 0 /\ type[current] # l
          /\ pc' = (IF l = 3 THEN Halted ELSE l + 1) \* thread_block
          /\ UNCHANGED <<device, dirty, history>>
    /\ UNCHANGED <<exit, type>>

\* A faulty device: it is done one test too early.
Done_early(n) == n + 1 >= total

Done(n) == n >= total

\* A faulty device: the number of the test is not moved on.
Advanced_not(n) == n

Advanced(n) == n + 1

(* The device's register for the status: the next test, or the summary.    *)
unittest_dev_write32(s) ==
    /\ current' = Advanced(current)
    /\ failed' = IF s = "fail" THEN failed + 1 ELSE failed
    /\ IF Done(current') THEN exit' = (IF failed' > 0 THEN "failed" ELSE "passed") /\ pc' = Halted
       ELSE pc' = Reset /\ UNCHANGED exit
    /\ UNCHANGED total

(* A test returns (arch_test_pass), gives up (test_fail), or does neither. *)
EndTest(outcome) ==
    /\ pc = Test /\ dirty' = TRUE
    /\ result' = [result EXCEPT ![current] = outcome]
    /\ \/ outcome = "stuck" /\ pc' = Halted /\ UNCHANGED <<device, exit>>
       \/ outcome # "stuck" /\ unittest_dev_write32(outcome)
    /\ UNCHANGED <<type, runs, spoiled>>

(* The program that gdb has changed may do anything to the mcu, and exit.  *)
Anything ==
    /\ pc = Unknown /\ exit' \in {"no", "failed", "passed"}
    /\ UNCHANGED <<device, pc, dirty, type, history>>

TestNext ==
    \/ do_irq_reset
    \/ \E l \in Levels : test_do(l)
    \/ \E outcome \in Outcomes : EndTest(outcome)
    \/ Anything

-----------------------------------------------------------------------------

(* gdb sets the pc to 0: mcu_reset.  The device is left alone, and a test  *)
(* that was not brought to its end will be started again.                  *)
GdbReset ==
    /\ pc' = IF pc = Unknown THEN Unknown ELSE Reset
    /\ IF pc \in {Test, Halted} /\ current >= 0
       THEN /\ runs' = [runs EXCEPT ![current] = IF @ = 0 THEN 0 ELSE @ - 1]
            /\ result' = [result EXCEPT ![current] = "none"]
       ELSE UNCHANGED <<runs, result>>
    /\ UNCHANGED <<device, dirty, exit, type, spoiled>>

(* gdb writes another register, or memory.  The device, the ram and the    *)
(* tests are no longer followed.                                           *)
GdbWrite ==
    /\ pc' = Unknown
    /\ current' = -1 /\ total' = 0 /\ failed' = 0 /\ dirty' = FALSE
    /\ runs' = [t \in Tests |-> 0] /\ result' = [t \in Tests |-> "none"] /\ spoiled' = {}
    /\ UNCHANGED <<exit, type>>

-----------------------------------------------------------------------------

(* Unless gdb writes registers or memory: when the simulator exits every   *)
(* test was run to its end exactly once, a run that gdb's reset cut off    *)
(* being repeated, each from initialised memory, whatever the others left  *)
(* and however they ended; the exit code says whether one of them failed.  *)
EachTestOnce ==
    pc # Unknown =>
    /\ spoiled = {}
    /\ exit # "no" =>
        /\ \A t \in Tests : runs[t] = 1 /\ result[t] \in {"pass", "fail"}
        /\ failed = Cardinality({t \in Tests : result[t] = "fail"})
        /\ exit = IF \E t \in Tests : result[t] = "fail" THEN "failed" ELSE "passed"
==============================================================================
